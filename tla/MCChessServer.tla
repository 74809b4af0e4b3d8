--------------------------- MODULE MCChessServer ---------------------------
(***************************************************************************)
(* Instances of ChessServer for TLC.                                       *)
(***************************************************************************)
EXTENDS ChessServer, TLC

\* Sound for the invariants: no constant or operator tells two sessions, two
\* accounts or two rooms apart.
Interchangeable ==
  Permutations(Sessions) \union Permutations(Accounts) \union Permutations(RoomIds)

(***************************************************************************)
(* What can still matter: states that differ only in data nobody will read *)
(* again are the same to TLC.  That is the board of a room no pointer      *)
(* leads to, the account and rating of a session whose read loop has ended *)
(* and what was last sent to a session that is no longer listed.           *)
(***************************************************************************)
LiveState ==
  LET live(r) == \E s \in Sessions : room[s] = r
      open(s) == conn[s] # "closed" IN
  << [r \in RoomIds |-> IF live(r) THEN rooms[r] ELSE Created(r)],
     room, db, saved, settled, conn, broken, listed, inQueue, queue,
     [s \in Sessions |-> IF open(s) THEN <<user[s], rating[s]>> ELSE <<NoUser, 0>>],
     [s \in Sessions |-> IF s \in listed THEN <<told[s] = "match_found", sizeSeen[s]>> ELSE <<FALSE, -1>>] >>
=============================================================================

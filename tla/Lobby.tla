------------------------------- MODULE Lobby -------------------------------
(***************************************************************************)
(* What the server promises its players about being matched, whatever the  *)
(* boards, ratings and connections do: at most one player waits; whoever   *)
(* comes while one waits plays that one at once; a game always has two     *)
(* players, each the other's opponent, and ends for both in one step.      *)
(***************************************************************************)
CONSTANTS Members, Nobody

VARIABLES
  waiting,    \* the players waiting for an opponent
  peer        \* each player's opponent, Nobody outside a game

lobbyVars == <<waiting, peer>>

Free(p) == p \notin waiting /\ peer[p] = Nobody

LobbyInit ==
  /\ waiting = {}
  /\ peer = [p \in Members |-> Nobody]

Wait(p) ==
  /\ Free(p)
  /\ waiting = {}
  /\ waiting' = {p}
  /\ UNCHANGED peer

Pair(p, q) ==
  /\ Free(p)
  /\ waiting = {q}
  /\ waiting' = {}
  /\ peer' = [peer EXCEPT ![p] = q, ![q] = p]

Withdraw(p) ==
  /\ waiting = {p}
  /\ waiting' = {}
  /\ UNCHANGED peer

Part(p, q) ==
  /\ peer[p] = q
  /\ peer[q] = p
  /\ peer' = [peer EXCEPT ![p] = Nobody, ![q] = Nobody]
  /\ UNCHANGED waiting

LobbyNext ==
  \/ \E p \in Members : Wait(p) \/ Withdraw(p)
  \/ \E p, q \in Members : Pair(p, q) \/ Part(p, q)

LobbySpec == LobbyInit /\ [][LobbyNext]_lobbyVars
=============================================================================

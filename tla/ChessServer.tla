---------------------------- MODULE ChessServer ----------------------------
(***************************************************************************)
(* ChessServer and the sessions it serves.  main.cpp runs the io_context   *)
(* on one thread, so a handler (a command read from a socket, an accepted  *)
(* connection, a completed read or write error) is one atomic action; the  *)
(* order of handlers of different sessions is arbitrary.                   *)
(*                                                                         *)
(* A session has two independent failures.  The read loop ends when a read *)
(* fails, and calls on_disconnect.  A failed write calls on_disconnect as  *)
(* well, but the read loop goes on: commands that are already buffered are *)
(* still executed, by a session the server has already dropped.            *)
(*                                                                         *)
(* A request the code answers with an error, chat and ping change nothing  *)
(* that is modelled: they are stuttering steps.                            *)
(***************************************************************************)
EXTENDS GameRoom, Sequences, SequencesExt

CONSTANTS
  InitialRating,          \* users.rating DEFAULT 1000
  OneSessionPerAccount    \* clients never log in twice to one account at a time

ASSUME NullsAssumption ==
  /\ NoPlayer \notin Sessions
  /\ NoUser \notin Accounts
  /\ NoRoom \notin RoomIds

ASSUME RatingAssumption ==
  /\ IsFiniteSet(Accounts)
  /\ InitialRating \in Int
  /\ OneSessionPerAccount \in BOOLEAN

VARIABLES
  conn,       \* "none" before the accept, "reading", "closed" once a read failed
  broken,     \* sessions whose write failed: their outbox is never sent again
  listed,     \* _all_players
  inQueue,    \* sessions whose _in_queue flag is set
  queue,      \* _queue
  sizeSeen    \* the last queue_update sent to each session, -1 if none

serverVars == <<conn, broken, listed, inQueue, queue, sizeSeen>>
vars == <<roomVars, serverVars>>

Authorized(s) == user[s] # NoUser
Reading(s) == conn[s] = "reading"
InRoom(s) == room[s] # NoRoom

Init ==
  /\ rooms = [r \in RoomIds |-> NoGame]
  /\ room = [s \in Sessions |-> NoRoom]
  /\ user = [s \in Sessions |-> NoUser]
  /\ rating = [s \in Sessions |-> InitialRating]
  /\ db = [a \in Accounts |-> [rating |-> InitialRating, played |-> 0, won |-> 0]]
  /\ told = [s \in Sessions |-> "nothing"]
  /\ saved = [r \in RoomIds |-> 0]
  /\ settled = [r \in RoomIds |-> 0]
  /\ conn = [s \in Sessions |-> "none"]
  /\ broken = {}
  /\ listed = {}
  /\ inQueue = {}
  /\ queue = <<>>
  /\ sizeSeen = [s \in Sessions |-> -1]

-----------------------------------------------------------------------------
(* The queue.                                                              *)

\* mutant of broadcast_queue_size: the size is taken before the change.
broadcast_stale_size(players) ==
  sizeSeen' = [s \in Sessions |->
                 IF s \in players /\ Authorized(s) THEN Len(queue) ELSE sizeSeen[s]]

\* broadcast_queue_size, as the members of players see it.
broadcast_queue_size(players) ==
  sizeSeen' = [s \in Sessions |->
                 IF s \in players /\ Authorized(s) THEN Len(queue') ELSE sizeSeen[s]]

\* mutant of dequeue: _in_queue is not reset.
dequeue_flag_kept(s) ==
  /\ queue' = RemoveFirst(queue, s)
  /\ UNCHANGED inQueue

\* remove_from_queue without its broadcast: the flag decides, not the queue.
dequeue(s) ==
  IF s \in inQueue
    THEN /\ inQueue' = inQueue \ {s}
         /\ queue' = RemoveFirst(queue, s)
    ELSE UNCHANGED <<inQueue, queue>>

\* mutant of Pairings: the closest rating to one's own is one's own.
Pairings_self(waiting) ==
  {pair \in waiting \X waiting : \A s \in waiting : rating[pair[1]] <= rating[s]}

\* The pairs try_matchmake may pick: the lowest rating, and the rating closest
\* to it; std::sort leaves the order of equal ratings open.
Pairings(waiting) ==
  {pair \in waiting \X waiting :
     LET white == pair[1]
         black == pair[2]
         gap(s) == rating[s] - rating[white]
     IN  /\ white # black
         /\ \A s \in waiting : gap(s) >= 0
         /\ \A s \in waiting \ {white} : gap(black) <= gap(s)}

-----------------------------------------------------------------------------
(* Handlers.                                                               *)

\* The accept handlers of both acceptors.
Accept(s) ==
  /\ conn[s] = "none"
  /\ conn' = [conn EXCEPT ![s] = "reading"]
  /\ listed' = listed \union {s}
  /\ UNCHANGED <<roomVars, broken, inQueue, queue, sizeSeen>>

\* mutant of handle_auth: the session keeps the rating it had.
handle_auth_old_rating(s, a) ==
  /\ Reading(s)
  /\ user' = [user EXCEPT ![s] = a]
  /\ UNCHANGED <<rooms, room, rating, db, told, saved, settled, serverVars>>

\* handle_auth, once login_or_register has found or created the account; it may
\* be called again at any time, in the queue or in the middle of a game.
handle_auth(s, a) ==
  /\ Reading(s)
  /\ OneSessionPerAccount =>
       \A t \in Sessions \ {s} : user[t] = a => conn[t] = "closed"
  /\ user' = [user EXCEPT ![s] = a]
  /\ rating' = [rating EXCEPT ![s] = db[a].rating]
  /\ UNCHANGED <<rooms, room, db, told, saved, settled, serverVars>>

\* mutant of QueueWait: try_matchmake asks for more than two.
QueueWait_beside(s) ==
  /\ Reading(s) /\ Authorized(s) /\ ~InRoom(s) /\ s \notin inQueue
  /\ Len(queue) + 1 <= 2
  /\ inQueue' = inQueue \union {s}
  /\ queue' = Append(queue, s)
  /\ broadcast_queue_size(listed)
  /\ UNCHANGED <<roomVars, conn, broken, listed>>

\* handle_queue for a player who stays alone in the queue: try_matchmake returns.
QueueWait(s) ==
  /\ Reading(s) /\ Authorized(s) /\ ~InRoom(s) /\ s \notin inQueue
  /\ Len(queue) + 1 < 2
  /\ inQueue' = inQueue \union {s}
  /\ queue' = Append(queue, s)
  /\ broadcast_queue_size(listed)
  /\ UNCHANGED <<roomVars, conn, broken, listed>>

\* handle_queue for a player who makes it two or more: try_matchmake takes a
\* pair out of the queue and starts their room.
QueueMatch(s) ==
  /\ Reading(s) /\ Authorized(s) /\ ~InRoom(s) /\ s \notin inQueue
  /\ Len(queue) + 1 >= 2
  /\ \E r \in RoomIds, pair \in Pairings(Range(queue) \union {s}) :
       /\ ~Created(r)
       /\ inQueue' = (inQueue \union {s}) \ {pair[1], pair[2]}
       /\ queue' = RemoveFirst(RemoveFirst(Append(queue, s), pair[1]), pair[2])
       /\ start(r, pair[1], pair[2])
  /\ broadcast_queue_size(listed)
  /\ UNCHANGED <<user, conn, broken, listed>>

\* RoomOnDisconnect when the session has a room, which tells the opponent.
depart(s, left) ==
  /\ told' = [p \in Sessions |->
               IF p = s /\ left THEN "left"
               ELSE IF InRoom(s) /\ p = opponent_of(room[s], s) THEN "opponent_disconnected"
               ELSE told[p]]
  /\ IF InRoom(s)
       THEN RoomOnDisconnect(room[s], s)
       ELSE UNCHANGED <<rooms, room, rating, db, saved, settled>>

\* handle_leave: out of the queue, or out of the game at the price of a loss.
handle_leave(s) ==
  /\ Reading(s) /\ Authorized(s)
  /\ dequeue(s)
  /\ broadcast_queue_size(IF s \in inQueue THEN listed ELSE {})
  /\ depart(s, TRUE)
  /\ UNCHANGED <<user, conn, broken, listed>>

\* handle_move and handle_draw hand over to the player's room.
InGame(s) == Reading(s) /\ Authorized(s) /\ InRoom(s)

handle_move(s) ==
  /\ InGame(s)
  /\ on_move(room[s], s)
  /\ UNCHANGED <<user, serverVars>>

DrawOffer(s) ==
  /\ InGame(s)
  /\ on_draw_request(room[s], s)
  /\ UNCHANGED <<user, serverVars>>

DrawAccept(s) ==
  /\ InGame(s)
  /\ on_draw_accept(room[s], s)
  /\ UNCHANGED <<user, serverVars>>

DrawDecline(s) ==
  /\ InGame(s)
  /\ on_draw_decline(room[s], s)
  /\ UNCHANGED <<user, serverVars>>

\* ChessServer::on_disconnect.  remove_from_queue broadcasts while s is still
\* listed, the final broadcast goes to the others.
on_disconnect(s) ==
  /\ dequeue(s)
  /\ depart(s, FALSE)
  /\ listed' = listed \ {s}
  /\ broadcast_queue_size(IF s \in inQueue THEN listed ELSE listed \ {s})
  /\ UNCHANGED user

\* mutant of ReadError: a session dropped by a failed write is not dropped again.
ReadError_once(s) ==
  /\ Reading(s)
  /\ conn' = [conn EXCEPT ![s] = "closed"]
  /\ IF s \in broken
       THEN UNCHANGED <<roomVars, listed, inQueue, queue, sizeSeen>>
       ELSE on_disconnect(s)
  /\ UNCHANGED broken

\* The completion of do_read with an error: the loop is not resumed.
ReadError(s) ==
  /\ Reading(s)
  /\ conn' = [conn EXCEPT ![s] = "closed"]
  /\ on_disconnect(s)
  /\ UNCHANGED broken

\* The completion of do_write with an error: the front of the outbox is not
\* popped, so no later send starts a write and this happens once per session.
\* Any line the client sends is answered, so there is a write to fail.
WriteError(s) ==
  /\ conn[s] # "none"
  /\ s \notin broken
  /\ broken' = broken \union {s}
  /\ on_disconnect(s)
  /\ UNCHANGED conn

Next ==
  \E s \in Sessions :
    \/ Accept(s)
    \/ \E a \in Accounts : handle_auth(s, a)
    \/ QueueWait(s)
    \/ QueueMatch(s)
    \/ handle_leave(s)
    \/ handle_move(s)
    \/ DrawOffer(s)
    \/ DrawAccept(s)
    \/ DrawDecline(s)
    \/ ReadError(s)
    \/ WriteError(s)

Spec == Init /\ [][Next]_vars

\* A read on a connection whose write failed fails in the end; the buffer that
\* is still to be executed is finite.
FairSpec == Spec /\ \A s \in Sessions : WF_vars(s \in broken /\ ReadError(s))

-----------------------------------------------------------------------------
(* Properties.                                                             *)

Messages == {"nothing", "match_found", "game_over", "opponent_disconnected", "left"}

TypeOK ==
  /\ rooms \in [RoomIds -> [white : Sessions \union {NoPlayer},
                            black : Sessions \union {NoPlayer},
                            offers : SUBSET {"white", "black"},
                            toMove : {"white", "black"}]]
  /\ room \in [Sessions -> RoomIds \union {NoRoom}]
  /\ user \in [Sessions -> Accounts \union {NoUser}]
  /\ rating \in [Sessions -> Int]
  /\ db \in [Accounts -> [rating : Int, played : Nat, won : Nat]]
  /\ told \in [Sessions -> Messages]
  /\ saved \in [RoomIds -> Nat]
  /\ settled \in [RoomIds -> Nat]
  /\ conn \in [Sessions -> {"none", "reading", "closed"}]
  /\ broken \subseteq Sessions
  /\ listed \subseteq Sessions
  /\ inQueue \subseteq Sessions
  /\ queue \in Seq(Sessions)
  /\ sizeSeen \in [Sessions -> Int]

\* The _in_queue flags and the deque agree, no session is queued twice, and
\* nobody waits for a game while playing one.  handle_queue checks flag and
\* room only on entry; leaving, matching and both kinds of disconnect must
\* each keep the two in step.
QueueCoherent ==
  /\ inQueue = Range(queue)
  /\ IsInjective(queue)
  /\ \A s \in inQueue : Authorized(s) /\ ~InRoom(s)

\* try_matchmake runs at every push and pairs at most once: that suffices,
\* since two players never wait at the same time.  Were it false, a pair
\* could wait until a third player comes.
NobodyWaitsBesideAnother == Len(queue) < 2

\* A room pointer leads to a room that has the session as a player and whose
\* other player points back: a game is never one-sided, and neither player
\* sits in two games.
RoomsSymmetric ==
  \A s \in Sessions : InRoom(s) =>
    /\ Created(room[s])
    /\ s \in Players(room[s])
    /\ opponent_of(room[s], s) # s
    /\ room[opponent_of(room[s], s)] = room[s]

\* Once the read loop of a session has ended the server holds nothing of it
\* but its old rooms: it is not queued, not playing and gets no broadcasts,
\* whatever it did between a failed write and the failed read.
NoGhosts ==
  \A s \in Sessions : conn[s] \in {"none", "closed"} =>
    s \notin inQueue /\ ~InRoom(s) /\ s \notin listed

\* A game is settled once: while its players point to it nothing has been
\* rated or saved, and from then on exactly one ending has.  An ending that
\* both rates and saves is a checkmate; a draw saves, a departure rates.
SettledOnce ==
  \A r \in RoomIds :
    IF \E s \in Sessions : room[s] = r
      THEN settled[r] = 0 /\ saved[r] = 0
      ELSE /\ settled[r] <= 1 /\ saved[r] <= 1
           /\ Created(r) <=> settled[r] + saved[r] > 0

\* A client that can still be reached believes to be in a game exactly when
\* the server has it in one: nobody is left at the board of a finished game.
PlayersInformed ==
  \A s \in Sessions : Reading(s) /\ s \notin broken => (told[s] = "match_found" <=> InRoom(s))

\* The last queue size sent to a listed player is the size of the queue.
QueueSizeFresh ==
  \A s \in listed : sizeSeen[s] # -1 => sizeSeen[s] = Len(queue)

\* With one session per account at a time, the rating a session carries is
\* the one in the database, through games, logins under another name in the
\* middle of a game, and reconnections.
RatingCacheFresh ==
  OneSessionPerAccount =>
    \A s \in Sessions :
      Authorized(s) /\ conn[s] # "closed" => rating[s] = db[user[s]].rating

\* With one session per account, no game creates or destroys rating points:
\* the database always holds InitialRating points per account.
RatingPointsConserved ==
  OneSessionPerAccount =>
    LET ratings == [a \in Accounts |-> db[a].rating]
    IN  MapThenSumSet(LAMBDA a : ratings[a], Accounts) = InitialRating * Cardinality(Accounts)

\* A game of s ends in this step.
OwnGameEnds(s) == InRoom(s) /\ ~InRoom(s)'

\* A session's rating moves only when its own game ends or at a login, and a row
\* of the users table only when a game of a session logged in to it ends, whose
\* rating it then has: no settlement, disconnect or login under another name in
\* the middle of a game reaches anybody else's session or row.
RatingMovesWithOwnGame ==
  [][/\ \A s \in Sessions :
          rating'[s] # rating[s] =>
            OwnGameEnds(s) \/ (Reading(s) /\ rating'[s] = db[user'[s]].rating)
     /\ \A a \in Accounts :
          db'[a] # db[a] =>
            \E s \in Sessions : user[s] = a /\ OwnGameEnds(s) /\ db'[a].rating = rating'[s]]_vars

\* The connection of a player who can no longer be written to is given up:
\* from some point on it neither waits in the queue nor keeps an opponent.
BrokenIsGivenUp ==
  \A s \in Sessions : s \in broken ~> [](s \notin inQueue /\ ~InRoom(s))

\* The server implements Lobby: the queue is the waiting room, and opponents
\* are the two players of a room both point to.
peerOf == [s \in Sessions |-> IF InRoom(s) THEN opponent_of(room[s], s) ELSE NoPlayer]
L == INSTANCE Lobby WITH Members <- Sessions, Nobody <- NoPlayer,
                         waiting <- inQueue, peer <- peerOf
ImplementsLobby == L!LobbySpec
=============================================================================

-------------------------- MODULE ChessServerProofs -------------------------
(***************************************************************************)
(* The server's queue and rooms stay consistent for any number of          *)
(* sessions, accounts and rooms, in any interleaving of their commands,    *)
(* read errors and write errors.                                           *)
(*                                                                         *)
(* IInv is the inductive invariant: the typing invariant, the properties   *)
(* of the runs, and two facts they rest on (the players of a room are two  *)
(* sessions, and only a logged-in session gets a room).                    *)
(***************************************************************************)
EXTENDS ChessServer, RatingProofs, SequenceTheorems, TLAPS

-----------------------------------------------------------------------------
(* The queue as a sequence.                                                *)

LEMMA SingletonQueue ==
  ASSUME NEW S, NEW q \in Seq(S), Len(q) = 1
  PROVE  q = <<q[1]>>
OBVIOUS

LEMMA SubSeqOne ==
  ASSUME NEW S, NEW q \in Seq(S), NEW i \in 1..Len(q)
  PROVE  SubSeq(q, i, i) = <<q[i]>>
<1>1. \A j \in i..i : q[j] \in S
  BY ElementOfSeq
<1>2. SubSeq(q, i, i) \in Seq(S) /\ Len(SubSeq(q, i, i)) = 1
  BY <1>1, SubSeqProperties
<1>3. SubSeq(q, i, i)[1] = q[i]
  BY <1>1, SubSeqProperties
<1> QED BY <1>2, <1>3, SingletonQueue

LEMMA AppendToOne ==
  ASSUME NEW S, NEW x \in S, NEW y \in S
  PROVE  Append(<<x>>, y) = <<x, y>>
<1> DEFINE a == Append(<<x>>, y)
<1>1. <<x>> \in Seq(S) /\ Len(<<x>>) = 1 /\ <<x, y>> \in Seq(S) /\ Len(<<x, y>>) = 2
  OBVIOUS
<1>2. a \in Seq(S) /\ Len(a) = 2 /\ a[1] = x /\ a[2] = y
  BY <1>1, AppendProperties
<1>3. \A i \in 1..2 : a[i] = <<x, y>>[i]
  BY <1>2
<1> QED BY <1>1, <1>2, <1>3, SeqEqual

LEMMA RemoveOnly ==
  ASSUME NEW S, NEW x \in S
  PROVE  RemoveFirst(<<x>>, x) = <<>>
<1> DEFINE q == <<x>>
<1>1. q \in Seq(S) /\ Len(q) = 1 /\ q[1] = x
  OBVIOUS
<1>2. {i \in 1..Len(q) : q[i] = x} = {1}
  BY <1>1
<1>3. Min({1}) = 1
  BY DEF Min
<1>4. RemoveFirst(q, x) = RemoveAt(q, 1)
  BY <1>1, <1>2, <1>3 DEF RemoveFirst, SelectInSeq
<1>5. RemoveAt(q, 1) = <<>>
  BY <1>1, SubSeqProperties DEF RemoveAt
<1> QED BY <1>4, <1>5

LEMMA RemoveOther ==
  ASSUME NEW S, NEW x \in S, NEW y \in S, x # y
  PROVE  /\ RemoveFirst(<<x, y>>, x) = <<y>>
         /\ RemoveFirst(<<x, y>>, y) = <<x>>
<1> DEFINE q == <<x, y>>
<1>1. q \in Seq(S) /\ Len(q) = 2 /\ q[1] = x /\ q[2] = y
  OBVIOUS
<1>2. {i \in 1..Len(q) : q[i] = x} = {1} /\ {i \in 1..Len(q) : q[i] = y} = {2}
  BY <1>1
<1>3. Min({1}) = 1 /\ Min({2}) = 2
  BY DEF Min
<1>4. RemoveFirst(q, x) = RemoveAt(q, 1) /\ RemoveFirst(q, y) = RemoveAt(q, 2)
  BY <1>1, <1>2, <1>3 DEF RemoveFirst, SelectInSeq
<1>5. RemoveAt(q, 1) = SubSeq(q, 1, 0) \o SubSeq(q, 2, 2)
      /\ RemoveAt(q, 2) = SubSeq(q, 1, 1) \o SubSeq(q, 3, 2)
  BY <1>1 DEF RemoveAt
<1>6. SubSeq(q, 1, 0) = <<>> /\ SubSeq(q, 3, 2) = <<>>
  BY SubSeqEmpty
<1>7. SubSeq(q, 2, 2) = <<y>> /\ SubSeq(q, 1, 1) = <<x>>
  <2>1. 1 \in 1..Len(q) /\ 2 \in 1..Len(q)
    BY <1>1
  <2> QED BY <1>1, <2>1, SubSeqOne
<1>8. <<>> \o <<y>> = <<y>> /\ <<x>> \o <<>> = <<x>>
  BY ConcatEmptySeq
<1> QED BY <1>4, <1>5, <1>6, <1>7, <1>8

-----------------------------------------------------------------------------
(* The inductive invariant.                                                *)

\* The players of a room are two different sessions.
RoomsFormed ==
  \A r \in RoomIds : Created(r) =>
    /\ rooms[r].white \in Sessions
    /\ rooms[r].black \in Sessions
    /\ rooms[r].white # rooms[r].black

\* Only a session that has logged in gets a room.
RoomsNeedLogin == \A s \in Sessions : InRoom(s) => Authorized(s)

RoomsInv == RoomsFormed /\ RoomsSymmetric /\ RoomsNeedLogin

QueueInv == QueueCoherent /\ NobodyWaitsBesideAnother

IInv == TypeOK /\ QueueInv /\ RoomsInv /\ NoGhosts

-----------------------------------------------------------------------------
(* What the shared parts of the handlers do.                               *)

\* The queue holds nobody, or one session whose flag is the only one set.
LEMMA QueueShape ==
  ASSUME TypeOK, QueueInv
  PROVE  \/ queue = <<>> /\ inQueue = {}
         \/ \E x \in Sessions : queue = <<x>> /\ inQueue = {x}
<1>1. CASE Len(queue) = 0
  <2>1. queue = <<>>
    BY <1>1, EmptySeq DEF TypeOK
  <2>2. inQueue = {}
    BY <2>1 DEF QueueInv, QueueCoherent, Range
  <2> QED BY <2>1, <2>2
<1>2. CASE Len(queue) = 1
  <2>1. queue \in Seq(Sessions)
    BY DEF TypeOK
  <2>3. queue[1] \in Sessions /\ queue = <<queue[1]>>
    <3>1. queue[1] \in Sessions
      BY <2>1, <1>2, ElementOfSeq
    <3> QED BY <2>1, <1>2, <3>1, SingletonQueue
  <2>2. inQueue = {queue[1]}
    BY <2>3 DEF QueueInv, QueueCoherent, Range
  <2> QED BY <2>2, <2>3
<1>3. Len(queue) \in Nat
  <2>1. queue \in Seq(Sessions)
    BY DEF TypeOK
  <2> QED BY <2>1, LenProperties
<1> QED BY <1>1, <1>2, <1>3 DEF QueueInv, NobodyWaitsBesideAnother

\* A queue in one of these two shapes satisfies QueueInv.
LEMMA QueueFromShape ==
  ASSUME NEW q, NEW f,
         \/ q = <<>> /\ f = {}
         \/ \E x \in Sessions : q = <<x>> /\ f = {x}
  PROVE  q \in Seq(Sessions) /\ f \subseteq Sessions /\ f = Range(q)
         /\ IsInjective(q) /\ Len(q) < 2
<1>1. CASE q = <<>> /\ f = {}
  BY <1>1 DEF Range, IsInjective
<1>2. ASSUME NEW x \in Sessions, q = <<x>>, f = {x}
      PROVE  q \in Seq(Sessions) /\ f \subseteq Sessions /\ f = Range(q)
             /\ IsInjective(q) /\ Len(q) < 2
  BY <1>2 DEF Range, IsInjective
<1> QED BY <1>1, <1>2

\* remove_from_queue takes out exactly the session it is given.
LEMMA DequeueEffect ==
  ASSUME TypeOK, QueueInv, NEW s \in Sessions, dequeue(s)
  PROVE  /\ inQueue' = inQueue \ {s}
         /\ \/ queue' = <<>> /\ inQueue' = {}
            \/ \E x \in Sessions : queue' = <<x>> /\ inQueue' = {x}
<1>1. CASE s \notin inQueue
  BY <1>1, QueueShape DEF dequeue
<1>2. CASE s \in inQueue
  <2>1. queue = <<s>> /\ inQueue = {s}
    BY <1>2, QueueShape
  <2> QED BY <1>2, <2>1, RemoveOnly DEF dequeue
<1> QED BY <1>1, <1>2

UserRow == [rating : Int, played : Nat, won : Nat]

LEMMA TableTyped ==
  ASSUME NEW t \in [Accounts -> UserRow], NEW a \in Accounts
  PROVE  /\ \A v \in Int : db_update_rating(t, a, v) \in [Accounts -> UserRow]
         /\ \A b \in BOOLEAN : db_update_stats(t, a, b) \in [Accounts -> UserRow]
<1>1. ASSUME NEW v \in Int PROVE db_update_rating(t, a, v) \in [Accounts -> UserRow]
  BY DEF db_update_rating, UserRow
<1>2. ASSUME NEW b \in BOOLEAN PROVE db_update_stats(t, a, b) \in [Accounts -> UserRow]
  BY DEF db_update_stats, UserRow
<1> QED BY <1>1, <1>2

\* Ratings stay integers and counters natural numbers through a settlement.
LEMMA SettlementTyped ==
  ASSUME TypeOK, NEW r \in RoomIds, NEW w \in Sessions, NEW l \in Sessions,
         Authorized(w), Authorized(l), update_rating(r, w, l)
  PROVE  /\ rating' \in [Sessions -> Int]
         /\ db' \in [Accounts -> UserRow]
         /\ settled' \in [RoomIds -> Nat]
<1> DEFINE newW == rating[w] + Gain(rating[w] - rating[l])
           newL == rating[l] - Loss(rating[w] - rating[l])
           d1 == db_update_rating(db, user[w], newW)
           d2 == db_update_rating(d1, user[l], newL)
           d3 == db_update_stats(d2, user[w], TRUE)
           d4 == db_update_stats(d3, user[l], FALSE)
<1>1. newW \in Int /\ newL \in Int
  <2>1. rating[w] - rating[l] \in Int
    BY DEF TypeOK
  <2>2. Gain(rating[w] - rating[l]) \in Int /\ Loss(rating[w] - rating[l]) \in Int
    BY <2>1, GainBounded, LossIsGain DEF K
  <2> QED BY <2>2 DEF TypeOK
<1>2. rating' \in [Sessions -> Int] /\ settled' \in [RoomIds -> Nat]
  BY <1>1 DEF update_rating, TypeOK
<1>3. db' = d4
  BY DEF update_rating
<1>4. db \in [Accounts -> UserRow] /\ user[w] \in Accounts /\ user[l] \in Accounts
  BY DEF TypeOK, UserRow, Authorized
<1> HIDE DEF newW, newL
<1>5. d2 \in [Accounts -> UserRow]
  BY <1>1, <1>4, TableTyped
<1> HIDE DEF d2
<1>6. d4 \in [Accounts -> UserRow]
  BY <1>4, <1>5, TableTyped
<1> QED BY <1>2, <1>3, <1>6

\* Emptying the room of a session leaves every other game as it was.
LEMMA VacateEffect ==
  ASSUME TypeOK, RoomsInv, NullsAssumption, NEW s \in Sessions, InRoom(s), vacate(room[s]),
         \A r \in RoomIds : rooms'[r].white = rooms[r].white /\ rooms'[r].black = rooms[r].black,
         user' = user
  PROVE  /\ RoomsInv'
         /\ room' \in [Sessions -> RoomIds \union {NoRoom}]
         /\ room'[s] = NoRoom
         /\ \A t \in Sessions : room'[t] = room[t] \/ room'[t] = NoRoom
<1>1. /\ room' \in [Sessions -> RoomIds \union {NoRoom}]
      /\ \A t \in Sessions : room'[t] = IF t \in Players(room[s]) THEN NoRoom ELSE room[t]
  BY DEF vacate, TypeOK
<1>2. room[s] \in RoomIds /\ s \in Players(room[s])
  BY DEF RoomsInv, RoomsSymmetric, InRoom, TypeOK
<1>3. RoomsFormed' /\ RoomsNeedLogin'
  BY <1>1 DEF RoomsInv, RoomsFormed, RoomsNeedLogin, Created, InRoom, Authorized
<1>4. RoomsSymmetric'
  <2> SUFFICES ASSUME NEW t \in Sessions, InRoom(t)'
               PROVE  /\ Created(room[t])'
                      /\ t \in Players(room[t])'
                      /\ opponent_of(room[t], t)' # t
                      /\ room'[opponent_of(room[t], t)'] = room'[t]
    BY DEF RoomsSymmetric
  <2> DEFINE o == opponent_of(room[t], t)
  <2>1. room'[t] = room[t] /\ t \notin Players(room[s]) /\ InRoom(t) /\ room[t] \in RoomIds
    BY <1>1 DEF InRoom, TypeOK
  <2>2. Created(room[t]) /\ t \in Players(room[t]) /\ o # t /\ room[o] = room[t]
    BY <2>1 DEF RoomsInv, RoomsSymmetric
  <2>3. o \in Sessions /\ Players(room[t]) = {o, t}
    BY <2>1, <2>2 DEF RoomsInv, RoomsFormed, opponent_of, Players
  <2>4. o \notin Players(room[s])
    <3>1. ASSUME o \in Players(room[s]) PROVE room[o] = room[s]
      BY <3>1, <1>2 DEF RoomsInv, RoomsSymmetric, Players, opponent_of
    <3> QED BY <3>1, <2>1, <2>2, <2>3, <1>2
  <2>5. room'[o] = room[o]
    BY <1>1, <2>3, <2>4
  <2>6. opponent_of(room[t], t)' = o /\ Players(room[t])' = Players(room[t])
    BY <2>1 DEF opponent_of, Players
  <2> QED BY <2>1, <2>2, <2>5, <2>6 DEF Created
<1> QED BY <1>1, <1>2, <1>3, <1>4 DEF RoomsInv

\* While no room is created and no pointer moves, the rooms stay as they are.
LEMMA RoomsKept ==
  ASSUME RoomsInv, TypeOK, room' = room,
         \A s \in Sessions : Authorized(s) => Authorized(s)',
         \A r \in RoomIds : rooms'[r].white = rooms[r].white /\ rooms'[r].black = rooms[r].black
  PROVE  RoomsInv'
<1>1. RoomsFormed' /\ RoomsNeedLogin'
  BY DEF RoomsInv, RoomsFormed, RoomsNeedLogin, Created, InRoom
<1>2. RoomsSymmetric'
  <2> SUFFICES ASSUME NEW s \in Sessions, InRoom(s)'
               PROVE  /\ Created(room[s])'
                      /\ s \in Players(room[s])'
                      /\ opponent_of(room[s], s)' # s
                      /\ room'[opponent_of(room[s], s)'] = room'[s]
    BY DEF RoomsSymmetric
  <2>1. InRoom(s) /\ room[s] \in RoomIds
    BY DEF InRoom, TypeOK
  <2>2. opponent_of(room[s], s)' = opponent_of(room[s], s)
        /\ Players(room[s])' = Players(room[s]) /\ (Created(room[s])' <=> Created(room[s]))
    BY <2>1 DEF opponent_of, Players, Created
  <2> QED BY <2>1, <2>2 DEF RoomsInv, RoomsSymmetric
<1> QED BY <1>1, <1>2 DEF RoomsInv

\* What every ending of the game of s preserves: no pointer is set, the rooms
\* stay symmetric and the session values typed.
GameTyped ==
  /\ room \in [Sessions -> RoomIds \union {NoRoom}]
  /\ rating \in [Sessions -> Int]
  /\ db \in [Accounts -> UserRow]
  /\ saved \in [RoomIds -> Nat]
  /\ settled \in [RoomIds -> Nat]

\* The opponent of a player in a game is another session with a login.
LEMMA OpponentOf ==
  ASSUME TypeOK, RoomsInv, NEW s \in Sessions, InRoom(s)
  PROVE  /\ room[s] \in RoomIds
         /\ opponent_of(room[s], s) \in Sessions
         /\ Players(room[s]) = {s, opponent_of(room[s], s)}
         /\ Authorized(s) /\ Authorized(opponent_of(room[s], s))
<1>1. room[s] \in RoomIds /\ Created(room[s]) /\ s \in Players(room[s])
      /\ room[opponent_of(room[s], s)] = room[s]
  BY DEF InRoom, TypeOK, RoomsInv, RoomsSymmetric
<1>2. opponent_of(room[s], s) \in Sessions /\ Players(room[s]) = {s, opponent_of(room[s], s)}
  BY <1>1 DEF RoomsInv, RoomsFormed, opponent_of, Players
<1>3. InRoom(opponent_of(room[s], s))
  BY <1>1 DEF InRoom
<1> QED BY <1>1, <1>2, <1>3 DEF RoomsInv, RoomsNeedLogin

\* end_game with a winner among the players or with none.
LEMMA EndGameEffect ==
  ASSUME TypeOK, RoomsInv, NullsAssumption, NEW s \in Sessions, InRoom(s),
         NEW w \in Players(room[s]) \union {NoPlayer}, end_game(room[s], w), user' = user,
         \A r \in RoomIds : rooms'[r].white = rooms[r].white /\ rooms'[r].black = rooms[r].black
  PROVE  /\ RoomsInv' /\ GameTyped'
         /\ told' \in [Sessions -> Messages]
         /\ \A t \in Sessions : room'[t] = room[t] \/ room'[t] = NoRoom
<1>1. RoomsInv' /\ room' \in [Sessions -> RoomIds \union {NoRoom}]
      /\ \A t \in Sessions : room'[t] = room[t] \/ room'[t] = NoRoom
  BY VacateEffect DEF end_game
<1>2. rating' \in [Sessions -> Int] /\ db' \in [Accounts -> UserRow] /\ settled' \in [RoomIds -> Nat]
  <2>1. CASE w = NoPlayer
    BY <2>1 DEF end_game, TypeOK, UserRow
  <2>2. CASE w # NoPlayer
    <3> DEFINE l == opponent_of(room[s], w)
    <3>1. update_rating(room[s], w, l)
      BY <2>2 DEF end_game
    <3>2. w \in Sessions /\ Authorized(w) /\ InRoom(w) /\ room[w] = room[s]
      BY <2>2, OpponentOf DEF RoomsInv, RoomsSymmetric, InRoom
    <3>3. l \in Sessions /\ Authorized(l) /\ room[s] \in RoomIds
      BY <3>2, OpponentOf
    <3> QED BY <3>1, <3>2, <3>3, SettlementTyped
  <2> QED BY <2>1, <2>2
<1>3. saved' \in [RoomIds -> Nat]
  BY OpponentOf DEF end_game, TypeOK
<1>4. told' \in [Sessions -> Messages]
  BY DEF end_game, TypeOK, Messages
<1> QED BY <1>1, <1>2, <1>3, <1>4 DEF GameTyped

\* A departure settles the game, if there is one, and leaves s without a room.
LEMMA DepartEffect ==
  ASSUME TypeOK, RoomsInv, NullsAssumption, NEW s \in Sessions, NEW b \in BOOLEAN,
         depart(s, b), user' = user
  PROVE  /\ RoomsInv' /\ GameTyped' /\ rooms' = rooms
         /\ told' \in [Sessions -> Messages]
         /\ room'[s] = NoRoom
         /\ \A t \in Sessions : room'[t] = room[t] \/ room'[t] = NoRoom
<1>1. told' \in [Sessions -> Messages]
  BY DEF depart, TypeOK, Messages
<1>2. CASE InRoom(s)
  <2> DEFINE o == opponent_of(room[s], s)
  <2>1. RoomOnDisconnect(room[s], s)
    BY <1>2 DEF depart
  <2>2. rooms' = rooms /\ saved' = saved /\ vacate(room[s])
    BY <2>1 DEF RoomOnDisconnect
  <2>3. RoomsInv' /\ room' \in [Sessions -> RoomIds \union {NoRoom}] /\ room'[s] = NoRoom
        /\ \A t \in Sessions : room'[t] = room[t] \/ room'[t] = NoRoom
    BY <1>2, <2>2, VacateEffect
  <2>4. o \in Sessions /\ Authorized(o) /\ Authorized(s) /\ room[s] \in RoomIds
    BY <1>2, OpponentOf
  <2>5. update_rating(room[s], o, s)
    BY <2>1, <2>4 DEF RoomOnDisconnect, NullsAssumption
  <2>6. GameTyped'
    BY <2>2, <2>3, <2>4, <2>5, SettlementTyped DEF GameTyped, TypeOK
  <2> QED BY <1>1, <2>2, <2>3, <2>6
<1>3. CASE ~InRoom(s)
  <2>1. UNCHANGED <<rooms, room, rating, db, saved, settled>>
    BY <1>3 DEF depart
  <2>2. RoomsInv'
    BY <2>1, RoomsKept DEF Authorized
  <2> QED BY <1>1, <1>3, <2>1, <2>2 DEF GameTyped, TypeOK, UserRow, InRoom
<1> QED BY <1>2, <1>3

-----------------------------------------------------------------------------
(* Steps that leave the queue, or the server's lists, alone.               *)

LEMMA QueueKept ==
  ASSUME QueueInv, TypeOK, UNCHANGED <<inQueue, queue>>,
         \A s \in Sessions : Authorized(s) => Authorized(s)',
         \A s \in Sessions : room'[s] = room[s] \/ room'[s] = NoRoom
  PROVE  QueueInv'
BY DEF QueueInv, QueueCoherent, NobodyWaitsBesideAnother, InRoom, TypeOK, Range, IsInjective

LEMMA QueueTaken ==
  ASSUME QueueInv, TypeOK, NEW s \in Sessions, dequeue(s), user' = user,
         \A t \in Sessions : room'[t] = room[t] \/ room'[t] = NoRoom
  PROVE  QueueInv' /\ inQueue' = inQueue \ {s} /\ queue' \in Seq(Sessions)
<1>1. /\ inQueue' = inQueue \ {s}
      /\ \/ queue' = <<>> /\ inQueue' = {}
         \/ \E x \in Sessions : queue' = <<x>> /\ inQueue' = {x}
  BY DequeueEffect
<1>2. queue' \in Seq(Sessions) /\ inQueue' = Range(queue') /\ IsInjective(queue') /\ Len(queue') < 2
  BY <1>1, QueueFromShape
<1>3. \A t \in inQueue' : Authorized(t)' /\ ~InRoom(t)'
  BY <1>1 DEF QueueInv, QueueCoherent, Authorized, InRoom, TypeOK
<1> QED BY <1>1, <1>2, <1>3 DEF QueueInv, QueueCoherent, NobodyWaitsBesideAnother

LEMMA GhostsKept ==
  ASSUME NoGhosts, conn' = conn, inQueue' \subseteq inQueue, listed' \subseteq listed,
         \A s \in Sessions : room'[s] = room[s] \/ room'[s] = NoRoom
  PROVE  NoGhosts'
BY DEF NoGhosts, InRoom

\* The sizes sent by a broadcast are integers.
LEMMA BroadcastTyped ==
  ASSUME TypeOK, NEW players, queue' \in Seq(Sessions), broadcast_queue_size(players)
  PROVE  sizeSeen' \in [Sessions -> Int]
<1>1. Len(queue') \in Int
  BY LenProperties
<1> QED BY <1>1 DEF broadcast_queue_size, TypeOK

-----------------------------------------------------------------------------
(* The initial state and each handler.                                     *)

LEMMA InitStep == ASSUME NullsAssumption, RatingAssumption, Init PROVE IInv
<1>1. TypeOK
  BY DEF Init, TypeOK, NoGame, Messages, NullsAssumption, RatingAssumption
<1>2. QueueInv
  BY DEF Init, QueueInv, QueueCoherent, NobodyWaitsBesideAnother, Range, IsInjective
<1>3. RoomsInv
  BY DEF Init, RoomsInv, RoomsFormed, RoomsSymmetric, RoomsNeedLogin, Created, NoGame, InRoom
<1>4. NoGhosts
  BY DEF Init, NoGhosts, InRoom
<1> QED BY <1>1, <1>2, <1>3, <1>4 DEF IInv

LEMMA AcceptStep ==
  ASSUME IInv, NEW s \in Sessions, Accept(s)
  PROVE  IInv'
<1> USE DEF IInv, Accept, roomVars
<1>1. TypeOK'
  BY DEF TypeOK
<1>2. QueueInv'
  BY QueueKept DEF Authorized
<1>3. RoomsInv'
  BY RoomsKept DEF Authorized
<1>4. NoGhosts'
  BY DEF NoGhosts, InRoom, TypeOK
<1> QED BY <1>1, <1>2, <1>3, <1>4

LEMMA AuthStep ==
  ASSUME IInv, NullsAssumption, NEW s \in Sessions, NEW a \in Accounts, handle_auth(s, a)
  PROVE  IInv'
<1> USE DEF IInv, handle_auth, serverVars
<1>0. \A t \in Sessions : Authorized(t) => Authorized(t)'
  BY DEF Authorized, TypeOK, NullsAssumption
<1>1. TypeOK'
  BY DEF TypeOK
<1>2. QueueInv'
  BY <1>0, QueueKept
<1>3. RoomsInv'
  BY <1>0, RoomsKept
<1>4. NoGhosts'
  BY GhostsKept
<1> QED BY <1>1, <1>2, <1>3, <1>4

\* The player whose request this is becomes the one who waits.
LEMMA QueueWaitStep ==
  ASSUME IInv, NEW s \in Sessions, QueueWait(s)
  PROVE  IInv'
<1> USE DEF IInv, QueueWait, roomVars
<1>0. queue = <<>> /\ inQueue = {}
  <2>1. ASSUME NEW x, queue = <<x>> PROVE FALSE
    BY <2>1
  <2> QED BY <2>1, QueueShape
<1>1. queue' = <<s>> /\ inQueue' = {s}
  BY <1>0
<1>2. queue' \in Seq(Sessions) /\ inQueue' = Range(queue') /\ IsInjective(queue') /\ Len(queue') < 2
  BY <1>1, QueueFromShape
<1>3. TypeOK'
  BY <1>1, <1>2, BroadcastTyped DEF TypeOK
<1>4. QueueInv'
  BY <1>1, <1>2 DEF QueueInv, QueueCoherent, NobodyWaitsBesideAnother, Authorized, InRoom
<1>5. RoomsInv'
  BY RoomsKept DEF Authorized
<1>6. NoGhosts'
  BY <1>1 DEF NoGhosts, InRoom, Reading
<1> QED BY <1>3, <1>4, <1>5, <1>6

\* The pair is the waiting player and the newcomer, in one order or the other.
LEMMA PairingOfTwo ==
  ASSUME NEW x \in Sessions, NEW s \in Sessions, x # s, NEW pair \in Pairings({x, s})
  PROVE  pair = <<x, s>> \/ pair = <<s, x>>
BY DEF Pairings

\* A match empties the queue and opens one room for both.
LEMMA QueueMatchStep ==
  ASSUME IInv, NullsAssumption, NEW s \in Sessions, QueueMatch(s)
  PROVE  IInv'
<1> USE DEF IInv
<1>1. PICK x \in Sessions : queue = <<x>> /\ inQueue = {x}
  <2>1. queue # <<>>
    BY DEF QueueMatch
  <2> QED BY <2>1, QueueShape
<1>2. x # s /\ ~InRoom(x) /\ ~InRoom(s) /\ Authorized(x) /\ Authorized(s)
  BY <1>1 DEF QueueMatch, QueueInv, QueueCoherent
<1>3. Range(queue) \union {s} = {x, s}
  BY <1>1 DEF QueueInv, QueueCoherent
<1>4. PICK r \in RoomIds, pair \in Pairings({x, s}) :
        /\ ~Created(r)
        /\ inQueue' = (inQueue \union {s}) \ {pair[1], pair[2]}
        /\ queue' = RemoveFirst(RemoveFirst(Append(queue, s), pair[1]), pair[2])
        /\ start(r, pair[1], pair[2])
  BY <1>3 DEF QueueMatch
<1> DEFINE w == pair[1]
           b == pair[2]
<1>5. w \in Sessions /\ b \in Sessions /\ w # b /\ {w, b} = {x, s}
  BY <1>2, PairingOfTwo
<1>6. queue' = <<>> /\ inQueue' = {}
  <2>1. Append(queue, s) = <<x, s>>
    BY <1>1, AppendToOne
  <2>2. RemoveFirst(<<x, s>>, x) = <<s>> /\ RemoveFirst(<<x, s>>, s) = <<x>>
    BY <1>2, RemoveOther
  <2>3. RemoveFirst(<<s>>, s) = <<>> /\ RemoveFirst(<<x>>, x) = <<>>
    BY RemoveOnly
  <2>4. CASE pair = <<x, s>>
    BY <1>1, <1>4, <2>1, <2>2, <2>3, <2>4
  <2>5. CASE pair = <<s, x>>
    BY <1>1, <1>4, <2>1, <2>2, <2>3, <2>5
  <2> QED BY <1>2, <1>4, <2>4, <2>5, PairingOfTwo
<1>7. UNCHANGED <<user, rating, db, saved, settled, conn, broken, listed>>
  BY <1>4 DEF QueueMatch, start
<1>8. /\ rooms' = [rooms EXCEPT ![r] = NewGame(w, b)]
      /\ room' = [room EXCEPT ![w] = r, ![b] = r]
      /\ told' = [told EXCEPT ![w] = "match_found", ![b] = "match_found"]
  BY <1>4 DEF start
<1> HIDE DEF w, b
<1>9. queue' \in Seq(Sessions) /\ inQueue' = Range(queue') /\ IsInjective(queue') /\ Len(queue') < 2
  BY <1>6, QueueFromShape
<1>10. TypeOK'
  <2>1. sizeSeen' \in [Sessions -> Int]
    BY <1>9, BroadcastTyped DEF QueueMatch
  <2> QED BY <1>5, <1>6, <1>7, <1>8, <1>9, <2>1 DEF TypeOK, NewGame, Messages
<1>11. QueueInv'
  BY <1>6, <1>9 DEF QueueInv, QueueCoherent, NobodyWaitsBesideAnother
<1>12. /\ room'[w] = r /\ room'[b] = r
       /\ \A t \in Sessions \ {w, b} : room'[t] = room[t]
       /\ rooms'[r].white = w /\ rooms'[r].black = b
       /\ \A q \in RoomIds \ {r} : rooms'[q] = rooms[q]
       /\ r # NoRoom
  BY <1>5, <1>8 DEF TypeOK, NewGame, NullsAssumption
<1>13. RoomsFormed' /\ RoomsNeedLogin'
  <2>1. RoomsFormed'
    BY <1>5, <1>12 DEF RoomsInv, RoomsFormed, Created
  <2>2. RoomsNeedLogin'
    BY <1>2, <1>5, <1>7, <1>12 DEF RoomsInv, RoomsNeedLogin, InRoom, Authorized
  <2> QED BY <2>1, <2>2
<1>14. RoomsSymmetric'
  <2> SUFFICES ASSUME NEW t \in Sessions, InRoom(t)'
               PROVE  /\ Created(room[t])'
                      /\ t \in Players(room[t])'
                      /\ opponent_of(room[t], t)' # t
                      /\ room'[opponent_of(room[t], t)'] = room'[t]
    BY DEF RoomsSymmetric
  <2>1. CASE t \in {w, b}
    BY <2>1, <1>5, <1>12 DEF Created, Players, opponent_of, NullsAssumption
  <2>2. CASE t \notin {w, b}
    <3> DEFINE o == opponent_of(room[t], t)
    <3>1. InRoom(t) /\ room'[t] = room[t] /\ room[t] \in RoomIds
      BY <2>2, <1>12 DEF InRoom, TypeOK
    <3>2. Created(room[t]) /\ t \in Players(room[t]) /\ o # t /\ room[o] = room[t] /\ o \in Sessions
      BY <3>1, OpponentOf DEF RoomsInv, RoomsSymmetric
    <3>3. room[t] # r /\ o \notin {w, b}
      BY <3>1, <3>2, <1>2, <1>4, <1>5 DEF InRoom
    <3>4. rooms'[room[t]] = rooms[room[t]] /\ room'[o] = room[o]
      BY <3>1, <3>2, <3>3, <1>12
    <3>5. opponent_of(room[t], t)' = o /\ Players(room[t])' = Players(room[t])
          /\ (Created(room[t])' <=> Created(room[t]))
      BY <3>1, <3>4 DEF opponent_of, Players, Created
    <3> QED BY <3>1, <3>2, <3>4, <3>5
  <2> QED BY <2>1, <2>2
<1>15. NoGhosts'
  <2>1. conn[x] = "reading" /\ conn[s] = "reading"
    BY <1>1 DEF NoGhosts, TypeOK, QueueMatch, Reading
  <2> QED BY <2>1, <1>5, <1>6, <1>7, <1>12 DEF NoGhosts, InRoom
<1> QED BY <1>10, <1>11, <1>13, <1>14, <1>15 DEF RoomsInv

\* Leaving the queue or the game.
LEMMA LeaveStep ==
  ASSUME IInv, NullsAssumption, NEW s \in Sessions, handle_leave(s)
  PROVE  IInv'
<1> USE DEF IInv
<1>1. /\ RoomsInv' /\ GameTyped' /\ rooms' = rooms /\ told' \in [Sessions -> Messages]
      /\ \A t \in Sessions : room'[t] = room[t] \/ room'[t] = NoRoom
  BY DepartEffect DEF handle_leave
<1>2. QueueInv' /\ inQueue' = inQueue \ {s} /\ queue' \in Seq(Sessions)
  BY <1>1, QueueTaken DEF handle_leave
<1>3. sizeSeen' \in [Sessions -> Int]
  BY <1>2, BroadcastTyped DEF handle_leave
<1>4. TypeOK'
  BY <1>1, <1>2, <1>3 DEF handle_leave, TypeOK, GameTyped, UserRow
<1>5. NoGhosts'
  BY <1>1, <1>2, GhostsKept DEF handle_leave
<1> QED BY <1>1, <1>2, <1>4, <1>5

\* What the four requests within a game have in common.
LEMMA InGameStep ==
  ASSUME IInv, NEW s \in Sessions, RoomsInv', GameTyped', UNCHANGED <<user, serverVars>>,
         rooms' \in [RoomIds -> [white : Sessions \union {NoPlayer},
                                black : Sessions \union {NoPlayer},
                                offers : SUBSET {"white", "black"},
                                toMove : {"white", "black"}]],
         told' \in [Sessions -> Messages],
         \A t \in Sessions : room'[t] = room[t] \/ room'[t] = NoRoom
  PROVE  IInv'
<1> USE DEF IInv, serverVars
<1>1. TypeOK'
  BY DEF TypeOK, GameTyped, UserRow
<1>2. QueueInv'
  BY QueueKept DEF Authorized
<1>3. NoGhosts'
  BY GhostsKept
<1> QED BY <1>1, <1>2, <1>3

\* Requests that change the room's own fields only.
LEMMA RoomFieldStep ==
  ASSUME IInv, NEW s \in Sessions, UNCHANGED <<user, serverVars>>,
         UNCHANGED <<room, rating, db, told, saved, settled>>,
         \A r \in RoomIds : rooms'[r].white = rooms[r].white /\ rooms'[r].black = rooms[r].black,
         rooms' \in [RoomIds -> [white : Sessions \union {NoPlayer},
                                black : Sessions \union {NoPlayer},
                                offers : SUBSET {"white", "black"},
                                toMove : {"white", "black"}]]
  PROVE  IInv'
<1>1. RoomsInv'
  BY RoomsKept DEF IInv, Authorized
<1>2. GameTyped' /\ told' \in [Sessions -> Messages]
  BY DEF IInv, TypeOK, GameTyped, UserRow
<1> QED BY <1>1, <1>2, InGameStep

\* The record type of a room, by its fields.
LEMMA RoomFieldsTyped ==
  ASSUME IInv, NEW r \in RoomIds,
         NEW o \in SUBSET {"white", "black"}, NEW m \in {"white", "black"},
         rooms' = PlayOn(r, o, m)
  PROVE  /\ rooms' \in [RoomIds -> [white : Sessions \union {NoPlayer},
                                    black : Sessions \union {NoPlayer},
                                    offers : SUBSET {"white", "black"},
                                    toMove : {"white", "black"}]]
         /\ \A q \in RoomIds : rooms'[q].white = rooms[q].white /\ rooms'[q].black = rooms[q].black
<1> DEFINE Room == [white : Sessions \union {NoPlayer}, black : Sessions \union {NoPlayer},
                    offers : SUBSET {"white", "black"}, toMove : {"white", "black"}]
           new == [white |-> rooms[r].white, black |-> rooms[r].black,
                   offers |-> o, toMove |-> m]
<1>1. rooms \in [RoomIds -> Room]
  BY DEF IInv, TypeOK
<1>2. rooms[r].white \in Sessions \union {NoPlayer} /\ rooms[r].black \in Sessions \union {NoPlayer}
  BY <1>1
<1>3. new \in Room
  BY <1>2
<1>4. new.white = rooms[r].white /\ new.black = rooms[r].black
  OBVIOUS
<1>5. rooms' = [rooms EXCEPT ![r] = new]
  BY DEF PlayOn
<1> HIDE DEF Room, new
<1>6. rooms' \in [RoomIds -> Room]
  BY <1>1, <1>3, <1>5
<1>7. \A q \in RoomIds : rooms'[q].white = rooms[q].white /\ rooms'[q].black = rooms[q].black
  BY <1>1, <1>4, <1>5
<1> QED BY <1>6, <1>7 DEF Room

\* A legal move, whatever it does to the game.
LEMMA MoveStep ==
  ASSUME IInv, NullsAssumption, NEW s \in Sessions, handle_move(s)
  PROVE  IInv'
<1> DEFINE r == room[s]
<1>1. r \in RoomIds /\ InRoom(s) /\ UNCHANGED <<user, serverVars>>
  BY OpponentOf DEF handle_move, InGame, IInv
<1>2. rooms' = PlayOn(r, rooms[r].offers, Other(rooms[r].toMove))
  BY DEF handle_move, on_move
<1>3. /\ rooms' \in [RoomIds -> [white : Sessions \union {NoPlayer},
                                 black : Sessions \union {NoPlayer},
                                 offers : SUBSET {"white", "black"},
                                 toMove : {"white", "black"}]]
      /\ \A q \in RoomIds : rooms'[q].white = rooms[q].white /\ rooms'[q].black = rooms[q].black
  <2>1. Other(rooms[r].toMove) \in {"white", "black"}
    BY DEF Other
  <2>2. rooms[r].offers \in SUBSET {"white", "black"}
    BY <1>1 DEF IInv, TypeOK
  <2> QED BY <1>1, <1>2, <2>1, <2>2, RoomFieldsTyped
<1>4. CASE UNCHANGED <<room, rating, db, told, saved, settled>>
  BY <1>1, <1>3, <1>4, RoomFieldStep
<1>5. ASSUME NEW w \in Players(r) \union {NoPlayer}, end_game(r, w) PROVE IInv'
  <2>1. /\ RoomsInv' /\ GameTyped' /\ told' \in [Sessions -> Messages]
        /\ \A t \in Sessions : room'[t] = room[t] \/ room'[t] = NoRoom
    BY <1>1, <1>3, <1>5, EndGameEffect DEF IInv
  <2> QED BY <1>1, <1>3, <2>1, InGameStep
<1> QED BY <1>4, <1>5 DEF handle_move, on_move, Players

LEMMA DrawStep ==
  ASSUME IInv, NullsAssumption, NEW s \in Sessions,
         DrawOffer(s) \/ DrawAccept(s) \/ DrawDecline(s)
  PROVE  IInv'
<1> DEFINE r == room[s]
<1>1. r \in RoomIds /\ InRoom(s) /\ UNCHANGED <<user, serverVars>>
  BY OpponentOf DEF DrawOffer, DrawAccept, DrawDecline, InGame, IInv
<1>2. CASE DrawOffer(s) \/ DrawDecline(s)
  <2>1. UNCHANGED <<room, rating, db, told, saved, settled>>
    BY <1>2 DEF DrawOffer, DrawDecline, on_draw_request, on_draw_decline
  <2>2. /\ rooms[r].offers \in SUBSET {"white", "black"}
        /\ rooms[r].toMove \in {"white", "black"}
    BY <1>1 DEF IInv, TypeOK
  <2>3. PICK o \in SUBSET {"white", "black"} : rooms' = PlayOn(r, o, rooms[r].toMove)
    <3>1. ColorOf(r, s) \in {"white", "black"}
      BY DEF ColorOf
    <3>2. CASE DrawOffer(s)
      BY <2>2, <3>1, <3>2 DEF DrawOffer, on_draw_request
    <3>3. CASE DrawDecline(s)
      BY <2>2, <3>3 DEF DrawDecline, on_draw_decline
    <3> QED BY <1>2, <3>2, <3>3
  <2>4. /\ rooms' \in [RoomIds -> [white : Sessions \union {NoPlayer},
                                   black : Sessions \union {NoPlayer},
                                   offers : SUBSET {"white", "black"},
                                   toMove : {"white", "black"}]]
        /\ \A q \in RoomIds : rooms'[q].white = rooms[q].white /\ rooms'[q].black = rooms[q].black
    BY <1>1, <2>2, <2>3, RoomFieldsTyped
  <2> QED BY <1>1, <2>1, <2>4, RoomFieldStep
<1>3. CASE DrawAccept(s)
  <2>1. rooms' = rooms /\ end_game(r, NoPlayer)
    BY <1>3 DEF DrawAccept, on_draw_accept
  <2>2. /\ RoomsInv' /\ GameTyped' /\ told' \in [Sessions -> Messages]
        /\ \A t \in Sessions : room'[t] = room[t] \/ room'[t] = NoRoom
    BY <1>1, <2>1, EndGameEffect DEF IInv
  <2> QED BY <1>1, <2>1, <2>2, InGameStep DEF IInv, TypeOK
<1> QED BY <1>2, <1>3

\* Dropping a session: no queue entry, no room, no place in the list is left.
LEMMA DropStep ==
  ASSUME IInv, NullsAssumption, NEW s \in Sessions, on_disconnect(s),
         conn' \in [Sessions -> {"none", "reading", "closed"}], broken' \subseteq Sessions,
         \A t \in Sessions \ {s} : conn'[t] = conn[t]
  PROVE  IInv'
<1> USE DEF IInv
<1>1. /\ RoomsInv' /\ GameTyped' /\ rooms' = rooms /\ told' \in [Sessions -> Messages]
      /\ \A t \in Sessions : room'[t] = room[t] \/ room'[t] = NoRoom
      /\ room'[s] = NoRoom
  BY DepartEffect DEF on_disconnect
<1>2. QueueInv' /\ inQueue' = inQueue \ {s} /\ queue' \in Seq(Sessions)
  BY <1>1, QueueTaken DEF on_disconnect
<1>3. sizeSeen' \in [Sessions -> Int]
  BY <1>2, BroadcastTyped DEF on_disconnect
<1>4. TypeOK'
  BY <1>1, <1>2, <1>3 DEF on_disconnect, TypeOK, GameTyped, UserRow
<1>5. NoGhosts'
  BY <1>1, <1>2 DEF on_disconnect, NoGhosts, InRoom
<1> QED BY <1>1, <1>2, <1>4, <1>5

LEMMA ErrorStep ==
  ASSUME IInv, NullsAssumption, NEW s \in Sessions, ReadError(s) \/ WriteError(s)
  PROVE  IInv'
<1>1. CASE ReadError(s)
  <2>1. /\ on_disconnect(s) /\ broken' = broken
        /\ conn' = [conn EXCEPT ![s] = "closed"]
    BY <1>1 DEF ReadError
  <2> QED BY <2>1, DropStep DEF IInv, TypeOK
<1>2. CASE WriteError(s)
  <2>1. on_disconnect(s) /\ broken' = broken \union {s} /\ conn' = conn
    BY <1>2 DEF WriteError
  <2> QED BY <2>1, DropStep DEF IInv, TypeOK
<1> QED BY <1>1, <1>2

LEMMA StutterStep == ASSUME IInv, UNCHANGED vars PROVE IInv'
BY DEF vars, roomVars, serverVars, IInv, TypeOK, QueueInv, QueueCoherent,
       NobodyWaitsBesideAnother, RoomsInv, RoomsFormed, RoomsSymmetric, RoomsNeedLogin, NoGhosts,
       InRoom, Authorized, Created, Players, opponent_of

LEMMA NextStep == ASSUME IInv, NullsAssumption, [Next]_vars PROVE IInv'
<1>1. CASE UNCHANGED vars
  BY <1>1, StutterStep
<1>2. ASSUME NEW s \in Sessions,
             \/ Accept(s)
             \/ \E a \in Accounts : handle_auth(s, a)
             \/ QueueWait(s)
             \/ QueueMatch(s)
             \/ handle_leave(s)
             \/ handle_move(s)
             \/ DrawOffer(s) \/ DrawAccept(s) \/ DrawDecline(s)
             \/ ReadError(s) \/ WriteError(s)
      PROVE  IInv'
  BY <1>2, AcceptStep, AuthStep, QueueWaitStep, QueueMatchStep, LeaveStep, MoveStep, DrawStep,
     ErrorStep
<1> QED BY <1>1, <1>2 DEF Next

-----------------------------------------------------------------------------
(* Theorems.                                                               *)

THEOREM Invariance == Spec => []IInv
<1>1. Init => IInv
  BY InitStep, NullsAssumption, RatingAssumption
<1>2. IInv /\ [Next]_vars => IInv'
  BY NextStep, NullsAssumption
<1> QED BY <1>1, <1>2, PTL DEF Spec

\* The server's state is well typed.
THEOREM TypeCorrect == Spec => []TypeOK
<1>1. IInv => TypeOK
  BY DEF IInv
<1> QED BY <1>1, Invariance, PTL

\* The _in_queue flags and the deque always agree, and nobody waits who plays.
THEOREM QueueStaysCoherent == Spec => []QueueCoherent
<1>1. IInv => QueueCoherent
  BY DEF IInv, QueueInv
<1> QED BY <1>1, Invariance, PTL

\* Pairing once per push is enough: two players never wait side by side.
THEOREM OneWaiterAtMost == Spec => []NobodyWaitsBesideAnother
<1>1. IInv => NobodyWaitsBesideAnother
  BY DEF IInv, QueueInv
<1> QED BY <1>1, Invariance, PTL

\* A game never becomes one-sided, however it is left.
THEOREM RoomsStaySymmetric == Spec => []RoomsSymmetric
<1>1. IInv => RoomsSymmetric
  BY DEF IInv, RoomsInv
<1> QED BY <1>1, Invariance, PTL

\* A session whose read loop has ended is neither queued nor playing nor listed,
\* in spite of the commands it may execute after a failed write.
THEOREM GhostsAreGone == Spec => []NoGhosts
<1>1. IInv => NoGhosts
  BY DEF IInv
<1> QED BY <1>1, Invariance, PTL

-----------------------------------------------------------------------------
(* What becomes of a game and of its players' ratings, and that the server *)
(* implements Lobby.                                                       *)
(*                                                                         *)
(* Every step of the server does one of four things to its games: it       *)
(* starts one, ends one, logs a session in, or leaves them all alone.      *)
(* StepKind proves that split once, from the invariant IInv; each property *)
(* is then a short case analysis on it.                                    *)

\* A session the server can still read from and write to.
Reachable(s) == conn[s] # "closed" /\ s \notin broken

PlayersKept ==
  \A r \in RoomIds : rooms'[r].white = rooms[r].white /\ rooms'[r].black = rooms[r].black

\* Connections only get worse.
Aging ==
  \A s \in Sessions :
    /\ Reachable(s)' => Reachable(s)
    /\ conn'[s] # "closed" => conn[s] # "closed"

GameStarts(r, white, black) ==
  /\ {white, black} \subseteq Sessions /\ white # black
  /\ ~InRoom(white) /\ ~InRoom(black)
  /\ ~Created(r)
  /\ start(r, white, black)
  /\ UNCHANGED user

\* The game of p and q is over; p is the winner if there is one.
GameEnds(p, q) ==
  /\ {p, q} \subseteq Sessions /\ p # q
  /\ InRoom(p) /\ room[q] = room[p]
  /\ Players(room[p]) = {p, q}
  /\ opponent_of(room[p], p) = q /\ opponent_of(room[p], q) = p
  /\ PlayersKept
  /\ vacate(room[p])
  /\ \/ /\ update_rating(room[p], p, q)
        /\ saved' = saved \/ saved' = [saved EXCEPT ![room[p]] = @ + 1]
     \/ /\ UNCHANGED <<rating, db, settled>>
        /\ saved' = [saved EXCEPT ![room[p]] = @ + 1]
  /\ \A t \in Sessions \ {p, q} : told'[t] = told[t]
  /\ \A t \in {p, q} : told'[t] # "match_found" \/ ~Reachable(t)'
  /\ UNCHANGED user

LogsIn(s, a) == handle_auth(s, a)

GamesKept(s) ==
  /\ PlayersKept
  /\ UNCHANGED <<room, user, rating, db, saved, settled>>
  /\ \A t \in Sessions : told'[t] = told[t] \/ (t = s /\ ~InRoom(s) /\ told'[s] = "left")

StepKinds ==
  \/ \E r \in RoomIds, w, b \in Sessions : GameStarts(r, w, b)
  \/ \E p, q \in Sessions : GameEnds(p, q)
  \/ \E s \in Sessions, a \in Accounts : LogsIn(s, a)
  \/ \E s \in Sessions : GamesKept(s)

-----------------------------------------------------------------------------
\* The two players of a room and how they see each other.
LEMMA TwoPlayers ==
  ASSUME TypeOK, RoomsInv, NEW s \in Sessions, InRoom(s)
  PROVE  \E o \in Sessions :
           /\ o = opponent_of(room[s], s) /\ o # s
           /\ room[o] = room[s] /\ InRoom(o)
           /\ Players(room[s]) = {s, o}
           /\ opponent_of(room[s], o) = s
           /\ room[s] \in RoomIds
<1> DEFINE o == opponent_of(room[s], s)
<1>1. /\ o \in Sessions /\ Players(room[s]) = {s, o} /\ room[s] \in RoomIds
  BY OpponentOf
<1>2. o # s /\ room[o] = room[s] /\ s \in Players(room[s]) /\ Created(room[s])
  BY DEF RoomsInv, RoomsSymmetric
<1>3. opponent_of(room[s], o) = s
  BY <1>1, <1>2 DEF opponent_of, Players, RoomsInv, RoomsFormed
<1>4. InRoom(o)
  BY <1>2 DEF InRoom
<1> QED BY <1>1, <1>2, <1>3, <1>4

LEMMA EndKind ==
  ASSUME IInv, NullsAssumption, NEW s \in Sessions, InRoom(s),
         NEW w \in Players(room[s]) \union {NoPlayer},
         end_game(room[s], w), user' = user, PlayersKept
  PROVE  \E p, q \in Sessions : GameEnds(p, q)
<1>1. PICK o \in Sessions :
        /\ o = opponent_of(room[s], s) /\ o # s
        /\ room[o] = room[s] /\ InRoom(o)
        /\ Players(room[s]) = {s, o}
        /\ opponent_of(room[s], o) = s
  BY TwoPlayers DEF IInv
<1>2. \A t \in Sessions \ {s, o} : told'[t] = told[t]
  BY <1>1 DEF end_game
<1>3. \A t \in {s, o} : told'[t] # "match_found"
  BY <1>1 DEF end_game
<1>4. saved' = [saved EXCEPT ![room[s]] = @ + 1] /\ vacate(room[s])
  BY DEF end_game
<1>5. CASE w = NoPlayer
  <2>1. UNCHANGED <<rating, db, settled>>
    BY <1>5 DEF end_game
  <2>2. GameEnds(s, o)
    BY <1>1, <1>2, <1>3, <1>4, <2>1 DEF GameEnds
  <2> QED BY <2>2
<1>6. CASE w # NoPlayer /\ w = s
  <2>1. update_rating(room[s], s, o)
    BY <1>1, <1>6 DEF end_game
  <2>2. GameEnds(s, o)
    BY <1>1, <1>2, <1>3, <1>4, <2>1 DEF GameEnds
  <2> QED BY <2>2
<1>7. CASE w # NoPlayer /\ w = o
  <2>1. update_rating(room[o], o, s)
    BY <1>1, <1>7 DEF end_game
  <2>2. GameEnds(o, s)
    BY <1>1, <1>2, <1>3, <1>4, <2>1 DEF GameEnds
  <2> QED BY <2>2
<1> QED BY <1>1, <1>5, <1>6, <1>7

LEMMA DepartKind ==
  ASSUME IInv, NullsAssumption, NEW s \in Sessions, NEW left \in BOOLEAN,
         depart(s, left), user' = user, left \/ ~Reachable(s)'
  PROVE  (\E p, q \in Sessions : GameEnds(p, q)) \/ GamesKept(s)
<1>1. CASE InRoom(s)
  <2>1. PICK o \in Sessions :
          /\ o = opponent_of(room[s], s) /\ o # s
          /\ room[o] = room[s] /\ InRoom(o)
          /\ Players(room[s]) = {s, o}
          /\ opponent_of(room[s], o) = s
    BY <1>1, TwoPlayers DEF IInv
  <2>2. RoomOnDisconnect(room[s], s)
    BY <1>1 DEF depart
  <2>3. update_rating(room[o], o, s) /\ vacate(room[o]) /\ saved' = saved /\ rooms' = rooms
    BY <2>1, <2>2 DEF RoomOnDisconnect, NullsAssumption
  <2>4. \A t \in Sessions \ {o, s} : told'[t] = told[t]
    BY <1>1, <2>1 DEF depart
  <2>5. told'[o] # "match_found" /\ (left => told'[s] # "match_found")
    BY <1>1, <2>1 DEF depart
  <2>6. PlayersKept
    BY <2>3 DEF PlayersKept
  <2>7. GameEnds(o, s)
    BY <2>1, <2>3, <2>4, <2>5, <2>6 DEF GameEnds
  <2> QED BY <2>7
<1>2. CASE ~InRoom(s)
  <2>1. UNCHANGED <<rooms, room, rating, db, saved, settled>>
    BY <1>2 DEF depart
  <2>2. \A t \in Sessions : told'[t] = told[t] \/ (t = s /\ ~InRoom(s) /\ told'[s] = "left")
    BY <1>2 DEF depart
  <2> QED BY <2>1, <2>2 DEF GamesKept, PlayersKept
<1> QED BY <1>1, <1>2

\* A match starts the game of the waiting player and the newcomer.
LEMMA MatchKind ==
  ASSUME IInv, NullsAssumption, NEW s \in Sessions, QueueMatch(s)
  PROVE  \E x \in Sessions :
           /\ queue = <<x>> /\ inQueue = {x} /\ x # s
           /\ queue' = <<>> /\ inQueue' = {}
           /\ \E r \in RoomIds : GameStarts(r, x, s) \/ GameStarts(r, s, x)
<1> USE DEF IInv
<1>1. PICK x \in Sessions : queue = <<x>> /\ inQueue = {x}
  <2>1. queue # <<>>
    BY DEF QueueMatch
  <2> QED BY <2>1, QueueShape
<1>2. x # s /\ ~InRoom(x) /\ ~InRoom(s)
  BY <1>1 DEF QueueMatch, QueueInv, QueueCoherent
<1>3. Range(queue) \union {s} = {x, s}
  BY <1>1 DEF QueueInv, QueueCoherent
<1>4. PICK r \in RoomIds, pair \in Pairings({x, s}) :
        /\ ~Created(r)
        /\ inQueue' = (inQueue \union {s}) \ {pair[1], pair[2]}
        /\ queue' = RemoveFirst(RemoveFirst(Append(queue, s), pair[1]), pair[2])
        /\ start(r, pair[1], pair[2])
  BY <1>3 DEF QueueMatch
<1>5. user' = user
  BY DEF QueueMatch
<1>6. Append(queue, s) = <<x, s>>
  BY <1>1, AppendToOne
<1>7. RemoveFirst(<<x, s>>, x) = <<s>> /\ RemoveFirst(<<x, s>>, s) = <<x>>
  BY <1>2, RemoveOther
<1>8. RemoveFirst(<<s>>, s) = <<>> /\ RemoveFirst(<<x>>, x) = <<>>
  BY RemoveOnly
<1>9. CASE pair = <<x, s>>
  <2>1. GameStarts(r, x, s)
    BY <1>2, <1>4, <1>5, <1>9 DEF GameStarts
  <2>2. queue' = <<>> /\ inQueue' = {}
    BY <1>1, <1>4, <1>6, <1>7, <1>8, <1>9
  <2> QED BY <1>1, <1>2, <2>1, <2>2
<1>10. CASE pair = <<s, x>>
  <2>1. GameStarts(r, s, x)
    BY <1>2, <1>4, <1>5, <1>10 DEF GameStarts
  <2>2. queue' = <<>> /\ inQueue' = {}
    BY <1>1, <1>4, <1>6, <1>7, <1>8, <1>10
  <2> QED BY <1>1, <1>2, <2>1, <2>2
<1> QED BY <1>2, <1>9, <1>10, PairingOfTwo

LEMMA MoveKind ==
  ASSUME IInv, NullsAssumption, NEW s \in Sessions, handle_move(s)
  PROVE  (\E p, q \in Sessions : GameEnds(p, q)) \/ GamesKept(s)
<1> DEFINE r == room[s]
<1>1. r \in RoomIds /\ InRoom(s) /\ user' = user
  BY OpponentOf DEF handle_move, InGame, IInv
<1>2. rooms' = PlayOn(r, rooms[r].offers, Other(rooms[r].toMove))
  BY DEF handle_move, on_move
<1>3. PlayersKept
  <2>1. Other(rooms[r].toMove) \in {"white", "black"}
    BY DEF Other
  <2>2. rooms[r].offers \in SUBSET {"white", "black"}
    BY <1>1 DEF IInv, TypeOK
  <2> QED BY <1>1, <1>2, <2>1, <2>2, RoomFieldsTyped DEF PlayersKept
<1>4. CASE UNCHANGED <<room, rating, db, told, saved, settled>>
  BY <1>1, <1>3, <1>4 DEF GamesKept
<1>5. ASSUME NEW w \in Players(r) \union {NoPlayer}, end_game(r, w)
      PROVE  \E p, q \in Sessions : GameEnds(p, q)
  BY <1>1, <1>3, <1>5, EndKind
<1> QED BY <1>4, <1>5 DEF handle_move, on_move, Players

LEMMA DrawKind ==
  ASSUME IInv, NullsAssumption, NEW s \in Sessions,
         DrawOffer(s) \/ DrawAccept(s) \/ DrawDecline(s)
  PROVE  (\E p, q \in Sessions : GameEnds(p, q)) \/ GamesKept(s)
<1> DEFINE r == room[s]
<1>1. r \in RoomIds /\ InRoom(s) /\ user' = user
  BY OpponentOf DEF DrawOffer, DrawAccept, DrawDecline, InGame, IInv
<1>2. CASE DrawOffer(s) \/ DrawDecline(s)
  <2>1. UNCHANGED <<room, rating, db, told, saved, settled>>
    BY <1>2 DEF DrawOffer, DrawDecline, on_draw_request, on_draw_decline
  <2>2. /\ rooms[r].offers \in SUBSET {"white", "black"}
        /\ rooms[r].toMove \in {"white", "black"}
    BY <1>1 DEF IInv, TypeOK
  <2>3. PICK o \in SUBSET {"white", "black"} : rooms' = PlayOn(r, o, rooms[r].toMove)
    <3>1. ColorOf(r, s) \in {"white", "black"}
      BY DEF ColorOf
    <3>2. CASE DrawOffer(s)
      BY <2>2, <3>1, <3>2 DEF DrawOffer, on_draw_request
    <3>3. CASE DrawDecline(s)
      BY <2>2, <3>3 DEF DrawDecline, on_draw_decline
    <3> QED BY <1>2, <3>2, <3>3
  <2>4. PlayersKept
    BY <1>1, <2>2, <2>3, RoomFieldsTyped DEF PlayersKept
  <2> QED BY <1>1, <2>1, <2>4 DEF GamesKept
<1>3. CASE DrawAccept(s)
  <2>1. rooms' = rooms /\ end_game(r, NoPlayer)
    BY <1>3 DEF DrawAccept, on_draw_accept
  <2>2. PlayersKept
    BY <2>1 DEF PlayersKept
  <2> QED BY <1>1, <2>1, <2>2, EndKind
<1> QED BY <1>2, <1>3

\* What a step does to the games, and that connections only get worse.
LEMMA StepKind ==
  ASSUME IInv, NullsAssumption, Next
  PROVE  StepKinds /\ Aging
<1> USE DEF IInv
<1>1. PICK s \in Sessions :
        \/ Accept(s)
        \/ \E a \in Accounts : handle_auth(s, a)
        \/ QueueWait(s)
        \/ QueueMatch(s)
        \/ handle_leave(s)
        \/ handle_move(s)
        \/ DrawOffer(s) \/ DrawAccept(s) \/ DrawDecline(s)
        \/ ReadError(s)
        \/ WriteError(s)
  BY DEF Next
<1>2. CASE Accept(s)
  BY <1>2 DEF Accept, roomVars, StepKinds, GamesKept, PlayersKept, Aging, Reachable, TypeOK
<1>3. ASSUME NEW a \in Accounts, handle_auth(s, a) PROVE StepKinds /\ Aging
  BY <1>3 DEF handle_auth, serverVars, StepKinds, LogsIn, Aging, Reachable
<1>4. CASE QueueWait(s)
  BY <1>4 DEF QueueWait, roomVars, StepKinds, GamesKept, PlayersKept, Aging, Reachable
<1>5. CASE QueueMatch(s)
  <2>1. Aging
    BY <1>5 DEF QueueMatch, Aging, Reachable
  <2> QED BY <1>5, <2>1, MatchKind DEF StepKinds
<1>6. CASE handle_leave(s)
  <2>1. depart(s, TRUE) /\ user' = user
    BY <1>6 DEF handle_leave
  <2>2. StepKinds
    BY <2>1, DepartKind DEF StepKinds
  <2>3. Aging
    BY <1>6 DEF handle_leave, Aging, Reachable
  <2> QED BY <2>2, <2>3
<1>7. CASE handle_move(s)
  <2>1. Aging
    BY <1>7 DEF handle_move, serverVars, Aging, Reachable
  <2> QED BY <1>7, <2>1, MoveKind DEF StepKinds
<1>8. CASE DrawOffer(s) \/ DrawAccept(s) \/ DrawDecline(s)
  <2>1. Aging
    BY <1>8 DEF DrawOffer, DrawAccept, DrawDecline, serverVars, Aging, Reachable
  <2> QED BY <1>8, <2>1, DrawKind DEF StepKinds
<1>9. CASE ReadError(s) \/ WriteError(s)
  <2>1. Aging /\ ~Reachable(s)'
    BY <1>9 DEF ReadError, WriteError, Aging, Reachable, TypeOK, Reading
  <2>2. depart(s, FALSE) /\ user' = user
    BY <1>9 DEF ReadError, WriteError, on_disconnect
  <2> QED BY <2>1, <2>2, DepartKind DEF StepKinds
<1> QED BY <1>1, <1>2, <1>3, <1>4, <1>5, <1>6, <1>7, <1>8, <1>9

-----------------------------------------------------------------------------
(* Each game is settled once.                                              *)

LEMMA SettledStart ==
  ASSUME IInv, IInv', SettledOnce, NullsAssumption,
         NEW r \in RoomIds, NEW w \in Sessions, NEW b \in Sessions, GameStarts(r, w, b)
  PROVE  SettledOnce'
<1> USE DEF IInv
<1>1. /\ rooms' = [rooms EXCEPT ![r] = NewGame(w, b)]
      /\ room' = [room EXCEPT ![w] = r, ![b] = r]
      /\ saved' = saved /\ settled' = settled
      /\ w # b /\ ~InRoom(w) /\ ~InRoom(b) /\ ~Created(r)
  BY DEF GameStarts, start
<1>2. \A t \in Sessions : room[t] # r
  BY <1>1 DEF RoomsInv, RoomsSymmetric, InRoom, NullsAssumption
<1>3. settled[r] = 0 /\ saved[r] = 0
  <2>1. settled[r] \in Nat /\ saved[r] \in Nat
    BY DEF TypeOK
  <2>2. ~(settled[r] + saved[r] > 0)
    BY <1>1, <1>2 DEF SettledOnce
  <2> QED BY <2>1, <2>2
<1>4. room'[w] = r
  BY <1>1 DEF TypeOK
<1>5. ASSUME NEW q \in RoomIds, q # r
      PROVE  /\ (\E t \in Sessions : room'[t] = q) <=> (\E t \in Sessions : room[t] = q)
             /\ Created(q)' <=> Created(q)
  <2>1. Created(q)' <=> Created(q)
    BY <1>1, <1>5 DEF Created, TypeOK
  <2>2. \A t \in Sessions : room'[t] = q <=> room[t] = q
    <3>1. \A t \in Sessions \ {w, b} : room'[t] = room[t]
      BY <1>1 DEF TypeOK
    <3>2. room'[w] = r /\ room'[b] = r
      BY <1>1 DEF TypeOK
    <3>3. room[w] = NoRoom /\ room[b] = NoRoom /\ q # NoRoom
      BY <1>1 DEF InRoom, NullsAssumption
    <3> QED BY <1>5, <3>1, <3>2, <3>3
  <2> QED BY <2>1, <2>2
<1> QED BY <1>1, <1>3, <1>4, <1>5 DEF SettledOnce

LEMMA SettledEnd ==
  ASSUME IInv, IInv', SettledOnce, NullsAssumption,
         NEW p \in Sessions, NEW q \in Sessions, GameEnds(p, q)
  PROVE  SettledOnce'
<1> USE DEF IInv
<1> DEFINE r == room[p]
<1>1. r \in RoomIds /\ Players(r) = {p, q} /\ Created(r)
  <2>1. InRoom(p) /\ Players(r) = {p, q}
    BY DEF GameEnds
  <2> QED BY <2>1 DEF InRoom, TypeOK, RoomsInv, RoomsSymmetric
<1>2. settled[r] = 0 /\ saved[r] = 0
  BY <1>1 DEF SettledOnce
<1>3. \A t \in Sessions : room'[t] = IF t \in {p, q} THEN NoRoom ELSE room[t]
  BY <1>1 DEF GameEnds, vacate
<1>4. \A t \in Sessions : room'[t] # r
  <2>1. \A t \in Sessions : room[t] = r => t \in {p, q}
    BY <1>1 DEF RoomsInv, RoomsSymmetric, InRoom, NullsAssumption
  <2> QED BY <1>1, <1>3, <2>1 DEF NullsAssumption
<1>5. \A x \in RoomIds : Created(x)' <=> Created(x)
  BY DEF GameEnds, PlayersKept, Created
<1>6. \A x \in RoomIds \ {r} : settled'[x] = settled[x] /\ saved'[x] = saved[x]
  <2>1. settled' = settled \/ settled' = [settled EXCEPT ![r] = @ + 1]
    BY DEF GameEnds, update_rating
  <2>2. saved' = saved \/ saved' = [saved EXCEPT ![r] = @ + 1]
    BY DEF GameEnds
  <2>3. settled \in [RoomIds -> Nat] /\ saved \in [RoomIds -> Nat]
    BY DEF TypeOK
  <2>4. \A x \in RoomIds \ {r} : settled'[x] = settled[x]
    BY <2>1, <2>3
  <2>5. \A x \in RoomIds \ {r} : saved'[x] = saved[x]
    BY <2>2, <2>3
  <2> QED BY <2>4, <2>5
<1>7. settled'[r] \in 0..1 /\ saved'[r] \in 0..1 /\ settled'[r] + saved'[r] > 0
  <2>1. CASE /\ update_rating(r, p, q)
             /\ saved' = saved \/ saved' = [saved EXCEPT ![r] = @ + 1]
    <3>1. settled' = [settled EXCEPT ![r] = @ + 1]
      BY <2>1 DEF update_rating
    <3>2. settled'[r] = 1
      BY <1>1, <1>2, <3>1 DEF TypeOK
    <3>3. saved'[r] \in 0..1
      BY <1>1, <1>2, <2>1 DEF TypeOK
    <3> QED BY <3>2, <3>3
  <2>2. CASE UNCHANGED <<rating, db, settled>> /\ saved' = [saved EXCEPT ![r] = @ + 1]
    BY <1>1, <1>2, <2>2 DEF TypeOK
  <2> QED BY <2>1, <2>2 DEF GameEnds
<1>8. ASSUME NEW x \in RoomIds, x # r
      PROVE  (\E t \in Sessions : room'[t] = x) <=> (\E t \in Sessions : room[t] = x)
  <2>1. \A t \in Sessions : room'[t] = x <=> room[t] = x
    <3>1. room[p] = r /\ room[q] = r
      BY DEF GameEnds
    <3> QED BY <1>3, <1>8, <3>1 DEF NullsAssumption
  <2> QED BY <2>1
<1> QED BY <1>1, <1>4, <1>5, <1>6, <1>7, <1>8 DEF SettledOnce

LEMMA SettledStep ==
  ASSUME IInv, IInv', SettledOnce, NullsAssumption, [Next]_vars
  PROVE  SettledOnce'
<1>1. ASSUME UNCHANGED <<room, saved, settled>>, PlayersKept PROVE SettledOnce'
  BY <1>1 DEF SettledOnce, Created, PlayersKept
<1>2. CASE UNCHANGED vars
  BY <1>1, <1>2 DEF vars, roomVars, PlayersKept
<1>3. CASE Next
  <2>1. StepKinds
    BY <1>3, StepKind
  <2>2. ASSUME NEW s \in Sessions, NEW a \in Accounts, LogsIn(s, a) PROVE SettledOnce'
    BY <1>1, <2>2 DEF LogsIn, handle_auth, PlayersKept
  <2>3. ASSUME NEW s \in Sessions, GamesKept(s) PROVE SettledOnce'
    BY <1>1, <2>3 DEF GamesKept
  <2> QED BY <2>1, <2>2, <2>3, SettledStart, SettledEnd DEF StepKinds
<1> QED BY <1>2, <1>3

\* However a game ends (mate, draw, a departure of either player, a failed read
\* or write) its settlement runs once, and never for a game still being played.
THEOREM GamesSettledOnce == Spec => []SettledOnce
<1>1. Init => SettledOnce
  BY NullsAssumption DEF Init, SettledOnce, Created, NoGame
<1>2. IInv /\ IInv' /\ SettledOnce /\ [Next]_vars => SettledOnce'
  BY SettledStep, NullsAssumption
<1> QED BY <1>1, <1>2, Invariance, PTL DEF Spec

-----------------------------------------------------------------------------
(* The players know whether they are playing.                              *)

\* PlayersInformed also before the accept, when neither side knows anything.
InformedInv == \A s \in Sessions : Reachable(s) => (told[s] = "match_found" <=> InRoom(s))

LEMMA InformedStep ==
  ASSUME IInv, NullsAssumption, InformedInv, [Next]_vars
  PROVE  InformedInv'
<1> USE DEF IInv
<1>1. CASE UNCHANGED vars
  BY <1>1 DEF vars, roomVars, serverVars, InformedInv, Reachable, InRoom
<1>2. CASE Next
  <2>1. StepKinds /\ Aging
    BY <1>2, StepKind
  <2>2. SUFFICES ASSUME NEW t \in Sessions, Reachable(t)'
                 PROVE  told'[t] = "match_found" <=> room'[t] # NoRoom
    BY DEF InformedInv, InRoom
  <2>3. told[t] = "match_found" <=> room[t] # NoRoom
    BY <2>1, <2>2 DEF Aging, InformedInv, InRoom
  <2>4. ASSUME NEW r \in RoomIds, NEW w \in Sessions, NEW b \in Sessions, GameStarts(r, w, b)
        PROVE  told'[t] = "match_found" <=> room'[t] # NoRoom
    <3>1. /\ room' = [room EXCEPT ![w] = r, ![b] = r]
          /\ told' = [told EXCEPT ![w] = "match_found", ![b] = "match_found"]
      BY <2>4 DEF GameStarts, start
    <3>2. CASE t \in {w, b}
      BY <3>1, <3>2 DEF TypeOK, NullsAssumption
    <3>3. CASE t \notin {w, b}
      BY <2>3, <3>1, <3>3 DEF TypeOK
    <3> QED BY <3>2, <3>3
  <2>5. ASSUME NEW p \in Sessions, NEW q \in Sessions, GameEnds(p, q)
        PROVE  told'[t] = "match_found" <=> room'[t] # NoRoom
    <3>1. room'[t] = IF t \in {p, q} THEN NoRoom ELSE room[t]
      BY <2>5 DEF GameEnds, vacate
    <3>2. IF t \in {p, q} THEN told'[t] # "match_found" ELSE told'[t] = told[t]
      BY <2>2, <2>5 DEF GameEnds
    <3> QED BY <2>3, <3>1, <3>2
  <2>6. ASSUME NEW s \in Sessions, NEW a \in Accounts, LogsIn(s, a)
        PROVE  told'[t] = "match_found" <=> room'[t] # NoRoom
    BY <2>3, <2>6 DEF LogsIn, handle_auth
  <2>7. ASSUME NEW s \in Sessions, GamesKept(s)
        PROVE  told'[t] = "match_found" <=> room'[t] # NoRoom
    <3>1. room'[t] = room[t] /\ (told'[t] = told[t] \/ (t = s /\ ~InRoom(s) /\ told'[s] = "left"))
      BY <2>7 DEF GamesKept
    <3> QED BY <2>3, <3>1 DEF InRoom
  <2> QED BY <2>1, <2>4, <2>5, <2>6, <2>7 DEF StepKinds
<1> QED BY <1>1, <1>2

\* Nobody who can be reached is left at the board of a finished game, and nobody
\* is in a game it was not told of.
THEOREM PlayersStayInformed == Spec => []PlayersInformed
<1>1. Init => InformedInv
  BY DEF Init, InformedInv, InRoom
<1>2. IInv /\ InformedInv /\ [Next]_vars => InformedInv'
  BY InformedStep, NullsAssumption
<1>3. InformedInv => PlayersInformed
  BY DEF InformedInv, PlayersInformed, Reachable, Reading
<1> QED BY <1>1, <1>2, <1>3, Invariance, PTL DEF Spec

-----------------------------------------------------------------------------
(* The last queue size sent is the size of the queue.                      *)

\* QueueSizeFresh, and why it needs nothing of who has not logged in: sizes are
\* sent to logged-in sessions only, and a session is listed before it logs in.
SizeInv ==
  /\ QueueSizeFresh
  /\ \A s \in Sessions : ~Authorized(s) => sizeSeen[s] = -1
  /\ \A s \in Sessions : conn[s] = "none" => ~Authorized(s)

\* A broadcast to at least everyone listed who has seen a size.
LEMMA BroadcastFresh ==
  ASSUME IInv, SizeInv, NEW players, broadcast_queue_size(players), user' = user,
         listed' \subseteq listed, \A t \in listed' : t \in players \/ queue' = queue,
         \A t \in Sessions : conn'[t] = "none" => conn[t] = "none"
  PROVE  SizeInv'
<1>1. \A t \in Sessions :
        sizeSeen'[t] = IF t \in players /\ Authorized(t) THEN Len(queue') ELSE sizeSeen[t]
  BY DEF broadcast_queue_size
<1>2. QueueSizeFresh'
  BY <1>1 DEF SizeInv, QueueSizeFresh, IInv, TypeOK
<1>3. \A t \in Sessions : ~Authorized(t)' => sizeSeen'[t] = -1
  BY <1>1 DEF SizeInv, Authorized
<1>4. \A t \in Sessions : conn'[t] = "none" => ~Authorized(t)'
  BY DEF SizeInv, Authorized
<1> QED BY <1>2, <1>3, <1>4 DEF SizeInv

LEMMA SizeKept ==
  ASSUME SizeInv, UNCHANGED <<user, conn, listed, queue, sizeSeen>>
  PROVE  SizeInv'
BY DEF SizeInv, QueueSizeFresh, Authorized

LEMMA SizeStep ==
  ASSUME IInv, NullsAssumption, SizeInv, [Next]_vars
  PROVE  SizeInv'
<1>1. CASE UNCHANGED vars
  BY <1>1, SizeKept DEF vars, roomVars, serverVars
<1>2. CASE Next
  <2>1. PICK s \in Sessions :
          \/ Accept(s)
          \/ \E a \in Accounts : handle_auth(s, a)
          \/ QueueWait(s)
          \/ QueueMatch(s)
          \/ handle_leave(s)
          \/ handle_move(s)
          \/ DrawOffer(s) \/ DrawAccept(s) \/ DrawDecline(s)
          \/ ReadError(s)
          \/ WriteError(s)
    BY <1>2 DEF Next
  <2>2. CASE Accept(s)
    <3>1. conn[s] = "none" /\ conn' = [conn EXCEPT ![s] = "reading"]
          /\ listed' = listed \union {s} /\ UNCHANGED <<user, queue, sizeSeen>>
      BY <2>2 DEF Accept, roomVars
    <3>2. sizeSeen[s] = -1
      BY <3>1 DEF SizeInv
    <3>3. QueueSizeFresh'
      BY <3>1, <3>2 DEF SizeInv, QueueSizeFresh
    <3>4. \A t \in Sessions : conn'[t] = "none" => conn[t] = "none"
      BY <3>1 DEF IInv, TypeOK
    <3> QED BY <3>1, <3>3, <3>4 DEF SizeInv, Authorized
  <2>3. ASSUME NEW a \in Accounts, handle_auth(s, a) PROVE SizeInv'
    <3>1. conn[s] = "reading" /\ user' = [user EXCEPT ![s] = a]
          /\ UNCHANGED <<conn, listed, queue, sizeSeen>>
      BY <2>3 DEF handle_auth, Reading, serverVars
    <3>2. Authorized(s)' /\ \A t \in Sessions \ {s} : Authorized(t)' <=> Authorized(t)
      BY <3>1 DEF Authorized, IInv, TypeOK, NullsAssumption
    <3> QED BY <3>1, <3>2 DEF SizeInv, QueueSizeFresh
  <2>4. CASE QueueWait(s) \/ QueueMatch(s)
    <3>1. broadcast_queue_size(listed) /\ UNCHANGED <<user, conn, listed>>
      BY <2>4 DEF QueueWait, QueueMatch, roomVars
    <3> QED BY <3>1, BroadcastFresh
  <2>5. CASE handle_leave(s)
    <3>1. /\ broadcast_queue_size(IF s \in inQueue THEN listed ELSE {})
          /\ UNCHANGED <<user, conn, listed>>
          /\ dequeue(s)
      BY <2>5 DEF handle_leave
    <3>2. s \notin inQueue => queue' = queue
      BY <3>1 DEF dequeue
    <3> QED BY <3>1, <3>2, BroadcastFresh
  <2>6. CASE handle_move(s) \/ DrawOffer(s) \/ DrawAccept(s) \/ DrawDecline(s)
    BY <2>6, SizeKept DEF handle_move, DrawOffer, DrawAccept, DrawDecline, serverVars
  <2>7. CASE ReadError(s) \/ WriteError(s)
    <3>1. on_disconnect(s) /\ \A t \in Sessions : conn'[t] = "none" => conn[t] = "none"
      BY <2>7 DEF ReadError, WriteError, IInv, TypeOK
    <3>2. /\ broadcast_queue_size(IF s \in inQueue THEN listed ELSE listed \ {s})
          /\ listed' = listed \ {s}
          /\ user' = user
      BY <3>1 DEF on_disconnect
    <3> QED BY <3>1, <3>2, BroadcastFresh
  <2> QED BY <2>1, <2>2, <2>3, <2>4, <2>5, <2>6, <2>7
<1> QED BY <1>1, <1>2

\* Every change of the queue reaches everyone who was told its size before.
THEOREM QueueSizeStaysFresh == Spec => []QueueSizeFresh
<1>1. Init => SizeInv
  BY DEF Init, SizeInv, QueueSizeFresh, Authorized
<1>2. IInv /\ SizeInv /\ [Next]_vars => SizeInv'
  BY SizeStep, NullsAssumption
<1>3. SizeInv => QueueSizeFresh
  BY DEF SizeInv
<1> QED BY <1>1, <1>2, <1>3, Invariance, PTL DEF Spec

-----------------------------------------------------------------------------
(* Ratings.                                                                *)

\* What the two statements on a row do to the ratings of the table.
LEMMA TableRatings ==
  ASSUME NEW t \in [Accounts -> UserRow], NEW a \in Accounts
  PROVE  /\ \A v \in Int :
              /\ db_update_rating(t, a, v)[a].rating = v
              /\ \A x \in Accounts \ {a} : db_update_rating(t, a, v)[x].rating = t[x].rating
         /\ \A b \in BOOLEAN, x \in Accounts : db_update_stats(t, a, b)[x].rating = t[x].rating
<1>1. ASSUME NEW v \in Int
      PROVE  /\ db_update_rating(t, a, v)[a].rating = v
             /\ \A x \in Accounts \ {a} : db_update_rating(t, a, v)[x].rating = t[x].rating
  BY DEF db_update_rating, UserRow
<1>2. ASSUME NEW b \in BOOLEAN, NEW x \in Accounts
      PROVE  db_update_stats(t, a, b)[x].rating = t[x].rating
  BY DEF db_update_stats, UserRow
<1> QED BY <1>1, <1>2

\* A settlement moves two ratings and the rows of their accounts, alike.
LEMMA SettlementRatings ==
  ASSUME TypeOK, NEW r \in RoomIds, NEW w \in Sessions, NEW l \in Sessions, w # l,
         Authorized(w), Authorized(l), update_rating(r, w, l)
  PROVE  /\ \A t \in Sessions \ {w, l} : rating'[t] = rating[t]
         /\ rating'[w] + rating'[l] = rating[w] + rating[l]
         /\ \A a \in Accounts \ {user[w], user[l]} : db'[a].rating = db[a].rating
         /\ user[w] # user[l] => db'[user[w]].rating = rating'[w]
         /\ db'[user[l]].rating = rating'[l]
<1> DEFINE newW == rating[w] + Gain(rating[w] - rating[l])
           newL == rating[l] - Loss(rating[w] - rating[l])
           d1 == db_update_rating(db, user[w], newW)
           d2 == db_update_rating(d1, user[l], newL)
           d3 == db_update_stats(d2, user[w], TRUE)
           d4 == db_update_stats(d3, user[l], FALSE)
<1>1. newW \in Int /\ newL \in Int
  <2>1. rating[w] - rating[l] \in Int
    BY DEF TypeOK
  <2>2. Gain(rating[w] - rating[l]) \in Int /\ Loss(rating[w] - rating[l]) \in Int
    BY <2>1, GainBounded, LossIsGain DEF K
  <2> QED BY <2>2 DEF TypeOK
<1>2. newW + newL = rating[w] + rating[l]
  <2>1. PICK x, y \in Int : x = rating[w] /\ y = rating[l]
    BY DEF TypeOK
  <2>2. PICK g \in Int : g = Gain(rating[w] - rating[l]) /\ g = Loss(rating[w] - rating[l])
    <3>1. x - y \in Int /\ rating[w] - rating[l] = x - y
      BY <2>1
    <3> QED BY <3>1, GainBounded, LossIsGain DEF K
  <2>3. (x + g) + (y - g) = x + y
    OBVIOUS
  <2> QED BY <2>1, <2>2, <2>3
<1>3. rating' = [rating EXCEPT ![w] = newW, ![l] = newL] /\ db' = d4
  BY DEF update_rating
<1>4. db \in [Accounts -> UserRow] /\ user[w] \in Accounts /\ user[l] \in Accounts
  BY DEF TypeOK, UserRow, Authorized
<1> HIDE DEF newW, newL
<1>5. /\ rating'[w] = newW /\ rating'[l] = newL
      /\ \A t \in Sessions \ {w, l} : rating'[t] = rating[t]
  BY <1>3 DEF TypeOK
<1>6. d1 \in [Accounts -> UserRow]
  BY <1>1, <1>4, TableTyped
<1>7. /\ d1[user[w]].rating = newW
      /\ \A x \in Accounts \ {user[w]} : d1[x].rating = db[x].rating
  BY <1>1, <1>4, TableRatings
<1> HIDE DEF d1
<1>8. d2 \in [Accounts -> UserRow]
  BY <1>1, <1>4, <1>6, TableTyped
<1>9. /\ d2[user[l]].rating = newL
      /\ \A x \in Accounts \ {user[l]} : d2[x].rating = d1[x].rating
  BY <1>1, <1>4, <1>6, TableRatings
<1> HIDE DEF d2
<1>10. d3 \in [Accounts -> UserRow] /\ \A x \in Accounts : d3[x].rating = d2[x].rating
  BY <1>4, <1>8, TableTyped, TableRatings
<1> HIDE DEF d3
<1>11. \A x \in Accounts : d4[x].rating = d3[x].rating
  BY <1>4, <1>10, TableRatings
<1> HIDE DEF d4
<1>12. \A x \in Accounts : db'[x].rating = d2[x].rating
  BY <1>3, <1>10, <1>11
<1>13. \A a \in Accounts \ {user[w], user[l]} : db'[a].rating = db[a].rating
  BY <1>7, <1>9, <1>12
<1>14. db'[user[l]].rating = rating'[l]
  BY <1>4, <1>5, <1>9, <1>12
<1>15. ASSUME user[w] # user[l] PROVE db'[user[w]].rating = rating'[w]
  <2>1. user[w] \in Accounts \ {user[l]}
    BY <1>4, <1>15
  <2> QED BY <1>5, <1>7, <1>9, <1>12, <2>1
<1> QED BY <1>5, <1>13, <1>14, <1>15, <1>2

\* ... and of the table nothing else.
LEMMA SettlementRows ==
  ASSUME TypeOK, NEW r \in RoomIds, NEW w \in Sessions, NEW l \in Sessions,
         Authorized(w), Authorized(l), update_rating(r, w, l),
         NEW a \in Accounts \ {user[w], user[l]}
  PROVE  db'[a] = db[a]
<1>1. ASSUME NEW t \in [Accounts -> UserRow], NEW x \in Accounts, a # x
      PROVE  /\ \A v \in Int : db_update_rating(t, x, v)[a] = t[a]
             /\ \A b \in BOOLEAN : db_update_stats(t, x, b)[a] = t[a]
  <2>1. ASSUME NEW v \in Int PROVE db_update_rating(t, x, v)[a] = t[a]
    BY <1>1 DEF db_update_rating
  <2>2. ASSUME NEW b \in BOOLEAN PROVE db_update_stats(t, x, b)[a] = t[a]
    BY <1>1 DEF db_update_stats
  <2> QED BY <2>1, <2>2
<1> DEFINE newW == rating[w] + Gain(rating[w] - rating[l])
           newL == rating[l] - Loss(rating[w] - rating[l])
           d1 == db_update_rating(db, user[w], newW)
           d2 == db_update_rating(d1, user[l], newL)
           d3 == db_update_stats(d2, user[w], TRUE)
           d4 == db_update_stats(d3, user[l], FALSE)
<1>2. newW \in Int /\ newL \in Int
  <2>1. rating[w] \in Int /\ rating[l] \in Int /\ rating[w] - rating[l] \in Int
    BY DEF TypeOK
  <2>2. Gain(rating[w] - rating[l]) \in Int /\ Loss(rating[w] - rating[l]) \in Int
    BY <2>1, GainBounded, LossIsGain DEF K
  <2> QED BY <2>1, <2>2
<1>3. db' = d4
  BY DEF update_rating
<1>4. /\ db \in [Accounts -> UserRow] /\ user[w] \in Accounts /\ user[l] \in Accounts
      /\ a # user[w] /\ a # user[l]
  BY DEF TypeOK, UserRow, Authorized
<1> HIDE DEF newW, newL
<1>5. d1 \in [Accounts -> UserRow] /\ d1[a] = db[a]
  BY <1>1, <1>2, <1>4, TableTyped
<1> HIDE DEF d1
<1>6. d2 \in [Accounts -> UserRow] /\ d2[a] = d1[a]
  BY <1>1, <1>2, <1>4, <1>5, TableTyped
<1> HIDE DEF d2
<1>7. d3 \in [Accounts -> UserRow] /\ d3[a] = d2[a]
  BY <1>1, <1>4, <1>6, TableTyped
<1> HIDE DEF d3
<1>8. d4[a] = d3[a]
  BY <1>1, <1>4, <1>7
<1> QED BY <1>3, <1>5, <1>6, <1>7, <1>8

\* RatingCacheFresh, and that no two open sessions share an account.
FreshInv ==
  OneSessionPerAccount =>
    /\ \A s \in Sessions :
         Authorized(s) /\ conn[s] # "closed" => rating[s] = db[user[s]].rating
    /\ \A s, t \in Sessions :
         s # t /\ Authorized(s) /\ conn[s] # "closed" /\ conn[t] # "closed" => user[s] # user[t]

LEMMA FreshKept ==
  ASSUME FreshInv, UNCHANGED <<user, rating, db>>,
         \A s \in Sessions : conn'[s] # "closed" => conn[s] # "closed"
  PROVE  FreshInv'
BY DEF FreshInv, Authorized

LEMMA FreshStep ==
  ASSUME IInv, NullsAssumption, FreshInv, [Next]_vars
  PROVE  FreshInv'
<1> USE DEF IInv
<1>1. CASE UNCHANGED vars
  BY <1>1, FreshKept DEF vars, roomVars, serverVars
<1>2. CASE Next
  <2>1. StepKinds /\ \A s \in Sessions : conn'[s] # "closed" => conn[s] # "closed"
    BY <1>2, StepKind DEF Aging
  <2>2. ASSUME NEW r \in RoomIds, NEW w \in Sessions, NEW b \in Sessions, GameStarts(r, w, b)
        PROVE  FreshInv'
    BY <2>1, <2>2, FreshKept DEF GameStarts, start
  <2>3. ASSUME NEW s \in Sessions, GamesKept(s) PROVE FreshInv'
    BY <2>1, <2>3, FreshKept DEF GamesKept
  <2>4. ASSUME NEW s \in Sessions, NEW a \in Accounts, LogsIn(s, a) PROVE FreshInv'
    <3>1. /\ user' = [user EXCEPT ![s] = a]
          /\ rating' = [rating EXCEPT ![s] = db[a].rating]
          /\ conn' = conn /\ db' = db
          /\ OneSessionPerAccount => \A t \in Sessions \ {s} : user[t] = a => conn[t] = "closed"
      BY <2>4 DEF LogsIn, handle_auth, serverVars
    <3>2. user'[s] = a /\ \A t \in Sessions \ {s} : user'[t] = user[t]
      BY <3>1 DEF TypeOK
    <3>3. rating'[s] = db[a].rating /\ \A t \in Sessions \ {s} : rating'[t] = rating[t]
      BY <3>1 DEF TypeOK
    <3> QED BY <3>1, <3>2, <3>3 DEF FreshInv, Authorized
  <2>5. ASSUME NEW p \in Sessions, NEW q \in Sessions, GameEnds(p, q) PROVE FreshInv'
    <3>1. CASE UNCHANGED <<rating, db>>
      BY <2>1, <2>5, <3>1, FreshKept DEF GameEnds
    <3>2. CASE update_rating(room[p], p, q)
      <4>1. p # q /\ InRoom(p) /\ InRoom(q) /\ room[p] \in RoomIds /\ user' = user
        BY <2>5 DEF GameEnds, InRoom, TypeOK
      <4>2. Authorized(p) /\ Authorized(q) /\ conn[p] # "closed" /\ conn[q] # "closed"
        BY <4>1 DEF RoomsInv, RoomsNeedLogin, NoGhosts
      <4>3. /\ \A t \in Sessions \ {p, q} : rating'[t] = rating[t]
            /\ \A a \in Accounts \ {user[p], user[q]} : db'[a].rating = db[a].rating
            /\ user[p] # user[q] =>
                 db'[user[p]].rating = rating'[p] /\ db'[user[q]].rating = rating'[q]
        BY <3>2, <4>1, <4>2, SettlementRatings
      <4>4. SUFFICES ASSUME OneSessionPerAccount
                     PROVE  \A s \in Sessions :
                              Authorized(s) /\ conn'[s] # "closed" => rating'[s] = db'[user[s]].rating
        BY <2>1, <4>1 DEF FreshInv, Authorized
      <4>5. user[p] # user[q]
        BY <4>1, <4>2, <4>4 DEF FreshInv
      <4>6. ASSUME NEW s \in Sessions \ {p, q}, Authorized(s), conn'[s] # "closed"
            PROVE  rating'[s] = db'[user[s]].rating
        <5>1. conn[s] # "closed"
          BY <2>1, <4>6
        <5>2. user[s] \in Accounts \ {user[p], user[q]}
          BY <4>2, <4>4, <4>6, <5>1 DEF FreshInv, Authorized, TypeOK
        <5>3. rating[s] = db[user[s]].rating
          BY <4>4, <4>6, <5>1 DEF FreshInv
        <5> QED BY <4>3, <5>2, <5>3
      <4> QED BY <4>3, <4>5, <4>6
    <3> QED BY <2>5, <3>1, <3>2 DEF GameEnds
  <2> QED BY <2>1, <2>2, <2>3, <2>4, <2>5 DEF StepKinds
<1> QED BY <1>1, <1>2

\* The copy of the rating a session carries is the stored one, through games,
\* logins in the middle of a game and reconnections, as long as no account is
\* used twice at a time.
THEOREM RatingCacheStaysFresh == Spec => []RatingCacheFresh
<1>1. Init => FreshInv
  BY DEF Init, FreshInv, Authorized
<1>2. IInv /\ FreshInv /\ [Next]_vars => FreshInv'
  BY FreshStep, NullsAssumption
<1>3. FreshInv => RatingCacheFresh
  BY DEF FreshInv, RatingCacheFresh
<1> QED BY <1>1, <1>2, <1>3, Invariance, PTL DEF Spec

\* The column of stored ratings.
Stored == [a \in Accounts |-> db[a].rating]

\* RatingPointsConserved, with the sum the lemmas on sums are about.
PointsKept ==
  OneSessionPerAccount => SumOver(Stored, Accounts) = InitialRating * Cardinality(Accounts)

LEMMA PointsKeptIsConserved == PointsKept => RatingPointsConserved
BY DEF PointsKept, RatingPointsConserved, SumOver, Stored

\* A game between two accounts moves points from one to the other.
LEMMA EndConserves ==
  ASSUME IInv, FreshInv, OneSessionPerAccount, NEW p \in Sessions, NEW q \in Sessions, GameEnds(p, q),
         update_rating(room[p], p, q), db' \in [Accounts -> UserRow]
  PROVE  SumOver(Stored', Accounts) = SumOver(Stored, Accounts)
<1>1. p # q /\ InRoom(p) /\ InRoom(q) /\ room[p] \in RoomIds
  BY DEF GameEnds, InRoom, IInv, TypeOK
<1>2. Authorized(p) /\ Authorized(q) /\ conn[p] # "closed" /\ conn[q] # "closed"
  BY <1>1 DEF IInv, RoomsInv, RoomsNeedLogin, NoGhosts
<1>3. PICK a, b \in Accounts : a = user[p] /\ b = user[q]
  BY <1>2 DEF IInv, TypeOK, Authorized
<1>4. a # b /\ db[a].rating = rating[p] /\ db[b].rating = rating[q]
  BY <1>1, <1>2, <1>3 DEF FreshInv
<1>5. /\ rating'[p] + rating'[q] = rating[p] + rating[q]
      /\ \A x \in Accounts \ {a, b} : db'[x].rating = db[x].rating
      /\ db'[a].rating = rating'[p] /\ db'[b].rating = rating'[q]
  BY <1>1, <1>2, <1>3, <1>4, SettlementRatings DEF IInv
<1>6. PICK f, h \in [Accounts -> Int] : f = Stored /\ h = Stored'
  <2>1. Stored \in [Accounts -> Int]
    BY DEF Stored, IInv, TypeOK
  <2>2. Stored' \in [Accounts -> Int]
    BY DEF Stored, UserRow
  <2> QED BY <2>1, <2>2
<1>7. h[a] + h[b] = f[a] + f[b] /\ \A x \in Accounts \ {a, b} : h[x] = f[x]
  BY <1>3, <1>4, <1>5, <1>6 DEF Stored
<1>8. PICK m \in [Accounts -> Int] : m = [f EXCEPT ![a] = h[a]]
  OBVIOUS
<1>9. /\ m[a] = h[a] /\ m[b] = f[b]
      /\ \A x \in Accounts \ {a} : m[x] = f[x]
      /\ \A x \in Accounts \ {b} : h[x] = m[x]
  BY <1>4, <1>7, <1>8
<1>10. IsFiniteSet(Accounts)
  BY RatingAssumption
<1>11. SumOver(f, Accounts) \in Int /\ SumOver(m, Accounts) = SumOver(f, Accounts) - f[a] + m[a]
  BY <1>9, <1>10, SumUpdate
<1>12. SumOver(h, Accounts) = SumOver(m, Accounts) - m[b] + h[b]
  BY <1>9, <1>10, SumUpdate
<1>13. f[a] \in Int /\ f[b] \in Int /\ h[a] \in Int /\ h[b] \in Int
  OBVIOUS
<1>14. SumOver(h, Accounts) = SumOver(f, Accounts)
  BY <1>7, <1>9, <1>11, <1>12, <1>13
<1> QED BY <1>6, <1>14

LEMMA ConservedStep ==
  ASSUME IInv, IInv', FreshInv, NullsAssumption, [Next]_vars, OneSessionPerAccount
  PROVE  SumOver(Stored', Accounts) = SumOver(Stored, Accounts)
<1>1. db' \in [Accounts -> UserRow]
  BY DEF IInv, TypeOK, UserRow
<1>2. ASSUME db' = db PROVE SumOver(Stored', Accounts) = SumOver(Stored, Accounts)
  BY <1>2 DEF Stored
<1>3. CASE UNCHANGED vars
  BY <1>2, <1>3 DEF vars, roomVars
<1>4. CASE Next
  <2>1. StepKinds
    BY <1>4, StepKind
  <2>2. ASSUME NEW p \in Sessions, NEW q \in Sessions, GameEnds(p, q)
        PROVE  SumOver(Stored', Accounts) = SumOver(Stored, Accounts)
    BY <1>1, <1>2, <2>2, EndConserves DEF GameEnds
  <2> QED BY <1>2, <2>1, <2>2 DEF StepKinds, GameStarts, start, LogsIn, handle_auth, GamesKept
<1> QED BY <1>3, <1>4

\* However many games end, by mate or by a departure, and whoever logs in in
\* between, the accounts hold the points they started with, as long as no
\* account is used twice at a time: the ratings a game is settled from are then
\* those of two different rows, and both are up to date.
THEOREM RatingPointsStayConserved == Spec => []RatingPointsConserved
<1>1. Init => FreshInv /\ PointsKept
  <2> SUFFICES ASSUME Init PROVE FreshInv /\ PointsKept
    OBVIOUS
  <2>1. FreshInv
    BY DEF Init, FreshInv, Authorized
  <2>2. \A a \in Accounts : Stored[a] = InitialRating
    BY DEF Init, Stored
  <2>3. SumOver(Stored, Accounts) = InitialRating * Cardinality(Accounts)
    BY <2>2, SumConstant, RatingAssumption
  <2> QED BY <2>1, <2>3 DEF PointsKept
<1>2. IInv /\ FreshInv /\ [Next]_vars => FreshInv'
  BY FreshStep, NullsAssumption
<1>3. IInv /\ IInv' /\ FreshInv /\ PointsKept /\ [Next]_vars => PointsKept'
  <2> SUFFICES ASSUME IInv, IInv', FreshInv, PointsKept, [Next]_vars, OneSessionPerAccount
               PROVE  SumOver(Stored', Accounts) = InitialRating * Cardinality(Accounts)
    BY DEF PointsKept
  <2> QED BY ConservedStep, NullsAssumption DEF PointsKept
<1> QED BY <1>1, <1>2, <1>3, Invariance, PointsKeptIsConserved, PTL DEF Spec

LEMMA RatingStep ==
  ASSUME IInv, NullsAssumption, [Next]_vars, NEW s \in Sessions, rating'[s] # rating[s]
  PROVE  OwnGameEnds(s) \/ (Reading(s) /\ rating'[s] = db[user'[s]].rating)
<1> USE DEF IInv
<1>1. Next /\ StepKinds
  BY StepKind DEF vars, roomVars
<1>2. ASSUME NEW t \in Sessions, NEW a \in Accounts, LogsIn(t, a)
      PROVE  Reading(s) /\ rating'[s] = db[user'[s]].rating
  <2>1. /\ Reading(t) /\ user' = [user EXCEPT ![t] = a]
        /\ rating' = [rating EXCEPT ![t] = db[a].rating]
    BY <1>2 DEF LogsIn, handle_auth
  <2> QED BY <2>1 DEF TypeOK
<1>3. ASSUME NEW p \in Sessions, NEW q \in Sessions, GameEnds(p, q)
      PROVE  OwnGameEnds(s)
  <2>1. p # q /\ InRoom(p) /\ InRoom(q) /\ room[p] \in RoomIds /\ update_rating(room[p], p, q)
    BY <1>3 DEF GameEnds, InRoom, TypeOK
  <2>2. Authorized(p) /\ Authorized(q)
    BY <2>1 DEF RoomsInv, RoomsNeedLogin
  <2>3. s \in {p, q}
    BY <2>1, <2>2, SettlementRatings
  <2>4. room'[s] = NoRoom
    BY <1>3, <2>3 DEF GameEnds, vacate
  <2> QED BY <2>1, <2>3, <2>4 DEF OwnGameEnds, InRoom
<1>4. ASSUME NEW r \in RoomIds, NEW w \in Sessions, NEW b \in Sessions, GameStarts(r, w, b)
      PROVE  FALSE
  BY <1>4 DEF GameStarts, start
<1>5. ASSUME NEW t \in Sessions, GamesKept(t) PROVE FALSE
  BY <1>5 DEF GamesKept
<1> QED BY <1>1, <1>2, <1>3, <1>4, <1>5 DEF StepKinds

LEMMA RowStep ==
  ASSUME IInv, NullsAssumption, [Next]_vars, NEW a \in Accounts, db'[a] # db[a]
  PROVE  \E s \in Sessions : user[s] = a /\ OwnGameEnds(s) /\ db'[a].rating = rating'[s]
<1> USE DEF IInv
<1>1. Next /\ StepKinds
  BY StepKind DEF vars, roomVars
<1>2. PICK p, q \in Sessions : GameEnds(p, q)
  BY <1>1 DEF StepKinds, GameStarts, start, LogsIn, handle_auth, GamesKept
<1>3. p # q /\ InRoom(p) /\ InRoom(q) /\ room[p] \in RoomIds /\ update_rating(room[p], p, q)
  BY <1>2 DEF GameEnds, InRoom, TypeOK
<1>4. Authorized(p) /\ Authorized(q)
  BY <1>3 DEF RoomsInv, RoomsNeedLogin
<1>5. OwnGameEnds(p) /\ OwnGameEnds(q)
  <2>1. room'[p] = NoRoom /\ room'[q] = NoRoom
    BY <1>2 DEF GameEnds, vacate
  <2> QED BY <1>3, <2>1 DEF OwnGameEnds, InRoom
<1>6. a \in {user[p], user[q]}
  BY <1>3, <1>4, SettlementRows
<1>7. CASE a = user[q]
  <2>1. db'[a].rating = rating'[q]
    BY <1>3, <1>4, <1>7, SettlementRatings
  <2> QED BY <1>5, <1>7, <2>1
<1>8. CASE a # user[q]
  <2>1. a = user[p] /\ user[p] # user[q]
    BY <1>6, <1>8
  <2>2. db'[a].rating = rating'[p]
    BY <1>3, <1>4, <2>1, SettlementRatings
  <2> QED BY <1>5, <2>1, <2>2
<1> QED BY <1>7, <1>8

\* Nobody's rating, in a session or in the table, moves because of a game or a
\* connection of somebody else, for all sets of sessions and accounts, and also
\* where sessions share an account.
THEOREM RatingsMoveOnlyWithGames == Spec => RatingMovesWithOwnGame
<1>1. IInv /\ [Next]_vars =>
        [/\ \A s \in Sessions :
              rating'[s] # rating[s] =>
                OwnGameEnds(s) \/ (Reading(s) /\ rating'[s] = db[user'[s]].rating)
         /\ \A a \in Accounts :
              db'[a] # db[a] =>
                \E s \in Sessions :
                  user[s] = a /\ OwnGameEnds(s) /\ db'[a].rating = rating'[s]]_vars
  BY RatingStep, RowStep, NullsAssumption
<1> QED BY <1>1, Invariance, PTL DEF Spec, RatingMovesWithOwnGame

-----------------------------------------------------------------------------
(* The server implements Lobby.                                            *)

LEMMA PeersKept ==
  ASSUME TypeOK, PlayersKept, room' = room
  PROVE  peerOf' = peerOf
<1>1. ASSUME NEW s \in Sessions PROVE peerOf'[s] = peerOf[s]
  BY DEF peerOf, InRoom, TypeOK, PlayersKept, opponent_of
<1>2. /\ peerOf = [s \in Sessions |-> peerOf[s]]
      /\ peerOf' = [s \in Sessions |-> peerOf'[s]]
  BY DEF peerOf
<1> QED BY <1>1, <1>2

LEMMA PeersStart ==
  ASSUME IInv, NullsAssumption,
         NEW r \in RoomIds, NEW w \in Sessions, NEW b \in Sessions, GameStarts(r, w, b)
  PROVE  /\ peerOf[w] = NoPlayer /\ peerOf[b] = NoPlayer
         /\ peerOf' = [peerOf EXCEPT ![w] = b, ![b] = w]
         /\ peerOf' = [peerOf EXCEPT ![b] = w, ![w] = b]
<1> USE DEF IInv
<1>1. /\ room' = [room EXCEPT ![w] = r, ![b] = r]
      /\ rooms' = [rooms EXCEPT ![r] = NewGame(w, b)]
      /\ w # b /\ ~InRoom(w) /\ ~InRoom(b) /\ ~Created(r)
  BY DEF GameStarts, start
<1>2. peerOf'[w] = b /\ peerOf'[b] = w
  <2>1. room'[w] = r /\ room'[b] = r /\ rooms'[r].white = w /\ rooms'[r].black = b /\ r # NoRoom
    BY <1>1 DEF TypeOK, NewGame, NullsAssumption
  <2> QED BY <1>1, <2>1 DEF peerOf, InRoom, opponent_of
<1>3. ASSUME NEW t \in Sessions \ {w, b} PROVE peerOf'[t] = peerOf[t]
  <2>1. room'[t] = room[t]
    BY <1>1 DEF TypeOK
  <2>2. CASE ~InRoom(t)
    BY <2>1, <2>2 DEF peerOf, InRoom
  <2>3. CASE InRoom(t)
    <3>1. room[t] \in RoomIds /\ room[t] # r
      BY <1>1, <2>3 DEF InRoom, TypeOK, RoomsInv, RoomsSymmetric
    <3>2. rooms'[room[t]] = rooms[room[t]]
      BY <1>1, <3>1 DEF TypeOK
    <3> QED BY <2>1, <2>3, <3>2 DEF peerOf, InRoom, opponent_of
  <2> QED BY <2>2, <2>3
<1>4. peerOf[w] = NoPlayer /\ peerOf[b] = NoPlayer
  BY <1>1 DEF peerOf
<1>5. /\ peerOf = [s \in Sessions |-> peerOf[s]]
      /\ peerOf' = [s \in Sessions |-> peerOf'[s]]
  BY DEF peerOf
<1> QED BY <1>1, <1>2, <1>3, <1>4, <1>5

LEMMA PeersPart ==
  ASSUME IInv, NullsAssumption, NEW p \in Sessions, NEW q \in Sessions, GameEnds(p, q)
  PROVE  /\ peerOf[p] = q /\ peerOf[q] = p
         /\ peerOf' = [peerOf EXCEPT ![p] = NoPlayer, ![q] = NoPlayer]
<1> USE DEF IInv
<1>1. /\ InRoom(p) /\ room[q] = room[p] /\ Players(room[p]) = {p, q}
      /\ opponent_of(room[p], p) = q /\ opponent_of(room[p], q) = p
      /\ PlayersKept /\ vacate(room[p])
  BY DEF GameEnds
<1>2. peerOf[p] = q /\ peerOf[q] = p
  BY <1>1 DEF peerOf, InRoom
<1>3. \A t \in Sessions : room'[t] = IF t \in {p, q} THEN NoRoom ELSE room[t]
  BY <1>1 DEF vacate
<1>4. peerOf'[p] = NoPlayer /\ peerOf'[q] = NoPlayer
  BY <1>3 DEF peerOf, InRoom
<1>5. ASSUME NEW t \in Sessions \ {p, q} PROVE peerOf'[t] = peerOf[t]
  <2>1. room'[t] = room[t]
    BY <1>3
  <2>2. CASE ~InRoom(t)
    BY <2>1, <2>2 DEF peerOf, InRoom
  <2>3. CASE InRoom(t)
    <3>1. room[t] \in RoomIds
      BY <2>3 DEF InRoom, TypeOK
    <3>2. rooms'[room[t]].white = rooms[room[t]].white /\ rooms'[room[t]].black = rooms[room[t]].black
      BY <1>1, <3>1 DEF PlayersKept
    <3> QED BY <2>1, <2>3, <3>2 DEF peerOf, InRoom, opponent_of
  <2> QED BY <2>2, <2>3
<1>6. /\ peerOf = [s \in Sessions |-> peerOf[s]]
      /\ peerOf' = [s \in Sessions |-> peerOf'[s]]
  BY DEF peerOf
<1> QED BY <1>2, <1>4, <1>5, <1>6

\* A departure is a parting, or leaves the opponents as they are.
LEMMA DepartPeers ==
  ASSUME IInv, NullsAssumption, NEW s \in Sessions, NEW left \in BOOLEAN,
         depart(s, left), dequeue(s), user' = user, left \/ ~Reachable(s)'
  PROVE  L!LobbyNext \/ UNCHANGED <<inQueue, peerOf>>
<1> USE DEF IInv
<1>1. CASE InRoom(s)
  <2>1. inQueue' = inQueue
    BY <1>1 DEF dequeue, QueueInv, QueueCoherent
  <2>2. CASE GamesKept(s)
    BY <2>1, <2>2, PeersKept DEF GamesKept
  <2>3. ASSUME NEW p \in Sessions, NEW q \in Sessions, GameEnds(p, q) PROVE L!Part(p, q)
    BY <2>1, <2>3, PeersPart DEF L!Part
  <2> QED BY <2>2, <2>3, DepartKind DEF L!LobbyNext
<1>2. CASE ~InRoom(s)
  <2>1. peerOf' = peerOf
    BY <1>2, PeersKept DEF depart, PlayersKept
  <2>2. CASE s \notin inQueue
    BY <2>1, <2>2 DEF dequeue
  <2>3. CASE s \in inQueue
    <3>1. inQueue = {s}
      BY <2>3, QueueShape
    <3>2. inQueue' = {}
      BY <2>3, <3>1 DEF dequeue
    <3>3. L!Withdraw(s)
      BY <2>1, <3>1, <3>2 DEF L!Withdraw
    <3> QED BY <3>3 DEF L!LobbyNext
  <2> QED BY <2>2, <2>3
<1> QED BY <1>1, <1>2

\* A request within a game parts its players or leaves them as they are.
LEMMA InGamePeers ==
  ASSUME IInv, NullsAssumption, NEW s \in Sessions, inQueue' = inQueue,
         (\E p, q \in Sessions : GameEnds(p, q)) \/ GamesKept(s)
  PROVE  L!LobbyNext \/ UNCHANGED <<inQueue, peerOf>>
<1>1. CASE GamesKept(s)
  BY <1>1, PeersKept DEF GamesKept, IInv
<1>2. ASSUME NEW p \in Sessions, NEW q \in Sessions, GameEnds(p, q) PROVE L!Part(p, q)
  BY <1>2, PeersPart DEF L!Part
<1> QED BY <1>1, <1>2 DEF L!LobbyNext

LEMMA LobbyStep ==
  ASSUME IInv, NullsAssumption, [Next]_vars
  PROVE  L!LobbyNext \/ UNCHANGED <<inQueue, peerOf>>
<1> USE DEF IInv
<1>1. CASE UNCHANGED vars
  BY <1>1, PeersKept DEF vars, roomVars, serverVars, PlayersKept
<1>2. CASE Next
  <2>1. PICK s \in Sessions :
          \/ Accept(s)
          \/ \E a \in Accounts : handle_auth(s, a)
          \/ QueueWait(s)
          \/ QueueMatch(s)
          \/ handle_leave(s)
          \/ handle_move(s)
          \/ DrawOffer(s) \/ DrawAccept(s) \/ DrawDecline(s)
          \/ ReadError(s)
          \/ WriteError(s)
    BY <1>2 DEF Next
  <2>2. CASE Accept(s) \/ \E a \in Accounts : handle_auth(s, a)
    <3>1. UNCHANGED <<rooms, room, inQueue>>
      BY <2>2 DEF Accept, handle_auth, roomVars, serverVars
    <3> QED BY <3>1, PeersKept DEF PlayersKept
  <2>3. CASE QueueWait(s)
    <3>1. inQueue = {} /\ inQueue' = {s} /\ ~InRoom(s)
      <4>1. Len(queue) + 1 < 2 /\ inQueue' = inQueue \union {s} /\ ~InRoom(s)
        BY <2>3 DEF QueueWait
      <4>2. ASSUME NEW x, queue = <<x>> PROVE FALSE
        BY <4>1, <4>2
      <4> QED BY <4>1, <4>2, QueueShape
    <3>2. UNCHANGED <<rooms, room>>
      BY <2>3 DEF QueueWait, roomVars
    <3>3. peerOf' = peerOf
      BY <3>2, PeersKept DEF PlayersKept
    <3>4. peerOf[s] = NoPlayer
      BY <3>1 DEF peerOf
    <3>5. L!Wait(s)
      BY <3>1, <3>3, <3>4 DEF L!Wait, L!Free
    <3> QED BY <3>5 DEF L!LobbyNext
  <2>4. CASE QueueMatch(s)
    <3>1. PICK x \in Sessions :
            /\ inQueue = {x} /\ x # s /\ inQueue' = {}
            /\ \E r \in RoomIds : GameStarts(r, x, s) \/ GameStarts(r, s, x)
      BY <2>4, MatchKind
    <3>2. peerOf[s] = NoPlayer /\ peerOf' = [peerOf EXCEPT ![s] = x, ![x] = s]
      BY <3>1, PeersStart
    <3>3. L!Pair(s, x)
      BY <3>1, <3>2 DEF L!Pair, L!Free
    <3> QED BY <3>3 DEF L!LobbyNext
  <2>5. CASE handle_leave(s)
    BY <2>5, DepartPeers DEF handle_leave
  <2>6. CASE handle_move(s)
    BY <2>6, MoveKind, InGamePeers DEF handle_move, serverVars
  <2>7. CASE DrawOffer(s) \/ DrawAccept(s) \/ DrawDecline(s)
    <3>1. inQueue' = inQueue
      BY <2>7 DEF DrawOffer, DrawAccept, DrawDecline, serverVars
    <3> QED BY <2>7, <3>1, DrawKind, InGamePeers
  <2>8. CASE ReadError(s) \/ WriteError(s)
    <3>1. depart(s, FALSE) /\ dequeue(s) /\ user' = user
      BY <2>8 DEF ReadError, WriteError, on_disconnect
    <3>2. ~Reachable(s)'
      BY <2>8 DEF ReadError, WriteError, Reachable, TypeOK
    <3> QED BY <3>1, <3>2, DepartPeers
  <2> QED BY <2>1, <2>2, <2>3, <2>4, <2>5, <2>6, <2>7, <2>8
<1> QED BY <1>1, <1>2

\* Whatever boards, ratings and connections do, the server keeps the promise of
\* Lobby: the queue is its waiting room, and the two players a room points back
\* to are each other's opponents from one step to another.
THEOREM ServerImplementsLobby == Spec => ImplementsLobby
<1>1. Init => L!LobbyInit
  BY DEF Init, L!LobbyInit, peerOf, InRoom
<1>2. IInv /\ [Next]_vars => [L!LobbyNext]_<<inQueue, peerOf>>
  BY LobbyStep, NullsAssumption
<1> QED BY <1>1, <1>2, Invariance, PTL DEF Spec, ImplementsLobby, L!LobbySpec, L!lobbyVars
=============================================================================

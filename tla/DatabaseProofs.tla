--------------------------- MODULE DatabaseProofs ---------------------------
(***************************************************************************)
(* Proofs about Database for any set of nicknames, any contents of         *)
(* chess.db at the first start and any number of games, crashes and failed *)
(* statements.                                                             *)
(***************************************************************************)
EXTENDS Database, RatingProofs, SequenceTheorems

\* A pending rating statement writes what the session already carries.
PendingIsCached ==
  \A i \in 1..Len(todo) :
    todo[i].op = "rating" => todo[i].who \in Nicks /\ todo[i].value = cache[todo[i].who]

\* A session that is ahead of the table has its statement pending.
AheadIsPending ==
  failures = 0 =>
    \A n \in online :
      \/ cache[n] = rating[n]
      \/ \E i \in 1..Len(todo) : todo[i].op = "rating" /\ todo[i].who = n

\* A game is saved last, and its winner's win has been counted by then.
SaveIsLast ==
  failures = 0 =>
    \A i \in 1..Len(todo) : todo[i].op = "save" /\ todo[i].who \in Nicks =>
      /\ i = Len(todo)
      /\ \/ games[todo[i].who] + 1 <= won[todo[i].who]
         \/ \E j \in 1..(i - 1) : todo[j].op = "won" /\ todo[j].who = todo[i].who

OnlineRegistered == online \subseteq registered

DatabaseInv ==
  /\ TypeOK
  /\ PendingIsCached
  /\ AheadIsPending
  /\ SaveIsLast
  /\ SavedIsRated
  /\ OnlineRegistered

LEMMA InitInv == Init => DatabaseInv
  <1> SUFFICES ASSUME Init PROVE DatabaseInv
    OBVIOUS
  <1>1. todo = <<>> /\ Len(todo) = 0 /\ todo \in Seq(Statements)
    BY EmptySeq DEF Init
  <1>2. TypeOK
    BY <1>1, DatabaseAssumption DEF Init, TypeOK
  <1>3. PendingIsCached /\ AheadIsPending /\ SaveIsLast /\ OnlineRegistered
    BY <1>1 DEF Init, PendingIsCached, AheadIsPending, SaveIsLast, OnlineRegistered
  <1>4. SavedIsRated
    BY DEF Init, SavedIsRated
  <1> QED
    BY <1>2, <1>3, <1>4 DEF DatabaseInv

\* With nothing pending, the sessions and the table agree.
LEMMA NothingPending ==
  ASSUME DatabaseInv, todo = <<>>, failures = 0
  PROVE  \A n \in online : cache[n] = rating[n]
  <1>1. Len(todo) = 0
    OBVIOUS
  <1> QED
    BY <1>1 DEF DatabaseInv, AheadIsPending

LEMMA LoginInv ==
  ASSUME DatabaseInv, NEW n \in Nicks, Login(n)
  PROVE  DatabaseInv'
  <1> USE DEF DatabaseInv
  <1>1. /\ todo = <<>> /\ todo' = <<>> /\ Len(todo') = 0
        /\ UNCHANGED <<start, registered, rating, played, won, games, todo>>
        /\ UNCHANGED <<settlements, crashes, failures>>
        /\ n \in registered
        /\ online' = online \union {n}
        /\ cache' = [cache EXCEPT ![n] = rating[n]]
    BY DEF Login, load, tables, counts
  <1>2. TypeOK'
    BY <1>1 DEF TypeOK
  <1>3. PendingIsCached' /\ SaveIsLast' /\ OnlineRegistered'
    BY <1>1 DEF PendingIsCached, SaveIsLast, OnlineRegistered
  <1>4. AheadIsPending'
    BY <1>1, NothingPending DEF AheadIsPending, TypeOK
  <1>5. SavedIsRated'
    BY <1>1 DEF SavedIsRated
  <1> QED
    BY <1>2, <1>3, <1>4, <1>5

LEMMA RegisterInv ==
  ASSUME DatabaseInv, NEW n \in Nicks, Register(n)
  PROVE  DatabaseInv'
  <1> USE DEF DatabaseInv
  <1>1. /\ todo = <<>> /\ todo' = <<>> /\ Len(todo') = 0
        /\ n \notin registered
        /\ UNCHANGED <<start, played, won, games, todo, settlements, crashes, failures>>
        /\ registered' = registered \union {n}
        /\ rating' = [rating EXCEPT ![n] = InitialRating]
        /\ \/ online' = online \union {n} /\ cache' = [cache EXCEPT ![n] = rating'[n]]
           \/ online' = online /\ cache' = cache
    BY DEF Register, load, counts
  <1>2. TypeOK'
    BY <1>1, DatabaseAssumption DEF TypeOK
  <1>3. PendingIsCached' /\ SaveIsLast' /\ OnlineRegistered'
    BY <1>1 DEF PendingIsCached, SaveIsLast, OnlineRegistered
  <1>4. AheadIsPending'
    BY <1>1, NothingPending DEF AheadIsPending, TypeOK, OnlineRegistered
  <1>5. SavedIsRated'
    BY <1>1 DEF SavedIsRated
  <1> QED
    BY <1>2, <1>3, <1>4, <1>5

LEMMA LogoutInv ==
  ASSUME DatabaseInv, NEW n \in Nicks, Logout(n)
  PROVE  DatabaseInv'
  <1>1. /\ UNCHANGED <<start, registered, rating, played, won, games, todo, cache>>
        /\ UNCHANGED <<settlements, crashes, failures>>
        /\ online' = online \ {n}
    BY DEF Logout, tables, counts
  <1> QED
    BY <1>1 DEF DatabaseInv, TypeOK, PendingIsCached, AheadIsPending, SaveIsLast,
                SavedIsRated, OnlineRegistered

LEMMA CrashInv == DatabaseInv /\ Crash => DatabaseInv'
  <1> SUFFICES ASSUME DatabaseInv, Crash PROVE DatabaseInv'
    OBVIOUS
  <1>1. /\ UNCHANGED <<start, registered, rating, played, won, games, cache, settlements, failures>>
        /\ crashes' = crashes + 1 /\ online' = {} /\ todo' = <<>> /\ Len(todo') = 0
    BY DEF Crash, tables
  <1>2. todo' \in Seq(Statements)
    BY <1>1, EmptySeq
  <1> QED
    BY <1>1, <1>2 DEF DatabaseInv, TypeOK, PendingIsCached, AheadIsPending, SaveIsLast,
                      SavedIsRated, OnlineRegistered

-----------------------------------------------------------------------------
(* The end of a game.                                                      *)

LEMMA RateFacts ==
  ASSUME TypeOK, NEW w \in Nicks, NEW l \in Nicks, w # l, rate(w, l)
  PROVE  /\ cache' \in [Nicks -> Int]
         /\ \A n \in Nicks \ {w, l} : cache'[n] = cache[n]
  <1>1. cache[w] - cache[l] \in Int
    BY DEF TypeOK
  <1>2. Gain(cache[w] - cache[l]) \in Int /\ Loss(cache[w] - cache[l]) \in Int
    BY <1>1, GainBounded, LossIsGain DEF K
  <1> DEFINE a == cache[w] + Gain(cache[w] - cache[l])
             b == cache[l] - Loss(cache[w] - cache[l])
  <1>3. a \in Int /\ b \in Int
    BY <1>2 DEF TypeOK
  <1>4. cache' = [cache EXCEPT ![w] = a, ![l] = b]
    BY DEF rate
  <1> HIDE DEF a, b
  <1> QED
    BY <1>3, <1>4 DEF TypeOK

\* The statements of a rated game, of which a fifth saves it or is missing.
LEMMA RatedGameInv ==
  ASSUME DatabaseInv, Settling,
         NEW w \in online, NEW l \in online, w # l, rate(w, l),
         \/ todo' = RatingStatements(w, l, cache'[w], cache'[l])
         \/ todo' = SaveAfter(RatingStatements(w, l, cache'[w], cache'[l]), w)
  PROVE  DatabaseInv'
  <1>1. w \in Nicks /\ l \in Nicks /\ TypeOK
    BY DEF DatabaseInv, TypeOK
  <1>2. cache' \in [Nicks -> Int] /\ \A n \in Nicks \ {w, l} : cache'[n] = cache[n]
    BY <1>1, RateFacts
  <1>3. /\ todo = <<>>
        /\ UNCHANGED <<start, registered, rating, played, won, games, online, crashes, failures>>
        /\ settlements' = settlements + 1
    BY DEF Settling, tables
  <1>4. /\ Len(todo') \in {4, 5}
        /\ todo'[1] = Statement("rating", w, cache'[w])
        /\ todo'[2] = Statement("rating", l, cache'[l])
        /\ todo'[3] = Statement("won", w, 0)
        /\ todo'[4] = Statement("lost", l, 0)
        /\ Len(todo') = 5 => todo'[5] = Statement("save", w, 0)
        /\ \A i \in 1..Len(todo') : i \in 1..4 \/ (i = 5 /\ Len(todo') = 5)
    <2>1. CASE todo' = RatingStatements(w, l, cache'[w], cache'[l])
      BY <2>1 DEF RatingStatements
    <2>2. CASE todo' = SaveAfter(RatingStatements(w, l, cache'[w], cache'[l]), w)
      BY <2>2 DEF SaveAfter, RatingStatements
    <2> QED BY <2>1, <2>2
  <1>5. todo' \in Seq(Statements)
    <2>1. \A op \in {"rating", "won", "lost", "save"}, n \in Nicks, v \in Int :
             Statement(op, n, v) \in Statements
      BY DEF Statement, Statements
    <2>2. /\ Statement("rating", w, cache'[w]) \in Statements
          /\ Statement("rating", l, cache'[l]) \in Statements
          /\ Statement("won", w, 0) \in Statements
          /\ Statement("lost", l, 0) \in Statements
          /\ Statement("save", w, 0) \in Statements
      BY <1>1, <1>2, <2>1
    <2>3. RatingStatements(w, l, cache'[w], cache'[l]) \in Seq(Statements)
      BY <2>2 DEF RatingStatements
    <2>4. SaveAfter(RatingStatements(w, l, cache'[w], cache'[l]), w) \in Seq(Statements)
      BY <2>2, <2>3, AppendProperties DEF SaveAfter
    <2> QED BY <2>3, <2>4
  <1>6. TypeOK'
    <2>1. settlements' \in Nat
      BY <1>1, <1>3 DEF TypeOK
    <2>2. /\ start' \in [Nicks -> Int] /\ rating' \in [Nicks -> Int]
          /\ played' \in [Nicks -> Nat] /\ won' \in [Nicks -> Nat]
          /\ games' \in [Nicks \union {NoWinner} -> Nat]
          /\ registered' \subseteq Nicks /\ online' \subseteq Nicks
          /\ crashes' \in Nat /\ failures' \in Nat
      BY <1>1, <1>3, Zenon DEF TypeOK
    <2> QED
      BY <1>2, <1>5, <2>1, <2>2 DEF TypeOK
  <1>7. PendingIsCached'
    <2> SUFFICES ASSUME NEW i \in 1..Len(todo'), todo'[i].op = "rating"
                 PROVE  todo'[i].who \in Nicks /\ todo'[i].value = cache'[todo'[i].who]
      BY DEF PendingIsCached
    <2>1. i \in {1, 2}
      BY <1>4 DEF Statement
    <2> QED
      BY <1>1, <1>4, <2>1 DEF Statement
  <1>8. AheadIsPending'
    <2> SUFFICES ASSUME failures' = 0, NEW n \in online'
                 PROVE  \/ cache'[n] = rating'[n]
                        \/ \E i \in 1..Len(todo') : todo'[i].op = "rating" /\ todo'[i].who = n
      BY DEF AheadIsPending
    <2>1. CASE n \in {w, l}
      BY <1>4, <2>1 DEF Statement
    <2>2. CASE n \notin {w, l}
      BY <1>1, <1>2, <1>3, <2>2, NothingPending DEF TypeOK
    <2> QED BY <2>1, <2>2
  <1>9. SaveIsLast'
    <2> SUFFICES ASSUME NEW i \in 1..Len(todo'), todo'[i].op = "save"
                 PROVE  /\ i = Len(todo')
                        /\ \E j \in 1..(i - 1) : todo'[j].op = "won" /\ todo'[j].who = todo'[i].who
      BY DEF SaveIsLast
    <2>1. i = 5 /\ Len(todo') = 5
      BY <1>4 DEF Statement
    <2>2. 3 \in 1..(i - 1) /\ todo'[3].op = "won" /\ todo'[3].who = todo'[i].who
      BY <1>4, <2>1 DEF Statement
    <2> QED BY <2>1, <2>2
  <1>10. SavedIsRated' /\ OnlineRegistered'
    BY <1>3 DEF DatabaseInv, SavedIsRated, OnlineRegistered
  <1> QED
    BY <1>6, <1>7, <1>8, <1>9, <1>10 DEF DatabaseInv

LEMMA DrawInv == DatabaseInv /\ Draw => DatabaseInv'
  <1> SUFFICES ASSUME DatabaseInv, Draw PROVE DatabaseInv'
    OBVIOUS
  <1>1. /\ todo = <<>>
        /\ UNCHANGED <<start, registered, rating, played, won, games, online, crashes, failures, cache>>
        /\ settlements' = settlements + 1
    BY DEF Draw, Settling, tables
  <1>2. todo' = <<Statement("save", NoWinner, 0)>>
    BY DEF Draw, SaveAfter
  <1>3. Len(todo') = 1 /\ todo'[1].op = "save" /\ todo'[1].who = NoWinner
    BY <1>2 DEF Statement
  <1>4. todo' \in Seq(Statements)
    <2>1. Statement("save", NoWinner, 0) \in Statements
      BY DEF Statement, Statements
    <2> QED BY <1>2, <2>1
  <1>5. TypeOK'
    BY <1>1, <1>4 DEF DatabaseInv, TypeOK
  <1>6. PendingIsCached' /\ SaveIsLast'
    BY <1>3, DatabaseAssumption DEF PendingIsCached, SaveIsLast
  <1>7. AheadIsPending'
    BY <1>1, NothingPending DEF AheadIsPending
  <1> QED
    BY <1>1, <1>5, <1>6, <1>7 DEF DatabaseInv, SavedIsRated, OnlineRegistered

-----------------------------------------------------------------------------
(* One statement of a settlement.                                          *)

LEMMA TodoTail ==
  ASSUME TypeOK, todo # <<>>, todo' = Tail(todo)
  PROVE  /\ todo' \in Seq(Statements)
         /\ Len(todo) \in Nat /\ Len(todo') = Len(todo) - 1
         /\ \A i \in 1..Len(todo') : i + 1 \in 1..Len(todo) /\ todo'[i] = todo[i + 1]
         /\ 1 \in 1..Len(todo) /\ Head(todo) = todo[1] /\ todo[1] \in Statements
  <1>1. todo \in Seq(Statements) /\ Len(todo) \in Nat \ {0}
    BY EmptySeq DEF TypeOK
  <1>2. /\ todo' \in Seq(Statements)
        /\ Len(todo') = Len(todo) - 1
        /\ \A i \in 1..Len(todo') : todo'[i] = todo[i + 1]
    BY <1>1, HeadTailProperties
  <1>3. 1 \in 1..Len(todo) /\ Head(todo) = todo[1]
    BY <1>1
  <1>4. todo[1] \in Statements
    BY <1>1, <1>3, ElementOfSeq
  <1> QED
    BY <1>1, <1>2, <1>3, <1>4

LEMMA PerformType ==
  ASSUME TypeOK, NEW s \in Statements, Perform(s)
  PROVE  /\ rating' \in [Nicks -> Int]
         /\ played' \in [Nicks -> Nat] /\ won' \in [Nicks -> Nat]
         /\ games' \in [Nicks \union {NoWinner} -> Nat]
  <1>1. s.value \in Int
    BY DEF Statements
  <1>2. rating' \in [Nicks -> Int]
    BY <1>1 DEF TypeOK, Perform
  <1>3. ASSUME NEW S, NEW column \in [S -> Nat], NEW who
        PROVE  [column EXCEPT ![who] = @ + 1] \in [S -> Nat]
    <2>1. CASE who \in S
      BY <1>3, <2>1
    <2>2. CASE who \notin S
      BY <1>3, <2>2
    <2> QED BY <2>1, <2>2
  <1>4. /\ played' \in [Nicks -> Nat] /\ won' \in [Nicks -> Nat]
        /\ games' \in [Nicks \union {NoWinner} -> Nat]
    <2>1. played \in [Nicks -> Nat] /\ won \in [Nicks -> Nat]
          /\ games \in [Nicks \union {NoWinner} -> Nat]
      BY DEF TypeOK
    <2>2. /\ played' = [played EXCEPT ![s.who] = @ + 1] \/ played' = played
          /\ won' = [won EXCEPT ![s.who] = @ + 1] \/ won' = won
          /\ games' = [games EXCEPT ![s.who] = @ + 1] \/ games' = games
      BY Zenon DEF Perform
    <2>3. /\ [played EXCEPT ![s.who] = @ + 1] \in [Nicks -> Nat]
          /\ [won EXCEPT ![s.who] = @ + 1] \in [Nicks -> Nat]
          /\ [games EXCEPT ![s.who] = @ + 1] \in [Nicks \union {NoWinner} -> Nat]
      BY <1>3, <2>1
    <2> QED BY <2>1, <2>2, <2>3, Zenon
  <1> QED
    BY <1>2, <1>4

LEMMA ExecuteInv == DatabaseInv /\ Execute => DatabaseInv'
  <1> SUFFICES ASSUME DatabaseInv, Execute PROVE DatabaseInv'
    OBVIOUS
  <1> DEFINE s == todo[1]
  <1>1. /\ TypeOK /\ todo # <<>> /\ todo' = Tail(todo)
        /\ UNCHANGED <<start, registered, online, cache, settlements, crashes, failures>>
    BY DEF Execute, DatabaseInv, counts
  <1>2. /\ todo' \in Seq(Statements)
        /\ Len(todo) \in Nat /\ Len(todo') = Len(todo) - 1
        /\ \A i \in 1..Len(todo') : i + 1 \in 1..Len(todo) /\ todo'[i] = todo[i + 1]
        /\ 1 \in 1..Len(todo) /\ s \in Statements
        /\ Perform(s)
    BY <1>1, TodoTail DEF Execute
  <1>3. TypeOK'
    BY <1>1, <1>2, PerformType DEF TypeOK
  <1>4. PendingIsCached'
    BY <1>1, <1>2 DEF DatabaseInv, PendingIsCached
  <1>5. OnlineRegistered'
    BY <1>1 DEF DatabaseInv, OnlineRegistered
  <1>6. ASSUME failures = 0, NEW n \in online
        PROVE  \/ cache'[n] = rating'[n]
               \/ \E i \in 1..Len(todo') : todo'[i].op = "rating" /\ todo'[i].who = n
    <2>1. n \in Nicks /\ cache'[n] = cache[n]
      BY <1>1, <1>6 DEF TypeOK
    <2>2. CASE s.op = "rating" /\ s.who = n
      <3>1. rating'[n] = s.value
        BY <1>1, <1>2, <2>1, <2>2 DEF Perform, TypeOK
      <3>2. s.value = cache[n]
        BY <1>2, <2>2 DEF DatabaseInv, PendingIsCached
      <3> QED BY <2>1, <3>1, <3>2
    <2>3. CASE ~(s.op = "rating" /\ s.who = n)
      <3>1. rating'[n] = rating[n]
        BY <1>1, <1>2, <2>1, <2>3 DEF Perform, TypeOK
      <3>2. CASE cache[n] = rating[n]
        BY <2>1, <3>1, <3>2
      <3>3. CASE cache[n] # rating[n]
        <4>1. PICK i \in 1..Len(todo) : todo[i].op = "rating" /\ todo[i].who = n
          BY <1>6, <3>3 DEF DatabaseInv, AheadIsPending
        <4>2. i # 1
          BY <2>3, <4>1
        <4>3. i - 1 \in 1..Len(todo') /\ todo'[i - 1] = todo[i]
          BY <1>2, <4>2
        <4> QED BY <4>1, <4>3
      <3> QED BY <3>2, <3>3
    <2> QED BY <2>2, <2>3
  <1>7. AheadIsPending'
    BY <1>1, <1>6 DEF AheadIsPending
  <1>8. \A n \in Nicks : won'[n] >= won[n] /\ (s.op = "won" /\ s.who = n => won'[n] = won[n] + 1)
    BY <1>1, <1>2 DEF Perform, TypeOK
  <1>9. \A n \in Nicks : IF s.op = "save" /\ s.who = n THEN games'[n] = games[n] + 1
                                                      ELSE games'[n] = games[n]
    BY <1>1, <1>2 DEF Perform, TypeOK
  <1>10. ASSUME failures = 0, NEW n \in Nicks
         PROVE  games'[n] <= won'[n]
    <2>1. games[n] <= won[n] /\ games[n] \in Nat /\ won[n] \in Nat /\ won'[n] \in Nat
      BY <1>1, <1>3, <1>10 DEF DatabaseInv, SavedIsRated, TypeOK
    <2>2. CASE s.op = "save" /\ s.who = n
      <3>1. games[n] + 1 <= won[n] \/ \E j \in 1..(1 - 1) : todo[j].op = "won" /\ todo[j].who = n
        BY <1>2, <1>10, <2>2 DEF DatabaseInv, SaveIsLast
      <3>2. games[n] + 1 <= won[n]
        BY <3>1
      <3> QED BY <1>8, <1>9, <2>1, <2>2, <3>2
    <2>3. CASE ~(s.op = "save" /\ s.who = n)
      BY <1>8, <1>9, <2>1, <2>3
    <2> QED BY <2>2, <2>3
  <1>11. SavedIsRated'
    BY <1>1, <1>10 DEF SavedIsRated
  <1>12. ASSUME failures = 0, NEW i \in 1..Len(todo'), todo'[i].op = "save", todo'[i].who \in Nicks
         PROVE  /\ i = Len(todo')
                /\ \/ games'[todo'[i].who] + 1 <= won'[todo'[i].who]
                   \/ \E j \in 1..(i - 1) : todo'[j].op = "won" /\ todo'[j].who = todo'[i].who
    <2> DEFINE n == todo'[i].who
    <2>1. i + 1 \in 1..Len(todo) /\ todo'[i] = todo[i + 1] /\ n \in Nicks
      BY <1>2, <1>12
    <2>2. /\ i + 1 = Len(todo)
          /\ \/ games[n] + 1 <= won[n]
             \/ \E j \in 1..(i + 1 - 1) : todo[j].op = "won" /\ todo[j].who = n
      BY <1>12, <2>1 DEF DatabaseInv, SaveIsLast
    <2>3. i = Len(todo')
      BY <1>2, <2>2
    <2>4. ~(s.op = "save" /\ s.who = n)
      <3>1. s.op = "save" /\ s.who \in Nicks => 1 = Len(todo)
        BY <1>2, <1>12 DEF DatabaseInv, SaveIsLast
      <3> QED BY <1>2, <2>1, <2>2, <3>1
    <2>5. games'[n] = games[n] /\ games[n] \in Nat /\ won[n] \in Nat /\ won'[n] \in Nat /\ games[n] <= won[n]
      BY <1>1, <1>3, <1>9, <1>12, <2>1, <2>4 DEF TypeOK, DatabaseInv, SavedIsRated
    <2>6. CASE games[n] + 1 <= won[n]
      BY <1>8, <2>1, <2>3, <2>5, <2>6
    <2>7. ASSUME NEW j \in 1..i, todo[j].op = "won", todo[j].who = n
          PROVE  \/ games'[n] + 1 <= won'[n]
                 \/ \E m \in 1..(i - 1) : todo'[m].op = "won" /\ todo'[m].who = n
      <3>1. CASE j = 1
        <4>1. won'[n] = won[n] + 1
          BY <1>8, <2>1, <2>7, <3>1
        <4> QED BY <2>5, <4>1
      <3>2. CASE j # 1
        <4>1. j - 1 \in 1..(i - 1) /\ j - 1 \in 1..Len(todo') /\ todo'[j - 1] = todo[j]
          BY <1>2, <2>3, <3>2
        <4> QED BY <2>7, <4>1
      <3> QED BY <3>1, <3>2
    <2>8. 1..(i + 1 - 1) = 1..i
      BY <1>2
    <2> QED BY <2>2, <2>3, <2>6, <2>7, <2>8
  <1>13. SaveIsLast'
    BY <1>1, <1>12 DEF SaveIsLast
  <1> QED
    BY <1>3, <1>4, <1>5, <1>7, <1>11, <1>13 DEF DatabaseInv

LEMMA StatementFailsInv == DatabaseInv /\ StatementFails => DatabaseInv'
  <1> SUFFICES ASSUME DatabaseInv, StatementFails PROVE DatabaseInv'
    OBVIOUS
  <1>1. /\ TypeOK /\ todo # <<>> /\ todo' = Tail(todo)
        /\ failures' = failures + 1 /\ failures' # 0 /\ failures' \in Nat
        /\ UNCHANGED <<start, registered, rating, played, won, games, online, cache, settlements, crashes>>
    BY DEF StatementFails, DatabaseInv, TypeOK, tables
  <1>2. /\ todo' \in Seq(Statements)
        /\ \A i \in 1..Len(todo') : i + 1 \in 1..Len(todo) /\ todo'[i] = todo[i + 1]
    BY <1>1, TodoTail
  <1>3. TypeOK'
    BY <1>1, <1>2 DEF TypeOK
  <1>4. PendingIsCached'
    BY <1>1, <1>2 DEF DatabaseInv, PendingIsCached
  <1> QED
    BY <1>1, <1>3, <1>4 DEF DatabaseInv, AheadIsPending, SaveIsLast, SavedIsRated, OnlineRegistered

LEMMA NextInv == DatabaseInv /\ [Next]_vars => DatabaseInv'
  <1> SUFFICES ASSUME DatabaseInv, [Next]_vars PROVE DatabaseInv'
    OBVIOUS
  <1>1. CASE UNCHANGED vars
    BY <1>1 DEF vars, tables, counts, DatabaseInv, TypeOK, PendingIsCached, AheadIsPending,
                SaveIsLast, SavedIsRated, OnlineRegistered
  <1>2. ASSUME NEW w \in online, NEW l \in online, w # l, Mate(w, l) \/ Departure(w, l)
        PROVE  DatabaseInv'
    BY <1>2, RatedGameInv DEF Mate, Departure
  <1> QED
    BY <1>1, <1>2, LoginInv, RegisterInv, LogoutInv, DrawInv, ExecuteInv, StatementFailsInv,
       CrashInv DEF Next

THEOREM DatabaseInvariant == Spec => []DatabaseInv
  <1> QED
    BY InitInv, NextInv, PTL DEF Spec

\* What the tables, the sessions and the pending statements hold has its type:
\* ratings stay integers and the statistics never become negative.
THEOREM DatabaseTypes == Spec => []TypeOK
  <1>1. DatabaseInv => TypeOK
    BY DEF DatabaseInv
  <1> QED BY <1>1, DatabaseInvariant, PTL

\* The saved games never run ahead of the winners' statistics, wherever the
\* process ends, because save_game is the last statement of end_game.
THEOREM SavedGamesAreRated == Spec => []SavedIsRated
  <1>1. DatabaseInv => SavedIsRated
    BY DEF DatabaseInv
  <1> QED BY <1>1, DatabaseInvariant, PTL

\* Between two games every session carries the rating that is stored, unless a
\* statement has failed: no crash and no login makes them differ.
THEOREM SessionsCarryStoredRating == Spec => []CachedIsStored
  <1>1. DatabaseInv => CachedIsStored
    BY NothingPending DEF CachedIsStored
  <1> QED BY <1>1, DatabaseInvariant, PTL

\* Both roundings of update_rating are symmetric at every rating difference that
\* two accounts can have.
THEOREM StakesAddUp == Spec => []GainZeroSum
  <1>1. DatabaseInv => GainZeroSum
    <2> SUFFICES ASSUME DatabaseInv, NEW w \in Nicks, NEW l \in Nicks
                 PROVE  /\ Loss(cache[w] - cache[l]) = Gain(cache[w] - cache[l])
                        /\ Loss(cache[w] - cache[l]) + Gain(cache[l] - cache[w]) = K
      BY DEF GainZeroSum
    <2>1. cache[w] \in Int /\ cache[l] \in Int
      BY DEF DatabaseInv, TypeOK
    <2>2. cache[w] - cache[l] \in Int /\ -(cache[w] - cache[l]) = cache[l] - cache[w]
      BY <2>1
    <2>3. Gain(cache[w] - cache[l]) + Gain(-(cache[w] - cache[l])) = K
      BY <2>2, GainZeroSumAlways
    <2>4. Loss(cache[w] - cache[l]) = Gain(cache[w] - cache[l])
      BY <2>2, LossIsGain
    <2> QED BY <2>2, <2>3, <2>4
  <1> QED BY <1>1, DatabaseInvariant, PTL

-----------------------------------------------------------------------------
(* The rating formula, where it is exact.                                  *)

LEMMA Pow4Monotone ==
  ASSUME NEW a \in Nat, NEW b \in Nat, a <= b
  PROVE  Pow4(a) <= Pow4(b)
  <1>1. \A x, y \in Nat : x <= y => x * x <= y * y
    OBVIOUS
  <1>2. \A x \in Nat : x * x \in Nat /\ Pow4(x) = (x * x) * (x * x)
    BY DEF Pow4
  <1> QED
    BY <1>1, <1>2

LEMMA Pow4Values ==
  /\ 10 * Pow4(23) <= Pow4(41) /\ 10 * Pow4(25) > Pow4(39)
  /\ 100 * Pow4(15) <= Pow4(49) /\ 100 * Pow4(17) > Pow4(47)
BY DEF Pow4

\* Each of the 32 thresholds of EloThreshold lies on the side of the difference
\* that the formula says.
LEMMA ThresholdsMatchFormula ==
  ASSUME NEW d \in {0, 100, 200, 400, 800}, NEW g \in 1..K
  PROVE  d <= EloThreshold[g] <=> AtLeastByFormula(d, g)
  <1>1. g \in 1..32 /\ 2 * g - 1 \in Nat /\ 65 - 2 * g \in Nat
    BY DEF K
  <1>2. ASSUME NEW n \in 1..32, g <= n
        PROVE  Pow4(2 * g - 1) <= Pow4(2 * n - 1) /\ Pow4(65 - 2 * n) <= Pow4(65 - 2 * g)
    <2>1. 2 * n - 1 \in Nat /\ 65 - 2 * n \in Nat
      OBVIOUS
    <2> QED
      BY <1>1, <1>2, <2>1, Pow4Monotone
  <1>3. ASSUME NEW n \in 1..32, n <= g
        PROVE  Pow4(2 * n - 1) <= Pow4(2 * g - 1) /\ Pow4(65 - 2 * g) <= Pow4(65 - 2 * n)
    <2>1. 2 * n - 1 \in Nat /\ 65 - 2 * n \in Nat
      OBVIOUS
    <2> QED
      BY <1>1, <1>3, <2>1, Pow4Monotone
  <1>4. \A m \in Nat : Pow4(m) \in Int
    BY DEF Pow4
  <1> DEFINE p == Pow4(2 * g - 1)
             q == Pow4(65 - 2 * g)
  <1>5. p \in Int /\ q \in Int
    BY <1>1, <1>4
  <1>6. CASE d = 0
    <2>1. d <= EloThreshold[g] <=> g <= 16
      BY <1>1, <1>6 DEF EloThreshold
    <2>2. AtLeastByFormula(d, g) <=> g <= 16
      BY <1>1, <1>6 DEF AtLeastByFormula
    <2> QED
      BY <2>1, <2>2
  <1>7. CASE d = 100
    <2>1. d <= EloThreshold[g] <=> g <= 12
      BY <1>1, <1>7 DEF EloThreshold
    <2>2. g <= 12 => p <= Pow4(23) /\ Pow4(41) <= q
      BY <1>2
    <2>3. 13 <= g => Pow4(25) <= p /\ q <= Pow4(39)
      BY <1>3
    <2>4. 10 * p <= q <=> g <= 12
      BY <1>1, <1>5, <2>2, <2>3, <1>4, Pow4Values
    <2> QED
      BY <1>7, <2>1, <2>4 DEF AtLeastByFormula
  <1>8. CASE d = 200
    <2>1. d <= EloThreshold[g] <=> g <= 8
      BY <1>1, <1>8 DEF EloThreshold
    <2>2. g <= 8 => p <= Pow4(15) /\ Pow4(49) <= q
      BY <1>2
    <2>3. 9 <= g => Pow4(17) <= p /\ q <= Pow4(47)
      BY <1>3
    <2>4. 100 * p <= q <=> g <= 8
      BY <1>1, <1>5, <2>2, <2>3, <1>4, Pow4Values
    <2> QED
      BY <1>8, <2>1, <2>4 DEF AtLeastByFormula
  <1>9. CASE d = 400
    <2>1. d <= EloThreshold[g] <=> g <= 3
      BY <1>1, <1>9 DEF EloThreshold
    <2>2. AtLeastByFormula(d, g) <=> g <= 3
      BY <1>1, <1>9 DEF AtLeastByFormula
    <2> QED
      BY <2>1, <2>2
  <1>10. CASE d = 800
    <2>1. d <= EloThreshold[g] <=> FALSE
      BY <1>1, <1>10 DEF EloThreshold
    <2>2. AtLeastByFormula(d, g) <=> FALSE
      BY <1>1, <1>10 DEF AtLeastByFormula
    <2> QED
      BY <2>1, <2>2
  <1> QED
    BY <1>6, <1>7, <1>8, <1>9, <1>10

\* Wherever the formula of update_rating is exact in integers, the points two
\* players with an authorized session play for are those of the formula,
\* whatever games, crashes and logins their ratings come from.
THEOREM StakesAreFormula == Spec => []GainMatchesFormula
  <1>1. GainMatchesFormula
    <2> SUFFICES ASSUME NEW w \in online, NEW l \in online,
                        cache[w] - cache[l] \in {0, 100, 200, 400, 800}
                 PROVE  Gain(cache[w] - cache[l])
                          = Cardinality({g \in 1..K : AtLeastByFormula(cache[w] - cache[l], g)})
      BY DEF GainMatchesFormula
    <2>1. {g \in 1..K : cache[w] - cache[l] <= EloThreshold[g]}
            = {g \in 1..K : AtLeastByFormula(cache[w] - cache[l], g)}
      BY ThresholdsMatchFormula
    <2> QED
      BY <2>1 DEF Gain
  <1> QED
    BY <1>1, PTL

-----------------------------------------------------------------------------
(* How far a settlement has got.                                           *)

\* The k-th statement of the settlement of w's win over l is the next one, and
\* after the four a game may be saved.
AtStage(k, w, l) ==
  /\ w \in online /\ l \in online /\ w # l
  /\ Len(todo) >= 5 - k
  /\ \A i \in 1..(5 - k) : todo[i] = RatingStatements(w, l, cache[w], cache[l])[i + k - 1]
  /\ \A i \in (6 - k)..Len(todo) : todo[i].op = "save"

\* No statement about a player is pending.
Idle == \A i \in 1..Len(todo) : todo[i].op = "save"

AtStages(stages) == \E k \in stages : \E w, l \in Nicks : AtStage(k, w, l)

LEMMA Begin ==
  ASSUME TypeOK, Settling, NEW w \in online, NEW l \in online, w # l,
         \/ todo' = RatingStatements(w, l, cache'[w], cache'[l])
         \/ todo' = SaveAfter(RatingStatements(w, l, cache'[w], cache'[l]), w)
  PROVE  Idle /\ AtStage(1, w, l)'
  <1>1. todo = <<>> /\ online' = online
    BY DEF Settling
  <1> DEFINE R == RatingStatements(w, l, cache'[w], cache'[l])
  <1>2. /\ R[1] = Statement("rating", w, cache'[w]) /\ R[2] = Statement("rating", l, cache'[l])
        /\ R[3] = Statement("won", w, 0) /\ R[4] = Statement("lost", l, 0)
    BY DEF RatingStatements
  <1>3. /\ Len(todo') \in {4, 5}
        /\ todo'[1] = R[1] /\ todo'[2] = R[2] /\ todo'[3] = R[3] /\ todo'[4] = R[4]
        /\ Len(todo') = 5 => todo'[5] = Statement("save", w, 0)
    <2>1. CASE todo' = R
      BY <1>2, <2>1 DEF RatingStatements
    <2>2. CASE todo' = SaveAfter(R, w)
      BY <1>2, <2>2 DEF SaveAfter, RatingStatements
    <2> QED
      BY <2>1, <2>2
  <1> HIDE DEF R
  <1>4. \A i \in 1..4 : todo'[i] = R[i]
    <2>1. \A i \in 1..4 : i = 1 \/ i = 2 \/ i = 3 \/ i = 4
      OBVIOUS
    <2> QED
      BY <1>3, <2>1
  <1>5. \A i \in 5..Len(todo') : todo'[i].op = "save"
    <2>1. \A i \in 5..Len(todo') : i = 5 /\ Len(todo') = 5
      <3>1. PICK n \in {4, 5} : n = Len(todo')
        BY <1>3
      <3>2. \A i \in 5..n : i = 5 /\ n = 5
        OBVIOUS
      <3> QED
        BY <3>1, <3>2
    <2> QED
      BY <1>3, <2>1 DEF Statement
  <1>6. Idle
    BY <1>1 DEF Idle
  <1>7. \A i \in 1..(5 - 1) : todo'[i] = R[i + 1 - 1]
    BY <1>4
  <1>8. Len(todo') >= 5 - 1 /\ 6 - 1 = 5
    BY <1>3
  <1> QED
    BY <1>1, <1>5, <1>6, <1>7, <1>8 DEF AtStage, R

\* A statement is executed, or fails.
LEMMA Advance ==
  ASSUME TypeOK, todo # <<>>, todo' = Tail(todo), UNCHANGED <<online, cache>>
  PROVE  /\ Idle => Idle' /\ Head(todo).op = "save"
         /\ \A k \in 1..4, w, l \in Nicks : AtStage(k, w, l) =>
              /\ Head(todo) = RatingStatements(w, l, cache[w], cache[l])[k]
              /\ IF k = 4 THEN Idle' ELSE AtStage(k + 1, w, l)'
  <1>1. /\ todo' \in Seq(Statements)
        /\ Len(todo) \in Nat /\ Len(todo') = Len(todo) - 1
        /\ \A i \in 1..Len(todo') : i + 1 \in 1..Len(todo) /\ todo'[i] = todo[i + 1]
        /\ 1 \in 1..Len(todo) /\ Head(todo) = todo[1]
    BY TodoTail
  <1>2. Idle => Idle' /\ Head(todo).op = "save"
    BY <1>1 DEF Idle
  <1>3. ASSUME NEW k \in 1..4, NEW w \in Nicks, NEW l \in Nicks, AtStage(k, w, l)
        PROVE  /\ Head(todo) = RatingStatements(w, l, cache[w], cache[l])[k]
               /\ k # 4 => AtStage(k + 1, w, l)'
               /\ k = 4 => Idle'
    <2> DEFINE R == RatingStatements(w, l, cache[w], cache[l])
    <2> HIDE DEF R
    <2>0. R = RatingStatements(w, l, cache[w], cache[l])
      BY DEF R
    <2>1. /\ w \in online /\ l \in online /\ w # l
          /\ Len(todo) >= 5 - k
          /\ \A i \in 1..(5 - k) : todo[i] = R[i + k - 1]
          /\ \A i \in (6 - k)..Len(todo) : todo[i].op = "save"
      BY <1>3 DEF AtStage, R
    <2>2. Head(todo) = R[k]
      <3>1. 1 \in 1..(5 - k) /\ 1 + k - 1 = k
        OBVIOUS
      <3> QED
        BY <1>1, <2>1, <3>1
    <2>3. \A i \in 1..(5 - (k + 1)) : todo'[i] = R[i + (k + 1) - 1]
      <3> SUFFICES ASSUME NEW i \in 1..(5 - (k + 1)) PROVE todo'[i] = R[i + (k + 1) - 1]
        OBVIOUS
      <3>1. i \in 1..Len(todo') /\ i + 1 \in 1..(5 - k) /\ (i + 1) + k - 1 = i + (k + 1) - 1
        BY <1>1, <2>1
      <3>2. todo'[i] = todo[i + 1] /\ todo[i + 1] = R[(i + 1) + k - 1]
        BY <1>1, <2>1, <3>1
      <3> QED
        BY <3>1, <3>2
    <2>4. \A i \in (6 - (k + 1))..Len(todo') : todo'[i].op = "save"
      <3> SUFFICES ASSUME NEW i \in (6 - (k + 1))..Len(todo') PROVE todo'[i].op = "save"
        OBVIOUS
      <3>1. i \in 1..Len(todo') /\ i + 1 \in (6 - k)..Len(todo)
        BY <1>1
      <3> QED
        BY <1>1, <2>1, <3>1
    <2>5. Len(todo') >= 5 - (k + 1)
      BY <1>1, <2>1
    <2>6. AtStage(k + 1, w, l)'
      BY <2>0, <2>1, <2>3, <2>4, <2>5 DEF AtStage
    <2>7. k = 4 => Idle'
      BY <2>4 DEF Idle
    <2> QED
      BY <2>0, <2>2, <2>6, <2>7
  <1> QED
    BY <1>2, <1>3

\* No stage has nothing pending.
LEMMA StagePending ==
  ASSUME todo = <<>>, NEW k \in 1..4, NEW w, NEW l
  PROVE  Idle /\ ~AtStage(k, w, l)
BY DEF Idle, AtStage

-----------------------------------------------------------------------------
(* The statistics.                                                         *)

\* owed is 1 while a winner has been dealt with and the loser has not.
Counted(owed) ==
  /\ Sum(played) >= 2 * Sum(won) - (crashes + failures) - owed
  /\ Sum(played) <= 2 * Sum(won) + failures - owed

CountInv ==
  \/ (Idle \/ AtStages(1..3)) /\ Counted(0)
  \/ AtStages({4}) /\ Counted(1)

LEMMA SumIsOver == \A column : Sum(column) = SumOver(column, Nicks)
BY DEF Sum, SumOver

LEMMA SumsAreIntegers ==
  ASSUME TypeOK
  PROVE  Sum(rating) \in Int /\ Sum(start) \in Int /\ Sum(played) \in Int /\ Sum(won) \in Int
  <1>1. \A column \in [Nicks -> Int] : SumOver(column, Nicks) \in Int
    BY SumSplits, DatabaseAssumption DEF IntOver
  <1>2. played \in [Nicks -> Int] /\ won \in [Nicks -> Int]
    BY DEF TypeOK
  <1> QED
    BY <1>1, <1>2, SumIsOver DEF TypeOK

\* One column gains a point of one account.
LEMMA SumPlusOne ==
  ASSUME NEW column \in [Nicks -> Nat], NEW n \in Nicks
  PROVE  Sum([column EXCEPT ![n] = @ + 1]) = Sum(column) + 1
  <1>1. column \in [Nicks -> Int] /\ column[n] \in Int /\ column[n] + 1 \in Int
    OBVIOUS
  <1>2. PICK h : h = [column EXCEPT ![n] = @ + 1]
    OBVIOUS
  <1>3. h \in [Nicks -> Int] /\ h[n] = column[n] + 1 /\ \A y \in Nicks \ {n} : h[y] = column[y]
    BY <1>2
  <1>4. SumOver(column, Nicks) \in Int /\ SumOver(h, Nicks) = SumOver(column, Nicks) - column[n] + h[n]
    BY <1>1, <1>3, SumUpdate, DatabaseAssumption
  <1>5. SumOver(h, Nicks) = SumOver(column, Nicks) + 1
    BY <1>1, <1>3, <1>4
  <1> QED
    BY <1>2, <1>5, SumIsOver

LEMMA CountSteps ==
  ASSUME DatabaseInv, CountInv, [Next]_vars
  PROVE  CountInv'
  <1>1. TypeOK /\ online \subseteq Nicks /\ crashes \in Nat /\ failures \in Nat
    BY DEF DatabaseInv, TypeOK
  <1>2. Sum(played) \in Int /\ Sum(won) \in Int
    BY <1>1, SumsAreIntegers
  <1>3. ASSUME todo = <<>> PROVE Counted(0) /\ Idle
    BY <1>3, StagePending DEF CountInv, AtStages
  <1>4. ASSUME UNCHANGED <<played, won, crashes, failures>>, Counted(0) PROVE Counted(0)'
    BY <1>4 DEF Counted
  <1>5. ASSUME todo = <<>>, todo' = <<>>, UNCHANGED <<played, won, crashes, failures>>
        PROVE  CountInv'
    <2>1. Idle'
      BY <1>5 DEF Idle
    <2> QED
      BY <1>3, <1>4, <1>5, <2>1 DEF CountInv
  <1>6. ASSUME NEW n \in Nicks, Login(n) \/ Register(n) \/ Logout(n) PROVE CountInv'
    BY <1>5, <1>6 DEF Login, Register, Logout, tables, counts
  <1>7. ASSUME NEW w \in online, NEW l \in online, w # l, Mate(w, l) \/ Departure(w, l)
        PROVE  CountInv'
    <2>1. AtStage(1, w, l)' /\ todo = <<>> /\ UNCHANGED <<played, won, crashes, failures>>
      BY <1>1, <1>7, Begin DEF Mate, Departure, Settling, tables
    <2>2. AtStages(1..3)'
      BY <1>1, <2>1 DEF AtStages
    <2> QED
      BY <1>3, <1>4, <2>1, <2>2 DEF CountInv
  <1>8. ASSUME Draw PROVE CountInv'
    <2>1. todo' = <<Statement("save", NoWinner, 0)>> /\ todo = <<>>
          /\ UNCHANGED <<played, won, crashes, failures>>
      BY <1>8 DEF Draw, SaveAfter, Settling, tables
    <2>2. Len(todo') = 1 /\ todo'[1].op = "save"
      BY <2>1 DEF Statement
    <2>3. Idle'
      BY <2>2 DEF Idle
    <2> QED
      BY <1>3, <1>4, <2>1, <2>3 DEF CountInv
  <1>9. ASSUME Crash PROVE CountInv'
    <2>1. UNCHANGED <<played, won, failures>> /\ crashes' = crashes + 1 /\ todo' = <<>>
      BY <1>9 DEF Crash, tables
    <2>2. Idle'
      BY <2>1 DEF Idle
    <2>3. Counted(0) \/ Counted(1)
      BY DEF CountInv
    <2>4. UNCHANGED <<Sum(played), Sum(won)>>
      BY <2>1
    <2>5. Counted(0)'
      BY <1>1, <1>2, <2>1, <2>3, <2>4 DEF Counted
    <2> QED
      BY <2>2, <2>5 DEF CountInv
  <1>10. ASSUME todo # <<>>, todo' = Tail(todo), UNCHANGED <<online, cache, crashes>>,
                \/ Perform(Head(todo)) /\ failures' = failures
                \/ UNCHANGED <<played, won>> /\ failures' = failures + 1
         PROVE  CountInv'
    <2>1. /\ Idle => Idle' /\ Head(todo).op = "save"
          /\ \A k \in 1..4, w, l \in Nicks : AtStage(k, w, l) =>
               /\ Head(todo) = RatingStatements(w, l, cache[w], cache[l])[k]
               /\ IF k = 4 THEN Idle' ELSE AtStage(k + 1, w, l)'
      BY <1>1, <1>10, Advance
    <2>2. CASE Idle /\ Counted(0)
      <3>1. Idle' /\ Head(todo).op = "save"
        BY <2>1, <2>2
      <3>2. UNCHANGED <<played, won>>
        BY <1>10, <3>1 DEF Perform
      <3>3. UNCHANGED <<Sum(played), Sum(won)>>
        BY <3>2
      <3>4. Counted(0)'
        BY <1>1, <1>2, <1>10, <2>2, <3>3 DEF Counted
      <3> QED
        BY <3>1, <3>4 DEF CountInv
    <2>3. ASSUME NEW k \in 1..2, NEW w \in Nicks, NEW l \in Nicks, AtStage(k, w, l), Counted(0)
          PROVE  CountInv'
      <3>1. Head(todo) = RatingStatements(w, l, cache[w], cache[l])[k] /\ AtStage(k + 1, w, l)'
        BY <2>1, <2>3
      <3>2. Head(todo).op = "rating"
        BY <3>1 DEF RatingStatements, Statement
      <3>3. UNCHANGED <<played, won>>
        BY <1>10, <3>2 DEF Perform
      <3>4. UNCHANGED <<Sum(played), Sum(won)>>
        BY <3>3
      <3>5. Counted(0)'
        BY <1>1, <1>2, <1>10, <2>3, <3>4 DEF Counted
      <3>6. AtStages(1..3)'
        <4>1. k + 1 \in 1..3
          OBVIOUS
        <4> QED
          BY <3>1, <4>1 DEF AtStages
      <3> QED
        BY <3>5, <3>6 DEF CountInv
    <2>4. ASSUME NEW w \in Nicks, NEW l \in Nicks, AtStage(3, w, l), Counted(0)
          PROVE  CountInv'
      <3>1. Head(todo) = RatingStatements(w, l, cache[w], cache[l])[3] /\ AtStage(3 + 1, w, l)'
        BY <2>1, <2>4
      <3>2. Head(todo).op = "won" /\ Head(todo).who = w
        BY <3>1 DEF RatingStatements, Statement
      <3>3. \/ /\ played' = [played EXCEPT ![w] = @ + 1] /\ won' = [won EXCEPT ![w] = @ + 1]
               /\ failures' = failures
            \/ UNCHANGED <<played, won>> /\ failures' = failures + 1
        BY <1>10, <3>2 DEF Perform
      <3>4. \/ /\ Sum(played)' = Sum(played) + 1 /\ Sum(won)' = Sum(won) + 1
               /\ failures' = failures
            \/ UNCHANGED <<Sum(played), Sum(won)>> /\ failures' = failures + 1
        <4>1. played \in [Nicks -> Nat] /\ won \in [Nicks -> Nat]
          BY <1>1 DEF TypeOK
        <4>2. /\ Sum([played EXCEPT ![w] = @ + 1]) = Sum(played) + 1
              /\ Sum([won EXCEPT ![w] = @ + 1]) = Sum(won) + 1
          BY <4>1, SumPlusOne
        <4> QED
          BY <3>3, <4>2
      <3>5. Counted(1)'
        <4>1. CASE Sum(played)' = Sum(played) + 1 /\ Sum(won)' = Sum(won) + 1 /\ failures' = failures
          <5>1. crashes' = crashes
            BY <1>10
          <5> QED
            BY <1>1, <1>2, <2>4, <4>1, <5>1 DEF Counted
        <4>2. CASE UNCHANGED <<Sum(played), Sum(won)>> /\ failures' = failures + 1
          <5>1. crashes' = crashes
            BY <1>10
          <5> QED
            BY <1>1, <1>2, <2>4, <4>2, <5>1 DEF Counted
        <4> QED
          BY <3>4, <4>1, <4>2
      <3>6. AtStages({4})'
        BY <3>1 DEF AtStages
      <3> QED
        BY <3>5, <3>6 DEF CountInv
    <2>5. ASSUME NEW w \in Nicks, NEW l \in Nicks, AtStage(4, w, l), Counted(1)
          PROVE  CountInv'
      <3>1. Head(todo) = RatingStatements(w, l, cache[w], cache[l])[4] /\ Idle'
        BY <2>1, <2>5
      <3>2. Head(todo).op = "lost" /\ Head(todo).who = l
        BY <3>1 DEF RatingStatements, Statement
      <3>3. \/ played' = [played EXCEPT ![l] = @ + 1] /\ won' = won /\ failures' = failures
            \/ UNCHANGED <<played, won>> /\ failures' = failures + 1
        BY <1>10, <3>2 DEF Perform
      <3>4. \/ Sum(played)' = Sum(played) + 1 /\ Sum(won)' = Sum(won) /\ failures' = failures
            \/ UNCHANGED <<Sum(played), Sum(won)>> /\ failures' = failures + 1
        <4>1. played \in [Nicks -> Nat]
          BY <1>1 DEF TypeOK
        <4>2. Sum([played EXCEPT ![l] = @ + 1]) = Sum(played) + 1
          BY <4>1, SumPlusOne
        <4> QED
          BY <3>3, <4>2
      <3>5. Counted(0)'
        <4>1. CASE Sum(played)' = Sum(played) + 1 /\ Sum(won)' = Sum(won) /\ failures' = failures
          <5>1. crashes' = crashes
            BY <1>10
          <5> QED
            BY <1>1, <1>2, <2>5, <4>1, <5>1 DEF Counted
        <4>2. CASE UNCHANGED <<Sum(played), Sum(won)>> /\ failures' = failures + 1
          <5>1. crashes' = crashes
            BY <1>10
          <5> QED
            BY <1>1, <1>2, <2>5, <4>2, <5>1 DEF Counted
        <4> QED
          BY <3>4, <4>1, <4>2
      <3> QED
        BY <3>1, <3>5 DEF CountInv
    <2>6. \A k \in 1..3 : k \in 1..2 \/ k = 3
      OBVIOUS
    <2> QED
      BY <2>2, <2>3, <2>4, <2>5, <2>6 DEF CountInv, AtStages
  <1>11. ASSUME Execute \/ StatementFails PROVE CountInv'
    BY <1>10, <1>11 DEF Execute, StatementFails, counts, tables
  <1>12. ASSUME UNCHANGED vars PROVE CountInv'
    <2>1. UNCHANGED <<played, won, online, cache, todo, crashes, failures>>
      BY <1>12 DEF vars, tables, counts
    <2>2. UNCHANGED <<Sum(played), Sum(won)>>
      BY <2>1
    <2> QED
      BY <2>1, <2>2 DEF CountInv, Counted, Idle, AtStages, AtStage
  <1> QED
    BY <1>6, <1>7, <1>8, <1>9, <1>11, <1>12 DEF Next

\* games_played counts every settled game twice and games_won once.  A crash or
\* a failed statement can leave a win without its loss; a loss is left without
\* its win only by a failed statement: the loser is counted last.
THEOREM LosersAreCounted == Spec => []LoserCounted
  <1>1. Init => CountInv
    <2> SUFFICES ASSUME Init PROVE CountInv
      OBVIOUS
    <2>1. \A n \in Nicks : played[n] = 0 /\ won[n] = 0
      BY DEF Init
    <2>3. Sum(played) = 0 /\ Sum(won) = 0
      BY <2>1, SumZero, SumIsOver, DatabaseAssumption
    <2>4. Idle /\ crashes = 0 /\ failures = 0
      BY DEF Init, Idle
    <2> QED
      BY <2>3, <2>4 DEF CountInv, Counted
  <1>2. DatabaseInv /\ CountInv /\ [Next]_vars => CountInv'
    BY CountSteps
  <1>3. CountInv /\ DatabaseInv => LoserCounted
    <2> SUFFICES ASSUME CountInv, DatabaseInv, todo = <<>> PROVE Counted(0)
      <3>1. DatabaseInv /\ Counted(0) => LoserCounted
        <4> SUFFICES ASSUME DatabaseInv, Counted(0) PROVE LoserCounted
          OBVIOUS
        <4>1. Sum(played) \in Int /\ Sum(won) \in Int /\ crashes \in Nat /\ failures \in Nat
          BY SumsAreIntegers DEF DatabaseInv, TypeOK
        <4> QED
          BY <4>1 DEF Counted, LoserCounted
      <3> QED
        BY <3>1 DEF LoserCounted
    <2> QED
      BY StagePending DEF CountInv, AtStages
  <1> QED
    BY <1>1, <1>2, <1>3, DatabaseInvariant, PTL DEF Spec

-----------------------------------------------------------------------------
(* The rating points.                                                      *)

\* A nickname without an account has the rating its account will start with.
NewcomersStart == \A n \in Nicks \ registered : rating[n] = InitialRating

\* B holds the points each account would have if every statement so far had
\* been executed, as far as its session remembers: it is the session's rating
\* while there is one and the stored one otherwise.  D bounds what the tables are
\* away from B.  The points in B and those at risk in D are paid for by the
\* crashes and the failed statements; slack is what the winner has been dealt
\* and the loser has not been charged yet.
Balance(B, D, slack) ==
  /\ \A n \in Nicks : B[n] <= rating[n] + D[n] /\ rating[n] <= B[n] + D[n]
  /\ Sum(B) + Sum(D) <= Sum(start) + K * (crashes + failures) + slack
  /\ Sum(start) + Sum(D) <= Sum(B) + K * failures - slack

Remembered(B, except) ==
  /\ \A n \in Nicks \ online : B[n] = rating[n]
  /\ \A n \in online \ except : B[n] = cache[n]

Settled(B, D) ==
  (Idle \/ AtStages(3..4)) /\ Remembered(B, {}) /\ Balance(B, D, 0)

WinnerUnpaid(B, D, w, l, gain) ==
  /\ AtStage(1, w, l)
  /\ Remembered(B, {w, l}) /\ B[w] = cache[w] - gain /\ B[l] = cache[l] + gain
  /\ Balance(B, D, 0)

LoserUnpaid(B, D, w, l, gain) ==
  /\ AtStage(2, w, l)
  /\ Remembered(B, {l}) /\ B[l] = cache[l] + gain
  /\ Balance(B, D, gain)

PointsInv ==
  \E B, D \in [Nicks -> Int] :
    \/ Settled(B, D)
    \/ \E w, l \in Nicks, gain \in 0..K : WinnerUnpaid(B, D, w, l, gain) \/ LoserUnpaid(B, D, w, l, gain)

\* A statement about n's rating is dealt with: B moves by delta there, and what
\* n's rating in the table is away from it is at most d.
LEMMA BalanceMoves ==
  ASSUME DatabaseInv, NEW B \in [Nicks -> Int], NEW D \in [Nicks -> Int], NEW slack \in Int,
         Balance(B, D, slack),
         NEW n \in Nicks, NEW b \in Int, NEW d \in Int,
         \A m \in Nicks \ {n} : rating'[m] = rating[m],
         b <= rating'[n] + d /\ rating'[n] <= b + d,
         NEW newSlack \in Int, start' = start, crashes' = crashes, failures' \in Nat,
         NEW paid \in Int, paid = K * (failures' - failures),
         b - B[n] + d - D[n] <= paid + newSlack - slack,
         B[n] - b + d - D[n] <= paid - newSlack + slack
  PROVE  Balance([B EXCEPT ![n] = b], [D EXCEPT ![n] = d], newSlack)'
  <1>1. TypeOK /\ crashes \in Nat /\ failures \in Nat /\ Sum(start) \in Int
    BY SumsAreIntegers DEF DatabaseInv, TypeOK
  <1>2. PICK BB, DD : BB = [B EXCEPT ![n] = b] /\ DD = [D EXCEPT ![n] = d]
    OBVIOUS
  <1>3. /\ BB \in [Nicks -> Int] /\ BB[n] = b /\ \A m \in Nicks \ {n} : BB[m] = B[m]
        /\ DD \in [Nicks -> Int] /\ DD[n] = d /\ \A m \in Nicks \ {n} : DD[m] = D[m]
    BY <1>2
  <1>4. Sum(B) \in Int /\ Sum(BB) = Sum(B) - B[n] + b
    BY <1>3, SumUpdate, SumIsOver, DatabaseAssumption
  <1>5. Sum(D) \in Int /\ Sum(DD) = Sum(D) - D[n] + d
    BY <1>3, SumUpdate, SumIsOver, DatabaseAssumption
  <1>6. \A m \in Nicks : BB[m] <= rating'[m] + DD[m] /\ rating'[m] <= BB[m] + DD[m]
    BY <1>3 DEF Balance
  <1>7. B[n] \in Int /\ D[n] \in Int /\ K = 32
    BY DEF K
  <1>8. Sum(start)' = Sum(start)
    OBVIOUS
  <1>9. Sum(BB) + Sum(DD) <= Sum(start) + K * (crashes + failures') + newSlack
    BY <1>1, <1>4, <1>5, <1>7 DEF Balance
  <1>10. Sum(start) + Sum(DD) <= Sum(BB) + K * failures' - newSlack
    BY <1>1, <1>4, <1>5, <1>7 DEF Balance
  <1>11. Balance(BB, DD, newSlack)'
    BY <1>6, <1>8, <1>9, <1>10 DEF Balance
  <1> QED
    BY <1>2, <1>11

\* What the tables hold is within what B holds and D puts at risk.
LEMMA TablesWithin ==
  ASSUME TypeOK, NEW B \in [Nicks -> Int], NEW D \in [Nicks -> Int], NEW slack, Balance(B, D, slack)
  PROVE  /\ Sum(B) \in Int /\ Sum(D) \in Int /\ Sum(rating) \in Int /\ Sum(start) \in Int
         /\ Sum(rating) <= Sum(B) + Sum(D) /\ Sum(B) <= Sum(rating) + Sum(D)
  <1>1. rating \in [Nicks -> Int]
    BY DEF TypeOK
  <1>2. \A column \in [Nicks -> Int] : SumOver(column, Nicks) \in Int
    BY SumSplits, DatabaseAssumption DEF IntOver
  <1>3. SumOver(rating, Nicks) <= SumOver(B, Nicks) + SumOver(D, Nicks)
    BY <1>1, SumBounded, DatabaseAssumption DEF Balance
  <1>4. SumOver(B, Nicks) <= SumOver(rating, Nicks) + SumOver(D, Nicks)
    BY <1>1, SumBounded, DatabaseAssumption DEF Balance
  <1> QED
    BY <1>2, <1>3, <1>4, SumIsOver, SumsAreIntegers

\* Every session forgets: B becomes what is stored and nothing is at risk.
LEMMA BalanceForgets ==
  ASSUME TypeOK, NEW B \in [Nicks -> Int], NEW D \in [Nicks -> Int], NEW slack \in 0..K,
         Balance(B, D, slack),
         UNCHANGED <<rating, start, failures>>, crashes' = crashes + 1
  PROVE  Balance(rating, [n \in Nicks |-> 0], 0)'
  <1>1. PICK Z : Z = [n \in Nicks |-> 0]
    OBVIOUS
  <1>2. \A n \in Nicks : Z[n] = 0 /\ rating[n] \in Int
    BY <1>1 DEF TypeOK
  <1>3. Sum(Z) = 0
    BY <1>2, SumZero, SumIsOver, DatabaseAssumption
  <1>4. crashes \in Nat /\ failures \in Nat /\ K = 32
    BY DEF TypeOK, K
  <1>5. /\ Sum(B) \in Int /\ Sum(D) \in Int /\ Sum(rating) \in Int /\ Sum(start) \in Int
        /\ Sum(rating) <= Sum(B) + Sum(D) /\ Sum(B) <= Sum(rating) + Sum(D)
    BY TablesWithin
  <1>6. UNCHANGED <<Sum(rating), Sum(start)>>
    OBVIOUS
  <1>7. Sum(rating) + Sum(Z) <= Sum(start) + K * ((crashes + 1) + failures) + 0
    BY <1>3, <1>4, <1>5 DEF Balance
  <1>8. Sum(start) + Sum(Z) <= Sum(rating) + K * failures - 0
    BY <1>3, <1>4, <1>5 DEF Balance
  <1>9. Balance(rating, Z, 0)'
    BY <1>2, <1>6, <1>7, <1>8 DEF Balance
  <1> QED
    BY <1>1, <1>9

LEMMA QuietPoints ==
  ASSUME PointsInv, todo = <<>>
  PROVE  \E B, D \in [Nicks -> Int] : Settled(B, D)
  <1>1. \A w, l : ~AtStage(1, w, l) /\ ~AtStage(2, w, l)
    <2>1. 1 \in 1..4 /\ 2 \in 1..4
      OBVIOUS
    <2> QED
      BY <2>1, StagePending
  <1> QED
    BY <1>1 DEF PointsInv, WinnerUnpaid, LoserUnpaid

\* A session comes or goes: its account's points are the stored ones.
LEMMA SessionPoints ==
  ASSUME DatabaseInv, PointsInv, todo = <<>>, todo' = <<>>, NEW n \in Nicks,
         UNCHANGED <<rating, start, crashes, failures>>,
         online' \ {n} = online \ {n}, \A m \in Nicks \ {n} : cache'[m] = cache[m],
         n \in online' => cache'[n] = rating[n]
  PROVE  PointsInv'
  <1>1. PICK B, D \in [Nicks -> Int] : Settled(B, D)
    BY QuietPoints
  <1>2. /\ rating[n] \in Int /\ 0 \in Int /\ failures \in Nat /\ failures' \in Nat
        /\ B[n] \in Int /\ D[n] \in Int /\ K = 32 /\ online \subseteq Nicks
    BY DEF DatabaseInv, TypeOK, K
  <1>3. Balance(B, D, 0) /\ B[n] <= rating[n] + D[n] /\ rating[n] <= B[n] + D[n]
    BY <1>1 DEF Settled, Balance
  <1>4. Balance([B EXCEPT ![n] = rating[n]], [D EXCEPT ![n] = 0], 0)'
    <2>1. /\ rating[n] - B[n] + 0 - D[n] <= 0 + 0 - 0
          /\ B[n] - rating[n] + 0 - D[n] <= 0 - 0 + 0
          /\ 0 = K * (failures' - failures)
      BY <1>2, <1>3
    <2>2. rating[n] <= rating'[n] + 0 /\ rating'[n] <= rating[n] + 0
      BY <1>2
    <2> QED
      BY <1>2, <1>3, <2>1, <2>2, BalanceMoves
  <1>5. PICK BB, DD \in [Nicks -> Int] : BB = [B EXCEPT ![n] = rating[n]] /\ DD = [D EXCEPT ![n] = 0]
    BY <1>2
  <1>6. Remembered(BB, {})'
    <2>1. ASSUME NEW m \in Nicks \ online' PROVE BB[m] = rating'[m]
      BY <1>1, <1>5, <2>1 DEF Settled, Remembered
    <2>2. ASSUME NEW m \in online' PROVE BB[m] = cache'[m]
      BY <1>1, <1>2, <1>5, <2>2 DEF Settled, Remembered
    <2> QED
      BY <2>1, <2>2 DEF Remembered
  <1>7. Idle'
    BY DEF Idle
  <1>8. Settled(BB, DD)'
    BY <1>4, <1>5, <1>6, <1>7 DEF Settled
  <1> QED
    BY <1>8 DEF PointsInv

LEMMA RatedGamePoints ==
  ASSUME DatabaseInv, PointsInv, Settling,
         NEW w \in online, NEW l \in online, w # l, rate(w, l),
         \/ todo' = RatingStatements(w, l, cache'[w], cache'[l])
         \/ todo' = SaveAfter(RatingStatements(w, l, cache'[w], cache'[l]), w)
  PROVE  PointsInv'
  <1>1. TypeOK /\ w \in Nicks /\ l \in Nicks /\ cache[w] \in Int /\ cache[l] \in Int
        /\ online \subseteq Nicks
    BY DEF DatabaseInv, TypeOK
  <1>2. /\ UNCHANGED <<start, rating, online, crashes, failures>> /\ todo = <<>>
        /\ AtStage(1, w, l)'
    BY <1>1, Begin DEF Settling, tables
  <1>3. PICK B, D \in [Nicks -> Int] : Settled(B, D)
    BY <1>2, QuietPoints
  <1>4. PICK gain \in 0..K : gain = Gain(cache[w] - cache[l])
    BY <1>1, GainBounded
  <1>5. /\ cache'[w] = cache[w] + gain /\ cache'[l] = cache[l] - gain
        /\ \A m \in Nicks \ {w, l} : cache'[m] = cache[m]
    <2>0. Loss(cache[w] - cache[l]) = gain
      BY <1>1, <1>4, LossIsGain
    <2>1. cache' = [cache EXCEPT ![w] = cache[w] + gain, ![l] = cache[l] - gain]
      BY <1>4, <2>0 DEF rate
    <2> QED
      BY <1>1, <2>1 DEF TypeOK
  <1>6. gain \in Int
    BY DEF K
  <1>7. B[w] = cache'[w] - gain /\ B[l] = cache'[l] + gain
    BY <1>1, <1>3, <1>5, <1>6 DEF Settled, Remembered
  <1>8. Remembered(B, {w, l})'
    BY <1>1, <1>2, <1>3, <1>5 DEF Settled, Remembered
  <1>9. Balance(B, D, 0)'
    <2>1. UNCHANGED Sum(start)
      BY <1>2
    <2> QED
      BY <1>2, <1>3, <2>1 DEF Settled, Balance
  <1>10. WinnerUnpaid(B, D, w, l, gain)'
    BY <1>2, <1>7, <1>8, <1>9 DEF WinnerUnpaid
  <1> QED
    BY <1>1, <1>10 DEF PointsInv

LEMMA CrashPoints ==
  ASSUME DatabaseInv, PointsInv, Crash
  PROVE  PointsInv'
  <1>1. /\ TypeOK /\ UNCHANGED <<rating, start, failures>> /\ crashes' = crashes + 1
        /\ online' = {} /\ todo' = <<>>
    BY DEF Crash, tables, DatabaseInv
  <1>2. PICK B, D \in [Nicks -> Int], slack \in 0..K : Balance(B, D, slack)
    <2>1. 0 \in 0..K
      BY DEF K
    <2>2. PICK B, D \in [Nicks -> Int] :
            \/ Settled(B, D)
            \/ \E w, l \in Nicks, gain \in 0..K :
                 WinnerUnpaid(B, D, w, l, gain) \/ LoserUnpaid(B, D, w, l, gain)
      BY DEF PointsInv
    <2>3. \E slack \in 0..K : Balance(B, D, slack)
      BY <2>1, <2>2 DEF Settled, WinnerUnpaid, LoserUnpaid
    <2> QED
      BY <2>3
  <1>3. Balance(rating, [n \in Nicks |-> 0], 0)'
    BY <1>1, <1>2, BalanceForgets
  <1>4. PICK R, Z \in [Nicks -> Int] : R = rating /\ Z = [n \in Nicks |-> 0]
    <2>1. rating \in [Nicks -> Int] /\ [n \in Nicks |-> 0] \in [Nicks -> Int]
      BY <1>1 DEF TypeOK
    <2> QED
      BY <2>1, Zenon
  <1>5. Balance(R, Z, 0)'
    BY <1>1, <1>3, <1>4
  <1>6. Remembered(R, {})' /\ Idle'
    BY <1>1, <1>4 DEF Remembered, Idle
  <1> QED
    BY <1>5, <1>6 DEF PointsInv, Settled

\* The winner's rating is dealt with: executed, or not.
LEMMA WinnerPoints ==
  ASSUME DatabaseInv, NEW B \in [Nicks -> Int], NEW D \in [Nicks -> Int],
         NEW w \in Nicks, NEW l \in Nicks, NEW gain \in 0..K, WinnerUnpaid(B, D, w, l, gain),
         todo' = Tail(todo), UNCHANGED <<start, online, cache, crashes>>,
         \/ Perform(Head(todo)) /\ failures' = failures
         \/ rating' = rating /\ failures' = failures + 1
  PROVE  PointsInv'
  <1>1. /\ AtStage(1, w, l) /\ Balance(B, D, 0) /\ online \subseteq Nicks
        /\ w # l /\ w \in online
        /\ B[w] = cache[w] - gain /\ B[l] = cache[l] + gain /\ Remembered(B, {w, l})
    BY DEF WinnerUnpaid, DatabaseInv, TypeOK, AtStage
  <1>2. Head(todo) = RatingStatements(w, l, cache[w], cache[l])[1] /\ AtStage(2, w, l)'
    <2>1. TypeOK /\ todo # <<>> /\ 1 \in 1..4 /\ 1 + 1 = 2 /\ 1 # 4
      BY <1>1 DEF AtStage, DatabaseInv
    <2> QED
      BY <1>1, <2>1, Advance
  <1>3. Head(todo).op = "rating" /\ Head(todo).who = w /\ Head(todo).value = cache[w]
    BY <1>2 DEF RatingStatements, Statement
  <1>4. /\ cache[w] \in Int /\ rating[w] \in Int /\ B[w] \in Int /\ D[w] \in Int
        /\ failures \in Nat /\ failures + 1 \in Nat /\ rating \in [Nicks -> Int] /\ 0 \in Int
        /\ gain \in Int /\ 0 <= gain /\ gain <= 32
    <2>1. gain \in Int /\ 0 <= gain /\ gain <= 32
      BY DEF K
    <2>2. cache \in [Nicks -> Int] /\ rating \in [Nicks -> Int] /\ failures \in Nat
      BY DEF DatabaseInv, TypeOK
    <2> QED
      BY <2>1, <2>2
  <1>5. B[w] <= rating[w] + D[w] /\ rating[w] <= B[w] + D[w]
    BY <1>1 DEF Balance
  <1>6. PICK c, r, b, d \in Int : c = cache[w] /\ r = rating[w] /\ b = B[w] /\ d = D[w]
    BY <1>4
  <1>7. b <= r + d /\ r <= b + d /\ b = c - gain /\ gain \in Int /\ 0 <= gain /\ gain <= 32
    BY <1>1, <1>4, <1>5, <1>6
  <1>8. PICK e \in Int, paid \in Int :
          /\ \A m \in Nicks \ {w} : rating'[m] = rating[m]
          /\ c <= rating'[w] + e /\ rating'[w] <= c + e
          /\ failures' \in Nat /\ paid = K * (failures' - failures)
          /\ c - b + e - d <= paid + gain - 0
          /\ b - c + e - d <= paid - gain + 0
    <2>1. CASE Perform(Head(todo)) /\ failures' = failures
      <3>1. rating'[w] = c /\ \A m \in Nicks \ {w} : rating'[m] = rating[m]
        BY <1>3, <1>4, <1>6, <2>1 DEF Perform
      <3>2. 0 = K * (failures' - failures) /\ failures' \in Nat
        BY <1>4, <2>1 DEF K
      <3>3. /\ c <= c + 0 /\ 0 \in Int
            /\ c - b + 0 - d <= 0 + gain - 0 /\ b - c + 0 - d <= 0 - gain + 0
        BY <1>7
      <3>4. c <= rating'[w] + 0 /\ rating'[w] <= c + 0
        BY <3>1, <3>3
      <3> QED
        BY <3>1, <3>2, <3>3, <3>4, Zenon
    <2>2. CASE rating' = rating /\ failures' = failures + 1
      <3>1. rating'[w] = r /\ \A m \in Nicks \ {w} : rating'[m] = rating[m]
        BY <1>6, <2>2
      <3>2. 32 = K * (failures' - failures) /\ failures' \in Nat
        BY <1>4, <2>2 DEF K
      <3>3. /\ c <= r + (d + gain) /\ r <= c + (d + gain) /\ d + gain \in Int /\ 32 \in Int
            /\ c - b + (d + gain) - d <= 32 + gain - 0
            /\ b - c + (d + gain) - d <= 32 - gain + 0
        BY <1>7
      <3>4. c <= rating'[w] + (d + gain) /\ rating'[w] <= c + (d + gain)
        BY <3>1, <3>3
      <3> QED
        BY <3>1, <3>2, <3>3, <3>4, Zenon
    <2> QED
      BY <2>1, <2>2
  <1>9. Balance([B EXCEPT ![w] = cache[w]], [D EXCEPT ![w] = e], gain)'
    BY <1>1, <1>4, <1>6, <1>8, BalanceMoves
  <1>10. PICK BB, DD \in [Nicks -> Int] : BB = [B EXCEPT ![w] = cache[w]] /\ DD = [D EXCEPT ![w] = e]
    BY <1>4
  <1>11. BB[l] = cache'[l] + gain /\ Remembered(BB, {l})'
    <2>1. ASSUME NEW m \in Nicks \ online PROVE BB[m] = rating'[m]
      BY <1>1, <1>8, <1>10, <2>1 DEF Remembered
    <2>2. ASSUME NEW m \in online \ {l} PROVE BB[m] = cache[m]
      BY <1>1, <1>10, <2>2 DEF Remembered
    <2>3. BB[l] = cache[l] + gain
      BY <1>1, <1>10
    <2> QED
      BY <2>1, <2>2, <2>3 DEF Remembered
  <1>12. LoserUnpaid(BB, DD, w, l, gain)'
    BY <1>2, <1>9, <1>10, <1>11 DEF LoserUnpaid
  <1> QED
    BY <1>12 DEF PointsInv

\* The loser's rating is dealt with: executed, or not.
LEMMA LoserPoints ==
  ASSUME DatabaseInv, NEW B \in [Nicks -> Int], NEW D \in [Nicks -> Int],
         NEW w \in Nicks, NEW l \in Nicks, NEW gain \in 0..K, LoserUnpaid(B, D, w, l, gain),
         todo' = Tail(todo), UNCHANGED <<start, online, cache, crashes>>,
         \/ Perform(Head(todo)) /\ failures' = failures
         \/ rating' = rating /\ failures' = failures + 1
  PROVE  PointsInv'
  <1>1. /\ AtStage(2, w, l) /\ Balance(B, D, gain) /\ online \subseteq Nicks
        /\ w # l /\ l \in online
        /\ B[l] = cache[l] + gain /\ Remembered(B, {l})
    BY DEF LoserUnpaid, DatabaseInv, TypeOK, AtStage
  <1>2. Head(todo) = RatingStatements(w, l, cache[w], cache[l])[2] /\ AtStage(3, w, l)'
    <2>1. TypeOK /\ todo # <<>> /\ 2 \in 1..4 /\ 2 + 1 = 3 /\ 2 # 4
      BY <1>1 DEF AtStage, DatabaseInv
    <2> QED
      BY <1>1, <2>1, Advance
  <1>3. Head(todo).op = "rating" /\ Head(todo).who = l /\ Head(todo).value = cache[l]
    BY <1>2 DEF RatingStatements, Statement
  <1>4. /\ cache[l] \in Int /\ rating[l] \in Int /\ B[l] \in Int /\ D[l] \in Int
        /\ failures \in Nat /\ failures + 1 \in Nat /\ rating \in [Nicks -> Int] /\ 0 \in Int
        /\ gain \in Int /\ 0 <= gain /\ gain <= 32
    <2>1. gain \in Int /\ 0 <= gain /\ gain <= 32
      BY DEF K
    <2>2. cache \in [Nicks -> Int] /\ rating \in [Nicks -> Int] /\ failures \in Nat
      BY DEF DatabaseInv, TypeOK
    <2> QED
      BY <2>1, <2>2
  <1>5. B[l] <= rating[l] + D[l] /\ rating[l] <= B[l] + D[l]
    BY <1>1 DEF Balance
  <1>6. PICK c, r, b, d \in Int : c = cache[l] /\ r = rating[l] /\ b = B[l] /\ d = D[l]
    BY <1>4
  <1>7. b <= r + d /\ r <= b + d /\ b = c + gain /\ gain \in Int /\ 0 <= gain /\ gain <= 32
    BY <1>1, <1>4, <1>5, <1>6
  <1>8. PICK e \in Int, paid \in Int :
          /\ \A m \in Nicks \ {l} : rating'[m] = rating[m]
          /\ c <= rating'[l] + e /\ rating'[l] <= c + e
          /\ failures' \in Nat /\ paid = K * (failures' - failures)
          /\ c - b + e - d <= paid + 0 - gain
          /\ b - c + e - d <= paid - 0 + gain
    <2>1. CASE Perform(Head(todo)) /\ failures' = failures
      <3>1. rating'[l] = c /\ \A m \in Nicks \ {l} : rating'[m] = rating[m]
        BY <1>3, <1>4, <1>6, <2>1 DEF Perform
      <3>2. 0 = K * (failures' - failures) /\ failures' \in Nat
        BY <1>4, <2>1 DEF K
      <3>3. /\ c <= c + 0 /\ 0 \in Int
            /\ c - b + 0 - d <= 0 + 0 - gain /\ b - c + 0 - d <= 0 - 0 + gain
        BY <1>7
      <3>4. c <= rating'[l] + 0 /\ rating'[l] <= c + 0
        BY <3>1, <3>3
      <3> QED
        BY <3>1, <3>2, <3>3, <3>4, Zenon
    <2>2. CASE rating' = rating /\ failures' = failures + 1
      <3>1. rating'[l] = r /\ \A m \in Nicks \ {l} : rating'[m] = rating[m]
        BY <1>6, <2>2
      <3>2. 32 = K * (failures' - failures) /\ failures' \in Nat
        BY <1>4, <2>2 DEF K
      <3>3. /\ c <= r + (d + gain) /\ r <= c + (d + gain) /\ d + gain \in Int /\ 32 \in Int
            /\ c - b + (d + gain) - d <= 32 + 0 - gain
            /\ b - c + (d + gain) - d <= 32 - 0 + gain
        BY <1>7
      <3>4. c <= rating'[l] + (d + gain) /\ rating'[l] <= c + (d + gain)
        BY <3>1, <3>3
      <3> QED
        BY <3>1, <3>2, <3>3, <3>4, Zenon
    <2> QED
      BY <2>1, <2>2
  <1>9. Balance([B EXCEPT ![l] = cache[l]], [D EXCEPT ![l] = e], 0)'
    BY <1>1, <1>4, <1>6, <1>8, BalanceMoves
  <1>10. PICK BB, DD \in [Nicks -> Int] : BB = [B EXCEPT ![l] = cache[l]] /\ DD = [D EXCEPT ![l] = e]
    BY <1>4
  <1>11. Remembered(BB, {})'
    <2>1. ASSUME NEW m \in Nicks \ online PROVE BB[m] = rating'[m]
      BY <1>1, <1>8, <1>10, <2>1 DEF Remembered
    <2>2. ASSUME NEW m \in online PROVE BB[m] = cache[m]
      BY <1>1, <1>10, <2>2 DEF Remembered
    <2> QED
      BY <2>1, <2>2 DEF Remembered
  <1>12. AtStages(3..4)'
    <2>1. 3 \in 3..4
      OBVIOUS
    <2> QED
      BY <1>2, <2>1 DEF AtStages
  <1>13. Settled(BB, DD)'
    BY <1>9, <1>10, <1>11, <1>12 DEF Settled
  <1> QED
    BY <1>13 DEF PointsInv

\* A statement about the statistics or the games is dealt with.
LEMMA OtherPoints ==
  ASSUME DatabaseInv, NEW B \in [Nicks -> Int], NEW D \in [Nicks -> Int], Settled(B, D),
         todo # <<>>, todo' = Tail(todo), UNCHANGED <<start, online, cache, crashes>>,
         \/ Perform(Head(todo)) /\ failures' = failures
         \/ rating' = rating /\ failures' = failures + 1
  PROVE  PointsInv' /\ rating' = rating
  <1>1. Balance(B, D, 0) /\ Remembered(B, {})
    BY DEF Settled
  <1>2. Head(todo).op # "rating" /\ (Idle \/ AtStages(3..4))'
    <2>1. TypeOK
      BY DEF DatabaseInv
    <2>2. CASE Idle
      BY <2>1, <2>2, Advance
    <2>3. ASSUME NEW k \in 3..4, NEW w \in Nicks, NEW l \in Nicks, AtStage(k, w, l)
          PROVE  Head(todo).op # "rating" /\ (Idle \/ AtStages(3..4))'
      <3>1. k \in 1..4
        OBVIOUS
      <3>2. /\ Head(todo) = RatingStatements(w, l, cache[w], cache[l])[k]
            /\ k = 4 => Idle'
            /\ k # 4 => AtStage(k + 1, w, l)'
        BY <2>1, <2>3, <3>1, Advance
      <3>3. k = 3 \/ k = 4
        OBVIOUS
      <3>4. Head(todo).op # "rating"
        BY <3>2, <3>3 DEF RatingStatements, Statement
      <3>5. k = 3 => AtStages(3..4)'
        <4>1. 3 + 1 \in 3..4
          OBVIOUS
        <4> QED
          BY <3>2, <4>1 DEF AtStages
      <3> QED
        BY <3>2, <3>3, <3>4, <3>5
    <2> QED
      BY <2>2, <2>3 DEF Settled, AtStages
  <1>3. rating' = rating
    BY <1>2 DEF Perform
  <1>4. Remembered(B, {})'
    BY <1>1, <1>3 DEF Remembered
  <1>5. Balance(B, D, 0)'
    <2>1. UNCHANGED Sum(start)
      OBVIOUS
    <2>2. /\ crashes \in Nat /\ failures \in Nat /\ K = 32
          /\ Sum(B) \in Int /\ Sum(D) \in Int /\ Sum(start) \in Int
      BY <1>1, TablesWithin DEF DatabaseInv, TypeOK, K
    <2>3. /\ Sum(B) + Sum(D) <= Sum(start) + K * (crashes + failures') + 0
          /\ Sum(start) + Sum(D) <= Sum(B) + K * failures' - 0
      <3>1. /\ Sum(B) + Sum(D) <= Sum(start) + K * (crashes + failures) + 0
            /\ Sum(start) + Sum(D) <= Sum(B) + K * failures - 0
        BY <1>1 DEF Balance
      <3>2. failures' = failures \/ failures' = failures + 1
        OBVIOUS
      <3>3. Sum(B) + Sum(D) <= Sum(start) + K * (crashes + failures') + 0
        BY <2>2, <3>1, <3>2
      <3>4. Sum(start) + Sum(D) <= Sum(B) + K * failures' - 0
        BY <2>2, <3>1, <3>2
      <3> QED
        BY <3>3, <3>4
    <2> QED
      BY <1>1, <1>3, <2>1, <2>3 DEF Balance
  <1>6. Settled(B, D)'
    BY <1>2, <1>4, <1>5 DEF Settled
  <1> QED
    BY <1>3, <1>6 DEF PointsInv

LEMMA PointsSteps ==
  ASSUME DatabaseInv, NewcomersStart, PointsInv, [Next]_vars
  PROVE  NewcomersStart' /\ PointsInv'
  <1>1. /\ rating \in [Nicks -> Int] /\ online \subseteq registered /\ registered \subseteq Nicks
        /\ online \subseteq Nicks
    BY DEF DatabaseInv, TypeOK, OnlineRegistered
  <1>2. ASSUME NEW n \in Nicks, Login(n) PROVE NewcomersStart' /\ PointsInv'
    <2>1. /\ todo = <<>> /\ todo' = <<>>
          /\ UNCHANGED <<rating, registered, start, crashes, failures>>
          /\ online' = online \union {n} /\ cache' = [cache EXCEPT ![n] = rating[n]]
      BY <1>2 DEF Login, load, tables, counts
    <2>2. cache'[n] = rating[n] /\ \A m \in Nicks \ {n} : cache'[m] = cache[m]
      BY <2>1 DEF DatabaseInv, TypeOK
    <2>3. PointsInv'
      BY <2>1, <2>2, SessionPoints
    <2> QED
      BY <2>1, <2>3 DEF NewcomersStart
  <1>3. ASSUME NEW n \in Nicks, Register(n) PROVE NewcomersStart' /\ PointsInv'
    <2>1. /\ todo = <<>> /\ todo' = <<>> /\ n \notin registered
          /\ UNCHANGED <<start, crashes, failures>>
          /\ registered' = registered \union {n}
          /\ rating' = [rating EXCEPT ![n] = InitialRating]
          /\ \/ online' = online \union {n} /\ cache' = [cache EXCEPT ![n] = rating'[n]]
             \/ online' = online /\ cache' = cache
      BY <1>3 DEF Register, load, counts
    <2>2. rating' = rating
      BY <1>1, <2>1 DEF NewcomersStart
    <2>3. /\ \A m \in Nicks \ {n} : cache'[m] = cache[m]
          /\ n \in online' => cache'[n] = rating[n]
          /\ online' \ {n} = online \ {n}
      BY <1>1, <2>1, <2>2 DEF DatabaseInv, TypeOK
    <2>4. PointsInv'
      BY <2>1, <2>2, <2>3, SessionPoints
    <2> QED
      BY <2>1, <2>2, <2>4 DEF NewcomersStart
  <1>4. ASSUME NEW n \in Nicks, Logout(n) PROVE NewcomersStart' /\ PointsInv'
    <2>1. /\ todo = <<>> /\ todo' = <<>>
          /\ UNCHANGED <<rating, registered, start, crashes, failures, cache>>
          /\ online' = online \ {n}
      BY <1>4 DEF Logout, tables, counts
    <2>2. PointsInv'
      BY <2>1, SessionPoints
    <2> QED
      BY <2>1, <2>2 DEF NewcomersStart
  <1>5. ASSUME NEW w \in online, NEW l \in online, w # l, Mate(w, l) \/ Departure(w, l)
        PROVE  NewcomersStart' /\ PointsInv'
    <2>1. PointsInv'
      BY <1>5, RatedGamePoints DEF Mate, Departure
    <2>2. UNCHANGED <<rating, registered>>
      BY <1>5 DEF Mate, Departure, Settling, tables
    <2> QED
      BY <2>1, <2>2 DEF NewcomersStart
  <1>6. ASSUME Draw PROVE NewcomersStart' /\ PointsInv'
    <2>1. /\ todo' = <<Statement("save", NoWinner, 0)>> /\ todo = <<>>
          /\ UNCHANGED <<rating, registered, start, online, cache, crashes, failures>>
      BY <1>6 DEF Draw, SaveAfter, Settling, tables
    <2>2. Len(todo') = 1 /\ todo'[1].op = "save"
      BY <2>1 DEF Statement
    <2>3. Idle'
      BY <2>2 DEF Idle
    <2>4. PICK B, D \in [Nicks -> Int] : Settled(B, D)
      BY <2>1, QuietPoints
    <2>5. UNCHANGED Sum(start)
      BY <2>1
    <2>6. Settled(B, D)'
      BY <2>1, <2>3, <2>4, <2>5 DEF Settled, Remembered, Balance
    <2> QED
      BY <2>1, <2>6 DEF NewcomersStart, PointsInv
  <1>7. ASSUME Crash PROVE NewcomersStart' /\ PointsInv'
    <2>1. UNCHANGED <<rating, registered>>
      BY <1>7 DEF Crash, tables
    <2> QED
      BY <1>7, <2>1, CrashPoints DEF NewcomersStart
  <1>8. ASSUME todo # <<>>, todo' = Tail(todo), UNCHANGED <<start, registered, online, cache, crashes>>,
               \/ Perform(Head(todo)) /\ failures' = failures
               \/ rating' = rating /\ failures' = failures + 1
        PROVE  NewcomersStart' /\ PointsInv'
    <2>1. PICK B, D \in [Nicks -> Int] :
            \/ Settled(B, D)
            \/ \E w, l \in Nicks, gain \in 0..K :
                 WinnerUnpaid(B, D, w, l, gain) \/ LoserUnpaid(B, D, w, l, gain)
      BY DEF PointsInv
    <2>2. CASE Settled(B, D)
      BY <1>8, <2>2, OtherPoints DEF NewcomersStart
    <2>3. ASSUME NEW w \in Nicks, NEW l \in Nicks, NEW k \in 1..2, AtStage(k, w, l)
          PROVE  NewcomersStart'
      <3>1. TypeOK /\ k \in 1..4 /\ (k = 1 \/ k = 2)
        BY DEF DatabaseInv
      <3>2. Head(todo) = RatingStatements(w, l, cache[w], cache[l])[k]
        BY <1>8, <2>3, <3>1, Advance
      <3>3. Head(todo).who \in {w, l}
        BY <3>1, <3>2 DEF RatingStatements, Statement
      <3>4. Head(todo).who \in registered
        BY <1>1, <2>3, <3>3 DEF AtStage
      <3>5. \A n \in Nicks \ registered : rating'[n] = rating[n]
        BY <1>1, <1>8, <3>4 DEF Perform
      <3> QED
        BY <1>8, <3>5 DEF NewcomersStart
    <2>4. ASSUME NEW w \in Nicks, NEW l \in Nicks, NEW gain \in 0..K, WinnerUnpaid(B, D, w, l, gain)
          PROVE  NewcomersStart' /\ PointsInv'
      <3>1. AtStage(1, w, l) /\ 1 \in 1..2
        BY <2>4 DEF WinnerUnpaid
      <3> QED
        BY <1>8, <2>3, <2>4, <3>1, WinnerPoints
    <2>5. ASSUME NEW w \in Nicks, NEW l \in Nicks, NEW gain \in 0..K, LoserUnpaid(B, D, w, l, gain)
          PROVE  NewcomersStart' /\ PointsInv'
      <3>1. AtStage(2, w, l) /\ 2 \in 1..2
        BY <2>5 DEF LoserUnpaid
      <3> QED
        BY <1>8, <2>3, <2>5, <3>1, LoserPoints
    <2> QED
      BY <2>1, <2>2, <2>4, <2>5
  <1>9. ASSUME Execute \/ StatementFails PROVE NewcomersStart' /\ PointsInv'
    BY <1>8, <1>9 DEF Execute, StatementFails, counts, tables
  <1>10. ASSUME UNCHANGED vars PROVE NewcomersStart' /\ PointsInv'
    <2>1. UNCHANGED <<registered, start, rating, online, cache, todo, crashes, failures>>
      BY <1>10 DEF vars, tables, counts
    <2>2. UNCHANGED Sum(start)
      BY <2>1
    <2>3. \A B, D, slack : Balance(B, D, slack) => Balance(B, D, slack)'
      BY <2>1, <2>2 DEF Balance
    <2>4. \A B, except : Remembered(B, except) => Remembered(B, except)'
      BY <2>1 DEF Remembered
    <2>5. /\ Idle => Idle'
          /\ \A k, w, l : AtStage(k, w, l) => AtStage(k, w, l)'
      BY <2>1 DEF Idle, AtStage
    <2>6. AtStages(3..4) => AtStages(3..4)'
      BY <2>5 DEF AtStages
    <2>7. \A B, D : Settled(B, D) => Settled(B, D)'
      BY <2>3, <2>4, <2>5, <2>6 DEF Settled
    <2>8. \A B, D, w, l, gain : /\ WinnerUnpaid(B, D, w, l, gain) => WinnerUnpaid(B, D, w, l, gain)'
                                /\ LoserUnpaid(B, D, w, l, gain) => LoserUnpaid(B, D, w, l, gain)'
      BY <2>1, <2>3, <2>4, <2>5 DEF WinnerUnpaid, LoserUnpaid
    <2> QED
      BY <2>1, <2>7, <2>8 DEF NewcomersStart, PointsInv
  <1> QED
    BY <1>2, <1>3, <1>4, <1>5, <1>6, <1>7, <1>9, <1>10 DEF Next

\* Rating points appear only where a crash, or a failed statement, has cut a
\* settlement between its winner and its loser, at most K each time; and they
\* vanish only by failed statements: the winner is paid first, and a session
\* that runs ahead of the table stays within what those failures cost.
THEOREM PointsComeFromCrashes == Spec => []PointsAppearOnlyByCrash
  <1>1. Init => NewcomersStart /\ PointsInv
    <2> SUFFICES ASSUME Init PROVE NewcomersStart /\ PointsInv
      OBVIOUS
    <2>1. /\ start \in [Nicks -> Int] /\ rating = start /\ cache = start /\ online = {}
          /\ todo = <<>> /\ crashes = 0 /\ failures = 0
      BY DatabaseAssumption DEF Init
    <2>2. NewcomersStart
      BY DEF Init, NewcomersStart
    <2>3. PICK Z \in [Nicks -> Int] : \A n \in Nicks : Z[n] = 0
      <3>1. [n \in Nicks |-> 0] \in [Nicks -> Int] /\ \A n \in Nicks : [m \in Nicks |-> 0][n] = 0
        OBVIOUS
      <3> QED
        BY <3>1
    <2>4. Sum(Z) = 0
      BY <2>3, SumZero, SumIsOver, DatabaseAssumption
    <2>5. Sum(start) \in Int
      BY <2>1, SumSplits, SumIsOver, DatabaseAssumption DEF IntOver
    <2>6. Balance(start, Z, 0)
      <3>1. \A n \in Nicks : start[n] <= rating[n] + Z[n] /\ rating[n] <= start[n] + Z[n]
        BY <2>1, <2>3
      <3>2. /\ Sum(start) + Sum(Z) <= Sum(start) + K * (crashes + failures) + 0
            /\ Sum(start) + Sum(Z) <= Sum(start) + K * failures - 0
        BY <2>1, <2>4, <2>5 DEF K
      <3> QED
        BY <3>1, <3>2 DEF Balance
    <2>7. Idle /\ Remembered(start, {})
      BY <2>1 DEF Idle, Remembered
    <2> QED
      BY <2>1, <2>2, <2>6, <2>7 DEF PointsInv, Settled
  <1>2. DatabaseInv /\ NewcomersStart /\ PointsInv /\ [Next]_vars => NewcomersStart' /\ PointsInv'
    BY PointsSteps
  <1>3. DatabaseInv /\ PointsInv => PointsAppearOnlyByCrash
    <2> SUFFICES ASSUME DatabaseInv, PointsInv, todo = <<>>
                 PROVE  /\ Sum(rating) >= Sum(start) - K * failures
                        /\ Sum(rating) <= Sum(start) + K * (crashes + failures)
      BY DEF PointsAppearOnlyByCrash
    <2>1. PICK B, D \in [Nicks -> Int] : Settled(B, D)
      BY QuietPoints
    <2>2. Balance(B, D, 0)
      BY <2>1 DEF Settled
    <2>3. /\ Sum(B) \in Int /\ Sum(D) \in Int /\ Sum(rating) \in Int /\ Sum(start) \in Int
          /\ Sum(rating) <= Sum(B) + Sum(D) /\ Sum(B) <= Sum(rating) + Sum(D)
      BY <2>2, TablesWithin DEF DatabaseInv
    <2>4. crashes \in Nat /\ failures \in Nat /\ K = 32
      BY DEF DatabaseInv, TypeOK, K
    <2> QED
      BY <2>2, <2>3, <2>4 DEF Balance
  <1> QED
    BY <1>1, <1>2, <1>3, DatabaseInvariant, PTL DEF Spec
=============================================================================

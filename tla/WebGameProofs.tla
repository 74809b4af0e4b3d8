--------------------------- MODULE WebGameProofs ---------------------------
(***************************************************************************)
(* Proofs about the web clients: whatever is on its way, what a client     *)
(* will believe when it has read all of it agrees with the server, up to   *)
(* the requests the server has not handled.                                *)
(***************************************************************************)
EXTENDS WebGame, FiniteSetTheorems, TLAPS

Kinds ==
  {"queued", "already queued", "match_white", "match_black", "left", "opponent_disconnected",
   "error", "Illegal move", "Not your turn", "move", "game_over", "draw accepted"}
Messages == [type : Kinds, by : Clients \union {NoClient}]
Requests == {"queue", "leave", "move", "offer", "accept", "decline"}
Views == [searching : BOOLEAN, inGame : BOOLEAN, yourTurn : BOOLEAN, moving : BOOLEAN]

WebTyped ==
  /\ view \in [Clients -> Views]
  /\ up \in [Clients -> Seq(Requests)]
  /\ down \in [Clients -> Seq(Messages)]
  /\ queue \subseteq Clients
  /\ game \in [on : BOOLEAN, toMove : Clients \union {NoClient}, offers : SUBSET Clients]
  /\ game.on => game.toMove \in Clients

-----------------------------------------------------------------------------
(* What a flag becomes.                                                    *)

\* A flag that is set by the messages of T and reset by those of F is set once
\* the messages of s have been read.
Becomes(s, T, F, now) ==
  \/ now /\ \A i \in 1 .. Len(s) : s[i] \notin F
  \/ \E i \in 1 .. Len(s) : s[i] \in T /\ \A j \in i + 1 .. Len(s) : s[j] \notin F

LEMMA BecomesEmpty ==
  ASSUME NEW T, NEW F, NEW now
  PROVE  Becomes(<<>>, T, F, now) <=> now
  BY DEF Becomes

LEMMA BecomesAppend ==
  ASSUME NEW s \in Seq(Messages), NEW m \in Messages, NEW T, NEW F, NEW now
  PROVE  Becomes(Append(s, m), T, F, now) <=> m \in T \/ (m \notin F /\ Becomes(s, T, F, now))
  <1> DEFINE n == Len(s)
             a == Append(s, m)
  <1>1. /\ n \in Nat /\ Len(a) = n + 1 /\ a[n + 1] = m
        /\ \A i \in 1 .. n : a[i] = s[i]
    OBVIOUS
  <1> HIDE DEF a, n
  <1>2. ASSUME Becomes(a, T, F, now), m \notin T
        PROVE  m \notin F /\ Becomes(s, T, F, now)
    <2>1. CASE now /\ \A i \in 1 .. Len(a) : a[i] \notin F
      BY <1>1, <2>1 DEF Becomes, n
    <2>2. CASE \E i \in 1 .. Len(a) : a[i] \in T /\ \A j \in i + 1 .. Len(a) : a[j] \notin F
      <3>1. PICK i \in 1 .. Len(a) : a[i] \in T /\ \A j \in i + 1 .. Len(a) : a[j] \notin F
        BY <2>2
      <3>2. i \in 1 .. n /\ n + 1 \in i + 1 .. Len(a)
        BY <1>1, <1>2, <3>1
      <3>3. s[i] \in T /\ m \notin F /\ \A j \in i + 1 .. n : s[j] \notin F
        BY <1>1, <3>1, <3>2
      <3> QED
        BY <3>2, <3>3 DEF Becomes, n
    <2> QED
      BY <1>2, <2>1, <2>2 DEF Becomes
  <1>3. ASSUME m \in T PROVE Becomes(a, T, F, now)
    <2>1. n + 1 \in 1 .. Len(a) /\ \A j \in (n + 1) + 1 .. Len(a) : a[j] \notin F
      BY <1>1
    <2> QED
      BY <1>1, <1>3, <2>1 DEF Becomes
  <1>4. ASSUME m \notin F, Becomes(s, T, F, now) PROVE Becomes(a, T, F, now)
    <2>1. CASE now /\ \A i \in 1 .. n : s[i] \notin F
      BY <1>1, <1>4, <2>1 DEF Becomes
    <2>2. CASE \E i \in 1 .. n : s[i] \in T /\ \A j \in i + 1 .. n : s[j] \notin F
      <3>1. PICK i \in 1 .. n : s[i] \in T /\ \A j \in i + 1 .. n : s[j] \notin F
        BY <2>2
      <3>2. i \in 1 .. Len(a) /\ a[i] \in T /\ \A j \in i + 1 .. Len(a) : a[j] \notin F
        BY <1>1, <1>4, <3>1
      <3> QED
        BY <3>2 DEF Becomes
    <2> QED
      BY <1>4, <2>1, <2>2 DEF Becomes, n
  <1> QED
    BY <1>2, <1>3, <1>4 DEF a

\* Reading the first message is the first step of reading all of them.
LEMMA BecomesTail ==
  ASSUME NEW s \in Seq(Messages), s # <<>>, NEW T, NEW F, T \intersect F = {}, NEW now, NEW then,
         then <=> Head(s) \in T \/ (Head(s) \notin F /\ now)
  PROVE  Becomes(s, T, F, now) <=> Becomes(Tail(s), T, F, then)
  <1> DEFINE n == Len(s)
             t == Tail(s)
             h == Head(s)
  <1>1. /\ n \in Nat /\ n >= 1 /\ Len(t) = n - 1 /\ h = s[1]
        /\ \A i \in 1 .. n - 1 : t[i] = s[i + 1]
    OBVIOUS
  <1> HIDE DEF t, n, h
  <1>2. \A i \in 2 .. n : i - 1 \in 1 .. n - 1 /\ s[i] = t[i - 1]
    BY <1>1
  <1>3. ASSUME Becomes(s, T, F, now) PROVE Becomes(t, T, F, then)
    <2>1. CASE now /\ \A i \in 1 .. n : s[i] \notin F
      <3>1. then /\ \A i \in 1 .. Len(t) : t[i] \notin F
        BY <1>1, <2>1 DEF h
      <3> QED
        BY <3>1 DEF Becomes
    <2>2. CASE \E i \in 1 .. n : s[i] \in T /\ \A j \in i + 1 .. n : s[j] \notin F
      <3>1. PICK i \in 1 .. n : s[i] \in T /\ \A j \in i + 1 .. n : s[j] \notin F
        BY <2>2
      <3>2. CASE i = 1
        <4>1. then
          BY <1>1, <3>1, <3>2 DEF h
        <4>2. \A k \in 1 .. Len(t) : t[k] \notin F
          BY <1>1, <3>1, <3>2
        <4> QED
          BY <4>1, <4>2 DEF Becomes
      <3>3. CASE i # 1
        <4>1. i - 1 \in 1 .. Len(t) /\ t[i - 1] \in T
          BY <1>1, <1>2, <3>1, <3>3
        <4>2. ASSUME NEW k \in (i - 1) + 1 .. Len(t) PROVE t[k] \notin F
          <5>1. k \in 1 .. n - 1 /\ k + 1 \in i + 1 .. n
            BY <1>1, <3>1
          <5>2. t[k] = s[k + 1]
            BY <1>1, <5>1
          <5> QED
            BY <3>1, <5>1, <5>2
        <4> QED
          BY <4>1, <4>2 DEF Becomes
      <3> QED
        BY <3>2, <3>3
    <2> QED
      BY <1>3, <2>1, <2>2 DEF Becomes, n
  <1>4. ASSUME Becomes(t, T, F, then) PROVE Becomes(s, T, F, now)
    <2>1. CASE then /\ \A k \in 1 .. Len(t) : t[k] \notin F
      <3>1. \A i \in 2 .. n : s[i] \notin F
        BY <1>1, <1>2, <2>1
      <3>2. CASE h \in T
        BY <1>1, <3>1, <3>2 DEF Becomes, n
      <3>3. CASE h \notin T
        <4>1. now /\ \A i \in 1 .. n : s[i] \notin F
          BY <1>1, <2>1, <3>1, <3>3 DEF h
        <4> QED
          BY <4>1 DEF Becomes, n
      <3> QED
        BY <3>2, <3>3
    <2>2. CASE \E k \in 1 .. Len(t) : t[k] \in T /\ \A j \in k + 1 .. Len(t) : t[j] \notin F
      <3>1. PICK k \in 1 .. Len(t) : t[k] \in T /\ \A j \in k + 1 .. Len(t) : t[j] \notin F
        BY <2>2
      <3>2. k + 1 \in 1 .. n /\ s[k + 1] \in T
        BY <1>1, <3>1
      <3>3. ASSUME NEW i \in (k + 1) + 1 .. n PROVE s[i] \notin F
        <4>1. i \in 2 .. n /\ i - 1 \in k + 1 .. Len(t)
          BY <1>1, <3>2
        <4> QED
          BY <1>2, <3>1, <4>1
      <3> QED
        BY <3>2, <3>3 DEF Becomes, n
    <2> QED
      BY <1>4, <2>1, <2>2 DEF Becomes
  <1> QED
    BY <1>3, <1>4 DEF t

-----------------------------------------------------------------------------
(* Requests that wait.                                                     *)

Holds(s, r) == \E i \in 1 .. Len(s) : s[i] = r
Asked(c, r) == Holds(up[c], r)

LEMMA HoldsAppend ==
  ASSUME NEW s \in Seq(Requests), NEW q \in Requests, NEW r
  PROVE  Holds(Append(s, q), r) <=> r = q \/ Holds(s, r)
  <1> DEFINE n == Len(s)
             a == Append(s, q)
  <1>1. /\ n \in Nat /\ Len(a) = n + 1 /\ a[n + 1] = q
        /\ \A i \in 1 .. n : a[i] = s[i] /\ i \in 1 .. n + 1
    OBVIOUS
  <1> HIDE DEF a, n
  <1>2. n + 1 \in 1 .. n + 1 /\ \A i \in 1 .. n + 1 : i = n + 1 \/ i \in 1 .. n
    BY <1>1
  <1> QED
    BY <1>1, <1>2 DEF Holds, a, n

LEMMA HoldsTail ==
  ASSUME NEW s \in Seq(Requests), s # <<>>, NEW r
  PROVE  Holds(s, r) <=> r = Head(s) \/ Holds(Tail(s), r)
  <1> DEFINE n == Len(s)
             t == Tail(s)
  <1>1. /\ n \in Nat /\ n >= 1 /\ Len(t) = n - 1 /\ Head(s) = s[1]
        /\ \A i \in 1 .. n - 1 : t[i] = s[i + 1] /\ i + 1 \in 1 .. n
    OBVIOUS
  <1> HIDE DEF t, n
  <1>2. /\ 1 \in 1 .. n
        /\ \A i \in 1 .. n : i = 1 \/ (i - 1 \in 1 .. n - 1 /\ s[i] = t[i - 1])
    BY <1>1
  <1> QED
    BY <1>1, <1>2 DEF Holds, t, n

-----------------------------------------------------------------------------
(* What the handlers do.                                                   *)

\* The other client.
LEMMA OpponentFacts ==
  ASSUME NEW c \in Clients
  PROVE  Opponent(c) \in Clients /\ Opponent(c) # c /\ \A d \in Clients : d = c \/ d = Opponent(c)
  <1>1. IsFiniteSet(Clients) /\ Cardinality(Clients) = 2
    BY ClientsAssumption
  <1>2. IsFiniteSet(Clients \ {c}) /\ Cardinality(Clients \ {c}) = 1
    BY <1>1, FS_RemoveElement
  <1>3. PICK d : Clients \ {c} = {d}
    BY <1>2, FS_Singleton
  <1>4. d \in Clients /\ d # c /\ \A e \in Clients : e = c \/ e = d
    BY <1>3
  <1>5. Opponent(c) \in Clients /\ Opponent(c) # c
    BY <1>4 DEF Opponent
  <1> QED
    BY <1>4, <1>5

LEMMA MsgFacts ==
  ASSUME NEW kind \in Kinds
  PROVE  Msg(kind) \in Messages /\ Msg(kind).type = kind
  BY DEF Msg, Messages

MoveOf(c) == [type |-> "move", by |-> c]

LEMMA MoveOfFacts ==
  ASSUME NEW c \in Clients
  PROVE  MoveOf(c) \in Messages /\ MoveOf(c).type = "move" /\ MoveOf(c).by = c
  BY DEF MoveOf, Messages, Kinds

LEMMA JoinedSeqs ==
  ASSUME NEW s \in Seq(Messages)
  PROVE  /\ s \o <<>> = s
         /\ \A m \in Messages : s \o <<m>> = Append(s, m)
         /\ \A m \in Messages, n \in Messages : s \o <<m, n>> = Append(Append(s, m), n)
  <1>1. \A m \in Messages, n \in Messages : s \o <<m, n>> = Append(Append(s, m), n)
    OBVIOUS
  <1> QED
    BY <1>1

Tells(d, m) == down'[d] = Append(down[d], m)
TellsTwo(d, m, n) == down'[d] = Append(Append(down[d], m), n)
Silent(d) == down'[d] = down[d]
OthersSilent(c) == \A d \in Clients : d # c => Silent(d)

\* The outcomes of a request r of c, one by one.
Queued(c, r) ==
  /\ r = "queue" /\ ~game.on /\ queue = {} /\ queue' = {c} /\ game' = game
  /\ Tells(c, Msg("queued")) /\ OthersSilent(c)

Matched(c, r) ==
  /\ r = "queue" /\ ~game.on /\ queue' = {}
  /\ \E white \in Clients :
       /\ game' = [on |-> TRUE, toMove |-> white, offers |-> {}]
       /\ \A d \in Clients :
            \E m \in {Msg("match_white"), Msg("match_black")} :
              /\ d = white => m = Msg("match_white")
              /\ Tells(d, m) \/ TellsTwo(d, Msg("queued"), m)

Left(c, r) ==
  /\ r = "leave" /\ queue' = queue \ {c} /\ game' = NoGame
  /\ Tells(c, Msg("left"))
  /\ \A d \in Clients :
       d # c => IF game.on THEN Tells(d, Msg("opponent_disconnected")) ELSE Silent(d)

Refused(c, r) ==
  /\ r # "leave" /\ queue' = queue /\ game' = game /\ OthersSilent(c)
  /\ \/ r # "move" /\ Tells(c, Msg("error")) /\ (r = "queue" => game.on)
     \/ r = "queue" /\ c \in queue /\ Tells(c, Msg("already queued"))
     \/ r = "move" /\ ~game.on /\ Tells(c, Msg("error"))
     \/ r = "move" /\ game.toMove # c /\ Tells(c, Msg("Not your turn"))
     \/ r = "move" /\ Tells(c, Msg("Illegal move"))

Played(c, r) ==
  /\ r = "move" /\ game.on /\ game.toMove = c /\ queue' = queue
  /\ game' = [game EXCEPT !.toMove = Opponent(c)]
  /\ \A d \in Clients : Tells(d, MoveOf(c))

Over(c, r) ==
  /\ r \notin {"queue", "leave"} /\ game.on /\ queue' = queue /\ game' = NoGame
  /\ \A d \in Clients :
       \/ TellsTwo(d, MoveOf(c), Msg("game_over"))
       \/ TellsTwo(d, Msg("game_over"), Msg("draw accepted"))
       \/ Tells(d, Msg("game_over"))

Noted(c, r) ==
  /\ r \notin {"queue", "leave", "move"} /\ game.on /\ queue' = queue
  /\ game' \in [on : {TRUE}, toMove : {game.toMove}, offers : SUBSET Clients]
  /\ \A d \in Clients : Silent(d)

Outcomes(c, r) ==
  \/ Queued(c, r) \/ Matched(c, r) \/ Left(c, r) \/ Refused(c, r)
  \/ Played(c, r) \/ Over(c, r) \/ Noted(c, r)

\* What the three ways to answer mean for one client.
LEMMA AnswerFacts ==
  ASSUME WebTyped, NEW answers, Answer(answers), NEW d \in Clients
  PROVE  /\ answers[d] = <<>> => Silent(d)
         /\ \A m \in Messages : answers[d] = <<m>> => Tells(d, m)
         /\ \A m \in Messages, n \in Messages : answers[d] = <<m, n>> => TellsTwo(d, m, n)
  <1>1. down[d] \in Seq(Messages) /\ down'[d] = down[d] \o answers[d]
    BY DEF WebTyped, Answer
  <1>2. PICK s \in Seq(Messages) : s = down[d]
    BY <1>1
  <1>3. answers[d] = <<>> => Silent(d)
    BY <1>1, <1>2, JoinedSeqs DEF Silent
  <1>4. ASSUME NEW m \in Messages, answers[d] = <<m>> PROVE Tells(d, m)
    <2>1. s \o <<m>> = Append(s, m)
      BY JoinedSeqs
    <2> QED
      BY <1>1, <1>2, <1>4, <2>1 DEF Tells
  <1>5. ASSUME NEW m \in Messages, NEW n \in Messages, answers[d] = <<m, n>> PROVE TellsTwo(d, m, n)
    <2>1. s \o <<m, n>> = Append(Append(s, m), n)
      BY JoinedSeqs
    <2> QED
      BY <1>1, <1>2, <1>5, <2>1 DEF TellsTwo
  <1> QED
    BY <1>3, <1>4, <1>5

LEMMA OnlyFacts ==
  ASSUME WebTyped, NEW c \in Clients, NEW m \in Messages, Answer(Only(c, <<m>>))
  PROVE  Tells(c, m) /\ OthersSilent(c)
  <1>1. \A d \in Clients : Only(c, <<m>>)[d] = IF d = c THEN <<m>> ELSE <<>>
    BY DEF Only
  <1> HIDE DEF Only
  <1>2. Tells(c, m)
    BY <1>1, AnswerFacts
  <1>3. ASSUME NEW d \in Clients, d # c PROVE Silent(d)
    BY <1>1, <1>3, AnswerFacts
  <1> QED
    BY <1>2, <1>3 DEF OthersSilent

LEMMA QueueOutcomes ==
  ASSUME WebTyped, NEW c \in Clients, handle_queue(c)
  PROVE  Outcomes(c, "queue")
  <1>1. CASE game.on
    <2>1. Answer(Only(c, <<Msg("error")>>)) /\ queue' = queue /\ game' = game
      BY <1>1, Zenon DEF handle_queue
    <2>2. Msg("error") \in Messages
      BY MsgFacts DEF Kinds
    <2> QED
      BY <1>1, <2>1, <2>2, OnlyFacts DEF Outcomes, Refused
  <1>2. CASE ~game.on /\ c \in queue
    <2>1. Answer(Only(c, <<Msg("already queued")>>)) /\ queue' = queue /\ game' = game
      BY <1>2, Zenon DEF handle_queue
    <2>2. Msg("already queued") \in Messages
      BY MsgFacts DEF Kinds
    <2> QED
      BY <1>2, <2>1, <2>2, OnlyFacts DEF Outcomes, Refused
  <1>3. CASE ~game.on /\ c \notin queue /\ queue = {}
    <2>1. queue' = {c} /\ Answer(Only(c, <<Msg("queued")>>)) /\ game' = game
      BY <1>3, Zenon DEF handle_queue
    <2>2. Msg("queued") \in Messages
      BY MsgFacts DEF Kinds
    <2> QED
      BY <1>3, <2>1, <2>2, OnlyFacts DEF Outcomes, Queued
  <1>4. CASE ~game.on /\ c \notin queue /\ queue # {}
    <2> DEFINE Met(white) ==
          [d \in Clients |->
             IF d = c
               THEN <<Msg("queued"), Msg(IF d = white THEN "match_white" ELSE "match_black")>>
               ELSE <<Msg(IF d = white THEN "match_white" ELSE "match_black")>>]
    <2>1. \E white \in Clients :
            /\ queue' = {} /\ game' = [on |-> TRUE, toMove |-> white, offers |-> {}]
            /\ Answer(Met(white))
      BY <1>4, Zenon DEF handle_queue
    <2>2. PICK white \in Clients :
            /\ queue' = {} /\ game' = [on |-> TRUE, toMove |-> white, offers |-> {}]
            /\ Answer(Met(white))
      BY <2>1
    <2>3. /\ Msg("queued") \in Messages /\ Msg("match_white") \in Messages
          /\ Msg("match_black") \in Messages
      BY MsgFacts DEF Kinds
    <2>4. ASSUME NEW d \in Clients
          PROVE  \E m \in {Msg("match_white"), Msg("match_black")} :
                   /\ d = white => m = Msg("match_white")
                   /\ Tells(d, m) \/ TellsTwo(d, Msg("queued"), m)
      <3> DEFINE m == Msg(IF d = white THEN "match_white" ELSE "match_black")
      <3>1. m \in {Msg("match_white"), Msg("match_black")} /\ (d = white => m = Msg("match_white"))
        OBVIOUS
      <3>2. m \in Messages
        BY <2>3, <3>1
      <3>3. Met(white)[d] = IF d = c THEN <<Msg("queued"), m>> ELSE <<m>>
        OBVIOUS
      <3> HIDE DEF m, Met
      <3>4. CASE d = c
        <4>1. Met(white)[d] = <<Msg("queued"), m>>
          BY <3>3, <3>4
        <4>2. TellsTwo(d, Msg("queued"), m)
          BY <2>2, <2>3, <3>2, <4>1, AnswerFacts
        <4> QED
          BY <3>1, <4>2
      <3>5. CASE d # c
        <4>1. Met(white)[d] = <<m>>
          BY <3>3, <3>5
        <4>2. Tells(d, m)
          BY <2>2, <3>2, <4>1, AnswerFacts
        <4> QED
          BY <3>1, <4>2
      <3> QED
        BY <3>4, <3>5
    <2> QED
      BY <1>4, <2>2, <2>4 DEF Outcomes, Matched
  <1> QED
    BY <1>1, <1>2, <1>3, <1>4

LEMMA LeaveOutcomes ==
  ASSUME WebTyped, NEW c \in Clients, handle_leave(c)
  PROVE  Outcomes(c, "leave")
  <1> DEFINE answers ==
        Both(c, <<Msg("left")>>, IF game.on THEN <<Msg("opponent_disconnected")>> ELSE <<>>)
  <1>1. queue' = queue \ {c} /\ game' = NoGame /\ Answer(answers)
    BY DEF handle_leave
  <1>2. \A d \in Clients :
          answers[d] = IF d = c THEN <<Msg("left")>>
                       ELSE IF game.on THEN <<Msg("opponent_disconnected")>> ELSE <<>>
    BY DEF Both
  <1>3. Msg("left") \in Messages /\ Msg("opponent_disconnected") \in Messages
    BY MsgFacts DEF Kinds
  <1> HIDE DEF answers
  <1>4. Tells(c, Msg("left"))
    BY <1>1, <1>2, <1>3, AnswerFacts
  <1>5. ASSUME NEW d \in Clients, d # c
        PROVE  IF game.on THEN Tells(d, Msg("opponent_disconnected")) ELSE Silent(d)
    BY <1>1, <1>2, <1>3, <1>5, AnswerFacts
  <1> QED
    BY <1>1, <1>4, <1>5 DEF Outcomes, Left

LEMMA MoveOutcomes ==
  ASSUME WebTyped, NEW c \in Clients, handle_move(c)
  PROVE  Outcomes(c, "move")
  <1>1. /\ Msg("error") \in Messages /\ Msg("Not your turn") \in Messages
        /\ Msg("Illegal move") \in Messages /\ Msg("game_over") \in Messages
        /\ MoveOf(c) \in Messages
    BY MsgFacts, MoveOfFacts DEF Kinds
  <1>2. queue' = queue
    BY DEF handle_move
  <1>3. CASE ~game.on
    <2>1. Answer(Only(c, <<Msg("error")>>)) /\ game' = game
      BY <1>3 DEF handle_move
    <2> QED
      BY <1>1, <1>2, <1>3, <2>1, OnlyFacts DEF Outcomes, Refused
  <1>4. CASE game.on /\ game.toMove # c
    <2>1. Answer(Only(c, <<Msg("Not your turn")>>)) /\ game' = game
      BY <1>4 DEF handle_move
    <2> QED
      BY <1>1, <1>2, <1>4, <2>1, OnlyFacts DEF Outcomes, Refused
  <1>5. CASE game.on /\ game.toMove = c
    <2>1. \/ Answer(Only(c, <<Msg("Illegal move")>>)) /\ game' = game
          \/ /\ Answer([d \in Clients |-> <<MoveOf(c)>>])
             /\ game' = [game EXCEPT !.toMove = Opponent(c)]
          \/ Answer([d \in Clients |-> <<MoveOf(c), Msg("game_over")>>]) /\ game' = NoGame
      BY <1>5 DEF handle_move, MoveOf
    <2>2. CASE Answer(Only(c, <<Msg("Illegal move")>>)) /\ game' = game
      BY <1>1, <1>2, <2>2, OnlyFacts DEF Outcomes, Refused
    <2>3. CASE /\ Answer([d \in Clients |-> <<MoveOf(c)>>])
               /\ game' = [game EXCEPT !.toMove = Opponent(c)]
      <3> DEFINE answers == [d \in Clients |-> <<MoveOf(c)>>]
      <3>1. Answer(answers) /\ \A d \in Clients : answers[d] = <<MoveOf(c)>>
        BY <2>3
      <3> HIDE DEF answers
      <3>2. \A d \in Clients : Tells(d, MoveOf(c))
        BY <1>1, <3>1, AnswerFacts
      <3> QED
        BY <1>2, <1>5, <2>3, <3>2 DEF Outcomes, Played
    <2>4. CASE Answer([d \in Clients |-> <<MoveOf(c), Msg("game_over")>>]) /\ game' = NoGame
      <3> DEFINE answers == [d \in Clients |-> <<MoveOf(c), Msg("game_over")>>]
      <3>1. Answer(answers) /\ \A d \in Clients : answers[d] = <<MoveOf(c), Msg("game_over")>>
        BY <2>4
      <3> HIDE DEF answers
      <3>2. \A d \in Clients : TellsTwo(d, MoveOf(c), Msg("game_over"))
        BY <1>1, <3>1, AnswerFacts
      <3> QED
        BY <1>2, <1>5, <2>4, <3>2 DEF Outcomes, Over
    <2> QED
      BY <2>1, <2>2, <2>3, <2>4
  <1> QED
    BY <1>3, <1>4, <1>5

LEMMA DrawOutcomes ==
  ASSUME WebTyped, NEW c \in Clients, NEW r \in {"offer", "accept", "decline"}, handle_draw(c, r)
  PROVE  Outcomes(c, r)
  <1>1. /\ Msg("error") \in Messages /\ Msg("game_over") \in Messages
        /\ Msg("draw accepted") \in Messages
    BY MsgFacts DEF Kinds
  <1>2. queue' = queue
    BY DEF handle_draw
  <1>3. CASE Answer(Only(c, <<Msg("error")>>)) /\ game' = game
    BY <1>1, <1>2, <1>3, OnlyFacts DEF Outcomes, Refused
  <1>4. CASE game.on /\ r = "offer"
    <2>1. game' = [game EXCEPT !.offers = @ \union {c}] /\ down' = down
      BY <1>4 DEF handle_draw
    <2>2. game' \in [on : {TRUE}, toMove : {game.toMove}, offers : SUBSET Clients]
      BY <1>4, <2>1 DEF WebTyped
    <2> QED
      BY <1>2, <1>4, <2>1, <2>2 DEF Outcomes, Noted, Silent
  <1>5. CASE game.on /\ r = "accept" /\ Opponent(c) \in game.offers
    <2> DEFINE answers == Both(c, <<Msg("game_over"), Msg("draw accepted")>>, <<Msg("game_over")>>)
    <2>1. game' = NoGame /\ Answer(answers)
      BY <1>5 DEF handle_draw
    <2>2. \A d \in Clients : answers[d] = IF d = c THEN <<Msg("game_over"), Msg("draw accepted")>>
                                          ELSE <<Msg("game_over")>>
      BY DEF Both
    <2> HIDE DEF answers
    <2>3. ASSUME NEW d \in Clients
          PROVE  \/ TellsTwo(d, Msg("game_over"), Msg("draw accepted"))
                 \/ Tells(d, Msg("game_over"))
      BY <1>1, <2>1, <2>2, AnswerFacts
    <2> QED
      BY <1>2, <1>5, <2>1, <2>3 DEF Outcomes, Over
  <1>6. CASE game.on /\ r = "decline" /\ Opponent(c) \in game.offers
    <2>1. game' = [game EXCEPT !.offers = @ \ {Opponent(c)}] /\ down' = down
      BY <1>6 DEF handle_draw
    <2>2. game' \in [on : {TRUE}, toMove : {game.toMove}, offers : SUBSET Clients]
      BY <1>6, <2>1 DEF WebTyped
    <2> QED
      BY <1>2, <1>6, <2>1, <2>2 DEF Outcomes, Noted, Silent
  <1> QED
    BY <1>3, <1>4, <1>5, <1>6 DEF handle_draw

Served(c) == up[c] # <<>> /\ up' = [up EXCEPT ![c] = Tail(@)] /\ view' = view

LEMMA HandleOutcomes ==
  ASSUME WebTyped, NEW c \in Clients, Handle(c)
  PROVE  Served(c) /\ Head(up[c]) \in Requests /\ Outcomes(c, Head(up[c]))
  <1> DEFINE r == Head(up[c])
  <1>1. Served(c)
    BY DEF Handle, Served
  <1>2. r \in Requests
    BY <1>1 DEF Served, WebTyped
  <1>3. CASE r = "queue"
    <2>1. handle_queue(c)
      BY <1>3, Zenon DEF Handle
    <2> QED
      BY <1>1, <1>2, <1>3, <2>1, QueueOutcomes
  <1>4. CASE r = "leave"
    <2>1. handle_leave(c)
      BY <1>4, Zenon DEF Handle
    <2> QED
      BY <1>1, <1>2, <1>4, <2>1, LeaveOutcomes
  <1>5. CASE r = "move"
    <2>1. handle_move(c)
      BY <1>5, Zenon DEF Handle
    <2> QED
      BY <1>1, <1>2, <1>5, <2>1, MoveOutcomes
  <1>6. CASE r \notin {"queue", "leave", "move"}
    <2>1. handle_draw(c, r)
      BY <1>6, Zenon DEF Handle
    <2>2. r \in {"offer", "accept", "decline"}
      BY <1>2, <1>6 DEF Requests
    <2> QED
      BY <1>1, <1>2, <2>1, <2>2, DrawOutcomes
  <1> QED
    BY <1>3, <1>4, <1>5, <1>6

-----------------------------------------------------------------------------
(* What a client believes.                                                 *)

Of(kinds) == {m \in Messages : m.type \in kinds}

\* The messages that set and reset each flag.
Opens == Of({"match_white", "match_black"})
Closes == Of({"left", "game_over", "opponent_disconnected", "draw accepted"})
Yours(c) ==
  {m \in Messages : \/ m.type \in {"match_white", "Illegal move", "Not your turn"}
                    \/ m.type = "move" /\ ~IsOwn(c, m.by)}
NotYours(c) ==
  {m \in Messages : \/ m.type \in {"match_black", "left", "game_over", "opponent_disconnected"}
                    \/ m.type = "move" /\ IsOwn(c, m.by)}
Unlocks == Of(Kinds \ {"queued", "already queued"})

LEMMA FlagSets ==
  /\ Opens \intersect Closes = {} /\ \A c \in Clients : Yours(c) \intersect NotYours(c) = {}
  BY DEF Opens, Closes, Of, Yours, NotYours

LEMMA ShownFacts ==
  ASSUME NEW c \in Clients, NEW v \in Views, NEW m \in Messages, NEW w, w = Shown(c, v, m)
  PROVE  /\ w \in Views
         /\ w.inGame <=> m \in Opens \/ (m \notin Closes /\ v.inGame)
         /\ w.searching <=> m \notin Opens \union Closes /\ v.searching
         /\ w.yourTurn <=> m \in Yours(c) \/ (m \notin NotYours(c) /\ v.yourTurn)
         /\ w.moving <=> m \notin Unlocks /\ v.moving
  <1>1. m.type \in Kinds
    BY DEF Messages
  <1>2. CASE m.type \in {"left", "game_over", "opponent_disconnected"}
    <2>1. w = Idle
      BY <1>2, Zenon DEF Shown
    <2>2. /\ w \in Views /\ w.inGame = FALSE /\ w.searching = FALSE
          /\ w.yourTurn = FALSE /\ w.moving = FALSE
      BY <2>1 DEF Idle, Views
    <2>3. m \in Closes /\ m \notin Opens /\ m \in NotYours(c) /\ m \notin Yours(c) /\ m \in Unlocks
      BY <1>2 DEF Opens, Closes, Yours, NotYours, Unlocks, Of, Kinds
    <2> QED
      BY <2>2, <2>3
  <1>3. CASE m.type = "draw accepted"
    <2>1. m.type \notin {"left", "game_over", "opponent_disconnected"}
      BY <1>3
    <2>2. w = [v EXCEPT !.inGame = FALSE, !.searching = FALSE, !.moving = FALSE]
      BY <1>3, <2>1, Zenon DEF Shown
    <2> QED
      BY <1>3, <2>2 DEF Views, Opens, Closes, Yours, NotYours, Unlocks, Of, Kinds
  <1>4. CASE m.type = "match_white"
    <2>1. /\ m.type \notin {"left", "game_over", "opponent_disconnected"}
          /\ m.type # "draw accepted"
      BY <1>4
    <2>2. w = [Idle EXCEPT !.inGame = TRUE, !.yourTurn = TRUE]
      BY <1>4, <2>1, Zenon DEF Shown
    <2> QED
      BY <1>4, <2>2 DEF Idle, Views, Opens, Closes, Yours, NotYours, Unlocks, Of, Kinds
  <1>5. CASE m.type = "match_black"
    <2>1. /\ m.type \notin {"left", "game_over", "opponent_disconnected"}
          /\ m.type # "draw accepted" /\ m.type # "match_white"
      BY <1>5
    <2>2. w = [Idle EXCEPT !.inGame = TRUE]
      BY <1>5, <2>1, Zenon DEF Shown
    <2> QED
      BY <1>5, <2>2 DEF Idle, Views, Opens, Closes, Yours, NotYours, Unlocks, Of, Kinds
  <1>6. CASE m.type = "move"
    <2>1. /\ m.type \notin {"left", "game_over", "opponent_disconnected"}
          /\ m.type # "draw accepted" /\ m.type # "match_white" /\ m.type # "match_black"
      BY <1>6
    <2>2. w = [v EXCEPT !.yourTurn = ~IsOwn(c, m.by), !.moving = FALSE]
      BY <1>6, <2>1, Zenon DEF Shown
    <2>3. /\ w \in Views /\ w.inGame = v.inGame /\ w.searching = v.searching /\ w.moving = FALSE
          /\ w.yourTurn <=> ~IsOwn(c, m.by)
      BY <2>2, ClientsAssumption DEF Views, IsOwn
    <2>4. /\ m \notin Opens \union Closes /\ m \in Unlocks
          /\ m \in Yours(c) <=> ~IsOwn(c, m.by)
          /\ m \in NotYours(c) <=> IsOwn(c, m.by)
      BY <1>6 DEF Opens, Closes, Yours, NotYours, Unlocks, Of, Kinds
    <2> QED
      BY <2>3, <2>4
  <1>7. CASE m.type \in {"Illegal move", "Not your turn"}
    <2>1. /\ m.type \notin {"left", "game_over", "opponent_disconnected"}
          /\ m.type # "draw accepted" /\ m.type # "match_white" /\ m.type # "match_black"
          /\ m.type # "move"
      BY <1>7
    <2>2. w = [v EXCEPT !.moving = FALSE, !.yourTurn = TRUE]
      BY <1>7, <2>1, Zenon DEF Shown
    <2> QED
      BY <1>7, <2>2 DEF Views, Opens, Closes, Yours, NotYours, Unlocks, Of, Kinds
  <1>8. CASE m.type = "error"
    <2>1. /\ m.type \notin {"left", "game_over", "opponent_disconnected"}
          /\ m.type # "draw accepted" /\ m.type # "match_white" /\ m.type # "match_black"
          /\ m.type # "move" /\ m.type \notin {"Illegal move", "Not your turn"}
      BY <1>8
    <2>2. w = [v EXCEPT !.moving = FALSE]
      BY <1>8, <2>1, Zenon DEF Shown
    <2> QED
      BY <1>8, <2>2 DEF Views, Opens, Closes, Yours, NotYours, Unlocks, Of, Kinds
  <1>9. CASE m.type \in {"queued", "already queued"}
    <2>1. /\ m.type \notin {"left", "game_over", "opponent_disconnected"}
          /\ m.type # "draw accepted" /\ m.type # "match_white" /\ m.type # "match_black"
          /\ m.type # "move" /\ m.type \notin {"Illegal move", "Not your turn"}
          /\ m.type # "error"
      BY <1>9
    <2>2. w = v
      BY <2>1, Zenon DEF Shown
    <2> QED
      BY <1>9, <2>2 DEF Views, Opens, Closes, Yours, NotYours, Unlocks, Of, Kinds
  <1> QED
    BY <1>1, <1>2, <1>3, <1>4, <1>5, <1>6, <1>7, <1>8, <1>9 DEF Kinds

\* Client d with requests u and messages s on their way, flags v, against the
\* queue q and the game g of the server.  Once it has read s it believes in a game
\* just when there is one, and it only searches when it is queued or about to be;
\* unless it has left, which the server may not know yet.  The player to move
\* will know that, and only waits for a move of its own that is on its way.
Fits(d, u, s, v, q, g) ==
  /\ ~(v.searching /\ v.inGame)
  /\ ~Holds(u, "leave") =>
       /\ Becomes(s, Opens, Closes, v.inGame) <=> g.on
       /\ Becomes(s, {}, Opens \union Closes, v.searching) => d \in q \/ Holds(u, "queue")
       /\ ~SameNick /\ g.on /\ g.toMove = d =>
            /\ Becomes(s, Yours(d), NotYours(d), v.yourTurn)
            /\ Becomes(s, {}, Unlocks, v.moving) => Holds(u, "move")

WebInv == WebTyped /\ \A d \in Clients : Fits(d, up[d], down[d], view[d], queue, game)

\* A message that ends the game, or begins one, makes the client agree by itself.
LEMMA ClosedFits ==
  ASSUME NEW d \in Clients, NEW u, NEW s \in Seq(Messages), NEW v \in Views, NEW q, NEW g,
         NEW m \in Closes, ~(v.searching /\ v.inGame), ~g.on
  PROVE  Fits(d, u, Append(s, m), v, q, g)
  <1>1. m \in Messages /\ m \notin Opens
    BY DEF Closes, Opens, Of
  <1>2. /\ ~Becomes(Append(s, m), Opens, Closes, v.inGame)
        /\ ~Becomes(Append(s, m), {}, Opens \union Closes, v.searching)
    BY <1>1, BecomesAppend
  <1> QED
    BY <1>2 DEF Fits

LEMMA OpenedFits ==
  ASSUME NEW d \in Clients, NEW u, NEW s \in Seq(Messages), NEW v \in Views, NEW q, NEW g,
         NEW m \in Opens, ~(v.searching /\ v.inGame), g.on,
         g.toMove = d => m.type = "match_white"
  PROVE  Fits(d, u, Append(s, m), v, q, g)
  <1>1. m \in Messages /\ m \in Unlocks /\ (g.toMove = d => m \in Yours(d))
    BY DEF Opens, Of, Unlocks, Yours, Kinds
  <1>2. /\ Becomes(Append(s, m), Opens, Closes, v.inGame)
        /\ ~Becomes(Append(s, m), {}, Opens \union Closes, v.searching)
        /\ ~Becomes(Append(s, m), {}, Unlocks, v.moving)
        /\ g.toMove = d => Becomes(Append(s, m), Yours(d), NotYours(d), v.yourTurn)
    BY <1>1, BecomesAppend
  <1> QED
    BY <1>2 DEF Fits

\* Any other message leaves the client in the game or out of it.
LEMMA OtherMessage ==
  ASSUME NEW s \in Seq(Messages), NEW m \in Messages, m \notin Opens \union Closes,
         NEW v
  PROVE  /\ Becomes(Append(s, m), Opens, Closes, v.inGame) <=> Becomes(s, Opens, Closes, v.inGame)
         /\ Becomes(Append(s, m), {}, Opens \union Closes, v.searching)
              <=> Becomes(s, {}, Opens \union Closes, v.searching)
  BY BecomesAppend

\* onmessage reads what was on its way.
LEMMA ReadFits ==
  ASSUME NEW d \in Clients, NEW u, NEW s \in Seq(Messages), s # <<>>, NEW v \in Views, NEW q, NEW g,
         Fits(d, u, s, v, q, g), NEW w, w = Shown(d, v, Head(s))
  PROVE  Fits(d, u, Tail(s), w, q, g)
  <1> DEFINE m == Head(s)
  <1>1. m \in Messages
    OBVIOUS
  <1>2. /\ w \in Views
        /\ w.inGame <=> m \in Opens \/ (m \notin Closes /\ v.inGame)
        /\ w.searching <=> m \notin Opens \union Closes /\ v.searching
        /\ w.yourTurn <=> m \in Yours(d) \/ (m \notin NotYours(d) /\ v.yourTurn)
        /\ w.moving <=> m \notin Unlocks /\ v.moving
    BY <1>1, ShownFacts
  <1>3. ~(w.searching /\ w.inGame)
    BY <1>2 DEF Fits
  <1>4. Becomes(s, Opens, Closes, v.inGame) <=> Becomes(Tail(s), Opens, Closes, w.inGame)
    BY <1>2, FlagSets, BecomesTail
  <1>5. Becomes(s, {}, Opens \union Closes, v.searching)
          <=> Becomes(Tail(s), {}, Opens \union Closes, w.searching)
    <2>1. PICK T, F : T = {} /\ F = Opens \union Closes
      OBVIOUS
    <2>2. PICK now, then : now = v.searching /\ then = w.searching
      OBVIOUS
    <2>3. T \intersect F = {} /\ (then <=> m \in T \/ (m \notin F /\ now))
      BY <1>2, <2>1, <2>2
    <2>4. Becomes(s, T, F, now) <=> Becomes(Tail(s), T, F, then)
      BY <2>3, BecomesTail
    <2> QED
      BY <2>1, <2>2, <2>4
  <1>6. Becomes(s, Yours(d), NotYours(d), v.yourTurn)
          <=> Becomes(Tail(s), Yours(d), NotYours(d), w.yourTurn)
    BY <1>2, FlagSets, BecomesTail
  <1>7. Becomes(s, {}, Unlocks, v.moving) <=> Becomes(Tail(s), {}, Unlocks, w.moving)
    <2>1. PICK T, F : T = {} /\ F = Unlocks
      OBVIOUS
    <2>2. PICK now, then : now = v.moving /\ then = w.moving
      OBVIOUS
    <2>3. T \intersect F = {} /\ (then <=> m \in T \/ (m \notin F /\ now))
      BY <1>2, <2>1, <2>2
    <2>4. Becomes(s, T, F, now) <=> Becomes(Tail(s), T, F, then)
      BY <2>3, BecomesTail
    <2> QED
      BY <2>1, <2>2, <2>4
  <1> QED
    BY <1>3, <1>4, <1>5, <1>6, <1>7 DEF Fits

-----------------------------------------------------------------------------
(* The handlers, client by client.                                         *)

\* A client that hears nothing, of a game that has the same mover or is over.
LEMMA SilentFits ==
  ASSUME NEW d \in Clients, NEW u, NEW s, NEW v, NEW q, NEW g, Fits(d, u, s, v, q, g),
         NEW p, NEW h, h.on <=> g.on, h.on => h.toMove = g.toMove, d \in q => d \in p
  PROVE  Fits(d, u, s, v, p, h)
  BY DEF Fits

\* A request that is neither queue, leave nor move is handled.
LEMMA ForgottenFits ==
  ASSUME NEW d \in Clients, NEW u \in Seq(Requests), u # <<>>, NEW s, NEW v, NEW q, NEW g,
         Fits(d, u, s, v, q, g), Head(u) \notin {"queue", "leave", "move"}
  PROVE  Fits(d, Tail(u), s, v, q, g)
  <1>1. /\ Holds(u, "queue") <=> Holds(Tail(u), "queue")
        /\ Holds(u, "leave") <=> Holds(Tail(u), "leave")
        /\ Holds(u, "move") <=> Holds(Tail(u), "move")
    BY HoldsTail
  <1> QED
    BY <1>1 DEF Fits

\* A client that searches, with nothing on its way to stop that, is in no game.
LEMMA SearchingIsOut ==
  ASSUME NEW d \in Clients, NEW u, NEW s, NEW v, NEW q, NEW g, Fits(d, u, s, v, q, g),
         ~Holds(u, "leave"), Becomes(s, {}, Opens \union Closes, v.searching)
  PROVE  ~g.on
  <1>1. v.searching /\ \A i \in 1 .. Len(s) : s[i] \notin Opens \union Closes
    BY DEF Becomes
  <1>2. ~Becomes(s, Opens, Closes, v.inGame)
    BY <1>1 DEF Becomes, Fits
  <1> QED
    BY <1>2 DEF Fits

\* The requests of c lose their first one, no others change.
LEMMA UpFacts ==
  ASSUME WebTyped, NEW c \in Clients, Served(c), NEW d \in Clients
  PROVE  /\ up[d] \in Seq(Requests) /\ down[d] \in Seq(Messages) /\ view[d] \in Views
         /\ view'[d] = view[d] /\ up[c] # <<>>
         /\ up'[d] = IF d = c THEN Tail(up[d]) ELSE up[d]
  BY DEF WebTyped, Served

FitsNext(d) == Fits(d, up'[d], down'[d], view'[d], queue', game')

LEMMA LeftFits ==
  ASSUME WebInv, NEW c \in Clients, Served(c), Left(c, Head(up[c])), NEW d \in Clients
  PROVE  FitsNext(d)
  <1>1. /\ up[d] \in Seq(Requests) /\ down[d] \in Seq(Messages) /\ view[d] \in Views
        /\ view'[d] = view[d] /\ up'[d] = IF d = c THEN Tail(up[d]) ELSE up[d]
        /\ Fits(d, up[d], down[d], view[d], queue, game)
    BY UpFacts DEF WebInv
  <1>2. queue' = queue \ {c} /\ game' = NoGame /\ ~game'.on
    BY DEF Left, NoGame
  <1>3. Msg("left") \in Closes /\ Msg("opponent_disconnected") \in Closes
    BY MsgFacts DEF Kinds, Closes, Of
  <1>4. ~(view[d].searching /\ view[d].inGame)
    BY <1>1 DEF Fits
  <1>5. ASSUME NEW m \in Closes, Tells(d, m) PROVE FitsNext(d)
    BY <1>1, <1>2, <1>4, <1>5, ClosedFits DEF FitsNext, Tells
  <1>6. CASE d = c
    BY <1>3, <1>5, <1>6 DEF Left
  <1>7. CASE d # c /\ game.on
    BY <1>3, <1>5, <1>7 DEF Left
  <1>8. CASE d # c /\ ~game.on
    <2>1. Silent(d)
      BY <1>8 DEF Left
    <2>2. game'.on <=> game.on
      BY <1>2, <1>8
    <2> QED
      BY <1>1, <1>2, <1>8, <2>1, <2>2, SilentFits DEF FitsNext, Silent
  <1> QED
    BY <1>6, <1>7, <1>8

LEMMA OverFits ==
  ASSUME WebInv, NEW c \in Clients, Served(c), Over(c, Head(up[c])), NEW d \in Clients
  PROVE  FitsNext(d)
  <1>1. /\ down[d] \in Seq(Messages) /\ view[d] \in Views /\ view'[d] = view[d]
        /\ Fits(d, up[d], down[d], view[d], queue, game)
    BY UpFacts DEF WebInv
  <1>2. game' = NoGame /\ ~game'.on
    BY DEF Over, NoGame
  <1>3. Msg("game_over") \in Closes /\ Msg("draw accepted") \in Closes
    BY MsgFacts DEF Kinds, Closes, Of
  <1>4. ~(view[d].searching /\ view[d].inGame)
    BY <1>1 DEF Fits
  <1>5. ASSUME NEW s \in Seq(Messages), NEW m \in Closes, down'[d] = Append(s, m)
        PROVE  FitsNext(d)
    BY <1>1, <1>2, <1>4, <1>5, ClosedFits DEF FitsNext
  <1>6. \A m \in Messages : Append(down[d], m) \in Seq(Messages)
    BY <1>1
  <1>7. MoveOf(c) \in Messages /\ Msg("game_over") \in Messages
    BY <1>3, MoveOfFacts DEF Closes, Of
  <1> QED
    BY <1>1, <1>3, <1>5, <1>6, <1>7 DEF Over, Tells, TellsTwo

LEMMA MatchedFits ==
  ASSUME WebInv, NEW c \in Clients, Served(c), Matched(c, Head(up[c])), NEW d \in Clients
  PROVE  FitsNext(d)
  <1>1. /\ down[d] \in Seq(Messages) /\ view[d] \in Views /\ view'[d] = view[d]
        /\ Fits(d, up[d], down[d], view[d], queue, game)
    BY UpFacts DEF WebInv
  <1>2. PICK white \in Clients :
          /\ game' = [on |-> TRUE, toMove |-> white, offers |-> {}]
          /\ \E m \in {Msg("match_white"), Msg("match_black")} :
               /\ d = white => m = Msg("match_white")
               /\ Tells(d, m) \/ TellsTwo(d, Msg("queued"), m)
    BY DEF Matched
  <1>3. PICK m \in {Msg("match_white"), Msg("match_black")} :
          /\ d = white => m = Msg("match_white")
          /\ Tells(d, m) \/ TellsTwo(d, Msg("queued"), m)
    BY <1>2
  <1>4. m \in Opens /\ (d = white => m.type = "match_white")
    BY <1>3, MsgFacts DEF Kinds, Opens, Of
  <1>5. game'.on /\ game'.toMove = white
    BY <1>2
  <1>6. ~(view[d].searching /\ view[d].inGame)
    BY <1>1 DEF Fits
  <1>7. PICK s \in Seq(Messages) : down'[d] = Append(s, m)
    <2>1. Msg("queued") \in Messages
      BY MsgFacts DEF Kinds
    <2>2. Append(down[d], Msg("queued")) \in Seq(Messages)
      BY <1>1, <2>1
    <2> QED
      BY <1>1, <1>3, <2>2 DEF Tells, TellsTwo
  <1> QED
    BY <1>1, <1>4, <1>5, <1>6, <1>7, OpenedFits DEF FitsNext

LEMMA NotedFits ==
  ASSUME WebInv, NEW c \in Clients, Served(c), Noted(c, Head(up[c])), NEW d \in Clients
  PROVE  FitsNext(d)
  <1>1. /\ up[d] \in Seq(Requests) /\ view'[d] = view[d] /\ up[c] # <<>>
        /\ up'[d] = IF d = c THEN Tail(up[d]) ELSE up[d]
        /\ Fits(d, up[d], down[d], view[d], queue, game)
    BY UpFacts DEF WebInv
  <1>2. /\ game.on /\ game'.on /\ game'.toMove = game.toMove /\ queue' = queue
        /\ down'[d] = down[d] /\ Head(up[c]) \notin {"queue", "leave", "move"}
    BY DEF Noted, Silent
  <1>3. Fits(d, up'[d], down[d], view[d], queue, game)
    BY <1>1, <1>2, ForgottenFits
  <1> QED
    BY <1>1, <1>2, <1>3, SilentFits DEF FitsNext

LEMMA QueuedFits ==
  ASSUME WebInv, NEW c \in Clients, Served(c), Queued(c, Head(up[c])), NEW d \in Clients
  PROVE  FitsNext(d)
  <1>1. /\ up[d] \in Seq(Requests) /\ down[d] \in Seq(Messages) /\ view[d] \in Views
        /\ view'[d] = view[d] /\ up[c] # <<>>
        /\ up'[d] = IF d = c THEN Tail(up[d]) ELSE up[d]
        /\ Fits(d, up[d], down[d], view[d], queue, game)
    BY UpFacts DEF WebInv
  <1>2. /\ Head(up[c]) = "queue" /\ ~game.on /\ queue = {} /\ queue' = {c} /\ game' = game
        /\ Tells(c, Msg("queued")) /\ OthersSilent(c)
    BY DEF Queued
  <1>3. CASE d = c
    <2>1. Msg("queued") \in Messages /\ Msg("queued") \notin Opens \union Closes
      BY MsgFacts DEF Kinds, Opens, Closes, Of
    <2>2. down'[d] = Append(down[d], Msg("queued")) /\ d \in queue'
      BY <1>2, <1>3 DEF Tells
    <2>3. Holds(up[d], "leave") <=> Holds(up'[d], "leave")
      BY <1>1, <1>2, <1>3, HoldsTail
    <2>4. Becomes(down'[d], Opens, Closes, view[d].inGame)
            <=> Becomes(down[d], Opens, Closes, view[d].inGame)
      BY <1>1, <2>1, <2>2, OtherMessage
    <2> QED
      BY <1>1, <1>2, <2>2, <2>3, <2>4 DEF FitsNext, Fits
  <1>4. CASE d # c
    BY <1>1, <1>2, <1>4, SilentFits DEF FitsNext, OthersSilent, Silent
  <1> QED
    BY <1>3, <1>4

LEMMA PlayedFits ==
  ASSUME WebInv, NEW c \in Clients, Served(c), Played(c, Head(up[c])), NEW d \in Clients
  PROVE  FitsNext(d)
  <1>1. /\ up[d] \in Seq(Requests) /\ down[d] \in Seq(Messages) /\ view[d] \in Views
        /\ view'[d] = view[d] /\ up[c] # <<>>
        /\ up'[d] = IF d = c THEN Tail(up[d]) ELSE up[d]
        /\ Fits(d, up[d], down[d], view[d], queue, game)
    BY UpFacts DEF WebInv
  <1>2. /\ Head(up[c]) = "move" /\ game.on /\ queue' = queue
        /\ game' = [game EXCEPT !.toMove = Opponent(c)] /\ Tells(d, MoveOf(c))
    BY DEF Played
  <1>3. game'.on /\ game'.toMove = Opponent(c) /\ Opponent(c) # c
    BY <1>2, OpponentFacts DEF WebInv, WebTyped
  <1>4. MoveOf(c) \in Messages /\ MoveOf(c).type = "move" /\ MoveOf(c).by = c
    BY MoveOfFacts
  <1>5. MoveOf(c) \notin Opens \union Closes /\ MoveOf(c) \in Unlocks
    BY <1>4 DEF Kinds, Opens, Closes, Unlocks, Of
  <1>6. ~SameNick /\ d # c => MoveOf(c) \in Yours(d)
    BY <1>4 DEF Yours, IsOwn
  <1>7. /\ Holds(up[d], "leave") <=> Holds(up'[d], "leave")
        /\ Holds(up[d], "queue") <=> Holds(up'[d], "queue")
    BY <1>1, <1>2, HoldsTail
  <1>8. down'[d] = Append(down[d], MoveOf(c))
    BY <1>2 DEF Tells
  <1>9. /\ Becomes(down'[d], Opens, Closes, view[d].inGame)
             <=> Becomes(down[d], Opens, Closes, view[d].inGame)
        /\ Becomes(down'[d], {}, Opens \union Closes, view[d].searching)
             <=> Becomes(down[d], {}, Opens \union Closes, view[d].searching)
    <2>1. PICK m \in Messages : m = MoveOf(c)
      BY <1>4
    <2>2. PICK s \in Seq(Messages), v \in Views : s = down[d] /\ v = view[d]
      BY <1>1
    <2>3. down'[d] = Append(s, m) /\ m \notin Opens \union Closes
      BY <1>5, <1>8, <2>1, <2>2
    <2>4. /\ Becomes(Append(s, m), Opens, Closes, v.inGame) <=> Becomes(s, Opens, Closes, v.inGame)
          /\ Becomes(Append(s, m), {}, Opens \union Closes, v.searching)
               <=> Becomes(s, {}, Opens \union Closes, v.searching)
      BY <2>3, OtherMessage
    <2> QED
      BY <2>2, <2>3, <2>4
  <1>10. /\ ~Becomes(down'[d], {}, Unlocks, view[d].moving)
         /\ ~SameNick /\ d # c => Becomes(down'[d], Yours(d), NotYours(d), view[d].yourTurn)
    BY <1>1, <1>4, <1>5, <1>6, <1>8, BecomesAppend
  <1> QED
    BY <1>1, <1>2, <1>3, <1>7, <1>9, <1>10 DEF FitsNext, Fits

\* A message that neither begins nor ends a game.
LEMMA OtherFits ==
  ASSUME NEW d \in Clients, NEW u, NEW s \in Seq(Messages), NEW v \in Views, NEW q, NEW g,
         Fits(d, u, s, v, q, g), NEW m \in Messages, m \notin Opens \union Closes,
         m \notin NotYours(d), NEW t, Holds(t, "leave") <=> Holds(u, "leave"),
         ~g.on => d \in q \/ (Holds(u, "queue") => Holds(t, "queue")),
         m \in Unlocks \/ (Holds(u, "move") => Holds(t, "move"))
  PROVE  Fits(d, t, Append(s, m), v, q, g)
  <1>1. /\ Becomes(Append(s, m), Opens, Closes, v.inGame) <=> Becomes(s, Opens, Closes, v.inGame)
        /\ Becomes(Append(s, m), {}, Opens \union Closes, v.searching)
             <=> Becomes(s, {}, Opens \union Closes, v.searching)
    BY OtherMessage
  <1>2. /\ Becomes(s, Yours(d), NotYours(d), v.yourTurn)
             => Becomes(Append(s, m), Yours(d), NotYours(d), v.yourTurn)
        /\ Becomes(Append(s, m), {}, Unlocks, v.moving)
             => m \notin Unlocks /\ Becomes(s, {}, Unlocks, v.moving)
    BY BecomesAppend
  <1>3. ~Holds(u, "leave") /\ Becomes(s, {}, Opens \union Closes, v.searching) => ~g.on
    BY SearchingIsOut
  <1> QED
    BY <1>1, <1>2, <1>3 DEF Fits

LEMMA RefusedFits ==
  ASSUME WebInv, NEW c \in Clients, Served(c), Refused(c, Head(up[c])), NEW d \in Clients
  PROVE  FitsNext(d)
  <1>1. /\ up[d] \in Seq(Requests) /\ down[d] \in Seq(Messages) /\ view[d] \in Views
        /\ view'[d] = view[d] /\ up[c] # <<>>
        /\ up'[d] = IF d = c THEN Tail(up[d]) ELSE up[d]
        /\ Fits(d, up[d], down[d], view[d], queue, game)
    BY UpFacts DEF WebInv
  <1>2. Head(up[c]) # "leave" /\ queue' = queue /\ game' = game /\ OthersSilent(c)
    BY DEF Refused
  <1>3. CASE d # c
    BY <1>1, <1>2, <1>3, SilentFits DEF FitsNext, OthersSilent, Silent
  <1>4. CASE d = c
    <2>1. /\ Holds(up[d], "leave") <=> Holds(up'[d], "leave")
          /\ Head(up[c]) # "queue" => (Holds(up[d], "queue") <=> Holds(up'[d], "queue"))
          /\ Head(up[c]) # "move" => (Holds(up[d], "move") <=> Holds(up'[d], "move"))
      BY <1>1, <1>2, <1>4, HoldsTail
    <2>2. PICK m \in Messages :
            /\ down'[d] = Append(down[d], m)
            /\ \/ m.type = "error" /\ (Head(up[c]) = "queue" => game.on)
               \/ m.type = "already queued" /\ Head(up[c]) = "queue" /\ d \in queue
               \/ m.type \in {"Not your turn", "Illegal move"} /\ Head(up[c]) = "move"
      <3>1. /\ Msg("error") \in Messages /\ Msg("error").type = "error"
            /\ Msg("already queued") \in Messages /\ Msg("already queued").type = "already queued"
            /\ Msg("Not your turn") \in Messages /\ Msg("Not your turn").type = "Not your turn"
            /\ Msg("Illegal move") \in Messages /\ Msg("Illegal move").type = "Illegal move"
        BY MsgFacts DEF Kinds
      <3> QED
        BY <1>4, <3>1 DEF Refused, Tells
    <2>3. /\ m \notin Opens \union Closes /\ m \notin NotYours(d)
          /\ m.type # "already queued" => m \in Unlocks
      BY <2>2 DEF Opens, Closes, NotYours, Unlocks, Of, Kinds
    <2>4. Fits(d, up'[d], Append(down[d], m), view[d], queue, game)
      BY <1>1, <2>1, <2>2, <2>3, OtherFits
    <2> QED
      BY <1>1, <1>2, <2>2, <2>4 DEF FitsNext
  <1> QED
    BY <1>3, <1>4

LEMMA HandleFits ==
  ASSUME WebInv, NEW c \in Clients, Handle(c), NEW d \in Clients
  PROVE  FitsNext(d)
  BY HandleOutcomes, QueuedFits, MatchedFits, LeftFits, RefusedFits, PlayedFits, OverFits, NotedFits
     DEF WebInv, Outcomes

-----------------------------------------------------------------------------
(* The buttons, onmessage and lost connections, client by client.          *)

LEMMA AskFacts ==
  ASSUME WebInv, NEW c \in Clients, NEW r \in Requests, Ask(c, r), NEW d \in Clients
  PROVE  /\ up[d] \in Seq(Requests) /\ view[d] \in Views
         /\ up'[d] = IF d = c THEN Append(up[d], r) ELSE up[d]
         /\ down'[d] = down[d] /\ queue' = queue /\ game' = game
         /\ Fits(d, up[d], down[d], view[d], queue, game)
  BY DEF WebInv, WebTyped, Ask

LEMMA JoinFits ==
  ASSUME WebInv, NEW c \in Clients, joinQueue(c), NEW d \in Clients
  PROVE  FitsNext(d)
  <1>1. Ask(c, "queue") /\ "queue" \in Requests
    BY DEF joinQueue, Requests
  <1>2. /\ up[d] \in Seq(Requests) /\ view[d] \in Views
        /\ up'[d] = IF d = c THEN Append(up[d], "queue") ELSE up[d]
        /\ down'[d] = down[d] /\ queue' = queue /\ game' = game
        /\ Fits(d, up[d], down[d], view[d], queue, game)
    BY <1>1, AskFacts
  <1>3. /\ view'[d].inGame = view[d].inGame /\ view'[d].yourTurn = view[d].yourTurn
        /\ view'[d].moving = view[d].moving
        /\ d # c => view'[d] = view[d]
        /\ d = c => ~view[d].inGame
    BY <1>2 DEF joinQueue, WebInv, WebTyped, Views
  <1>4. CASE d # c
    BY <1>2, <1>3, <1>4 DEF FitsNext
  <1>5. CASE d = c
    <2>1. /\ Holds(up'[d], "queue") /\ (Holds(up'[d], "leave") <=> Holds(up[d], "leave"))
          /\ Holds(up'[d], "move") <=> Holds(up[d], "move")
      BY <1>1, <1>2, <1>5, HoldsAppend
    <2> QED
      BY <1>2, <1>3, <1>5, <2>1 DEF FitsNext, Fits
  <1> QED
    BY <1>4, <1>5

LEMMA LeaveFits ==
  ASSUME WebInv, NEW c \in Clients, leaveQueue(c), NEW d \in Clients
  PROVE  FitsNext(d)
  <1>1. Ask(c, "leave") /\ "leave" \in Requests
    BY DEF leaveQueue, Requests
  <1>2. /\ up[d] \in Seq(Requests)
        /\ up'[d] = IF d = c THEN Append(up[d], "leave") ELSE up[d]
        /\ down'[d] = down[d] /\ queue' = queue /\ game' = game
        /\ Fits(d, up[d], down[d], view[d], queue, game)
    BY <1>1, AskFacts
  <1>3. view'[d] = IF d = c THEN Idle ELSE view[d]
    BY DEF leaveQueue, WebInv, WebTyped
  <1>4. CASE d # c
    BY <1>2, <1>3, <1>4 DEF FitsNext
  <1>5. CASE d = c
    <2>1. Holds(up'[d], "leave")
      BY <1>1, <1>2, <1>5, HoldsAppend
    <2>2. ~view'[d].searching
      BY <1>3, <1>5 DEF Idle
    <2> QED
      BY <2>1, <2>2 DEF FitsNext, Fits
  <1> QED
    BY <1>4, <1>5

LEMMA SendFits ==
  ASSUME WebInv, NEW c \in Clients, sendMove(c), NEW d \in Clients
  PROVE  FitsNext(d)
  <1>1. Ask(c, "move") /\ "move" \in Requests
    BY DEF sendMove, Requests
  <1>2. /\ up[d] \in Seq(Requests) /\ view[d] \in Views
        /\ up'[d] = IF d = c THEN Append(up[d], "move") ELSE up[d]
        /\ down'[d] = down[d] /\ queue' = queue /\ game' = game
        /\ Fits(d, up[d], down[d], view[d], queue, game)
    BY <1>1, AskFacts
  <1>3. /\ view'[d].inGame = view[d].inGame /\ view'[d].yourTurn = view[d].yourTurn
        /\ view'[d].searching = view[d].searching
        /\ d # c => view'[d] = view[d]
    BY <1>2 DEF sendMove, WebInv, WebTyped, Views
  <1>4. CASE d # c
    BY <1>2, <1>3, <1>4 DEF FitsNext
  <1>5. CASE d = c
    <2>1. /\ Holds(up'[d], "move") /\ (Holds(up'[d], "leave") <=> Holds(up[d], "leave"))
          /\ Holds(up'[d], "queue") <=> Holds(up[d], "queue")
      BY <1>1, <1>2, <1>5, HoldsAppend
    <2> QED
      BY <1>2, <1>3, <1>5, <2>1 DEF FitsNext, Fits
  <1> QED
    BY <1>4, <1>5

LEMMA DrawFits ==
  ASSUME WebInv, NEW c \in Clients, DrawButtons(c), NEW d \in Clients
  PROVE  FitsNext(d)
  <1>1. PICK r \in {"offer", "accept", "decline"} : Ask(c, r)
    BY DEF DrawButtons
  <1>2. r \in Requests /\ r \notin {"queue", "leave", "move"} /\ view' = view
    BY DEF Requests, DrawButtons
  <1>3. /\ up[d] \in Seq(Requests)
        /\ up'[d] = IF d = c THEN Append(up[d], r) ELSE up[d]
        /\ down'[d] = down[d] /\ queue' = queue /\ game' = game
        /\ Fits(d, up[d], down[d], view[d], queue, game)
    BY <1>1, <1>2, AskFacts
  <1>4. /\ Holds(up'[d], "queue") <=> Holds(up[d], "queue")
        /\ Holds(up'[d], "leave") <=> Holds(up[d], "leave")
        /\ Holds(up'[d], "move") <=> Holds(up[d], "move")
    BY <1>2, <1>3, HoldsAppend
  <1> QED
    BY <1>2, <1>3, <1>4 DEF FitsNext, Fits

LEMMA MessageFits ==
  ASSUME WebInv, NEW c \in Clients, onmessage(c), NEW d \in Clients
  PROVE  FitsNext(d)
  <1>1. /\ up'[d] = up[d] /\ queue' = queue /\ game' = game /\ down[c] # <<>>
        /\ down'[d] = IF d = c THEN Tail(down[d]) ELSE down[d]
        /\ view'[d] = IF d = c THEN Shown(d, view[d], Head(down[d])) ELSE view[d]
        /\ down[d] \in Seq(Messages) /\ view[d] \in Views
        /\ Fits(d, up[d], down[d], view[d], queue, game)
    BY DEF onmessage, WebInv, WebTyped
  <1>2. CASE d # c
    BY <1>1, <1>2 DEF FitsNext
  <1>3. CASE d = c
    <2>1. PICK w : w = Shown(d, view[d], Head(down[d]))
      OBVIOUS
    <2>2. Fits(d, up[d], Tail(down[d]), w, queue, game)
      BY <1>1, <1>3, <2>1, ReadFits
    <2> QED
      BY <1>1, <1>3, <2>1, <2>2 DEF FitsNext
  <1> QED
    BY <1>2, <1>3

LEMMA DisconnectFits ==
  ASSUME WebInv, NEW c \in Clients, Disconnect(c), NEW d \in Clients
  PROVE  FitsNext(d)
  <1>1. /\ queue' = queue \ {c} /\ game' = NoGame
        /\ down[d] \in Seq(Messages) /\ view[d] \in Views
        /\ Fits(d, up[d], down[d], view[d], queue, game)
    BY DEF Disconnect, WebInv, WebTyped
  <1>2. ~game'.on
    BY <1>1 DEF NoGame
  <1>3. CASE d = c
    <2>1. /\ up'[d] = <<>> /\ down'[d] = <<>>
          /\ ~view'[d].searching /\ ~view'[d].inGame
      BY <1>1, <1>3 DEF Disconnect, WebInv, WebTyped, Views
    <2>2. /\ ~Becomes(<<>>, Opens, Closes, view'[d].inGame)
          /\ ~Becomes(<<>>, {}, Opens \union Closes, view'[d].searching)
      BY <2>1, BecomesEmpty
    <2> QED
      BY <1>2, <2>1, <2>2 DEF FitsNext, Fits
  <1>4. CASE d # c
    <2>1. /\ up'[d] = up[d] /\ view'[d] = view[d]
          /\ down'[d] = IF game.on THEN Append(down[d], Msg("opponent_disconnected")) ELSE down[d]
      BY <1>4 DEF Disconnect, WebInv, WebTyped
    <2>2. CASE game.on
      <3>1. Msg("opponent_disconnected") \in Closes
        BY MsgFacts DEF Kinds, Closes, Of
      <3>2. ~(view[d].searching /\ view[d].inGame)
        BY <1>1 DEF Fits
      <3>3. Fits(d, up[d], Append(down[d], Msg("opponent_disconnected")), view[d], queue', game')
        BY <1>1, <1>2, <3>1, <3>2, ClosedFits
      <3> QED
        BY <2>1, <2>2, <3>3 DEF FitsNext
    <2>3. CASE ~game.on
      BY <1>1, <1>2, <1>4, <2>1, <2>3, SilentFits DEF FitsNext
    <2> QED
      BY <2>2, <2>3
  <1> QED
    BY <1>3, <1>4

-----------------------------------------------------------------------------
(* Types.                                                                  *)

\* The channels are answered one by one, and always as a function of the clients.
LEMMA AnswerShape ==
  ASSUME WebTyped, NEW c \in Clients, Handle(c)
  PROVE  down' = [d \in Clients |-> down'[d]]
  <1> DEFINE r == Head(up[c])
  <1>1. ASSUME NEW answers, Answer(answers) PROVE down' = [d \in Clients |-> down'[d]]
    BY <1>1 DEF Answer
  <1>2. ASSUME down' = down PROVE down' = [d \in Clients |-> down'[d]]
    BY <1>2 DEF WebTyped
  <1>3. CASE r = "queue"
    <2>1. handle_queue(c)
      BY <1>3, Zenon DEF Handle
    <2>2. ASSUME NEW a, Answer(a) PROVE down' = [d \in Clients |-> down'[d]]
      BY <1>1, <2>2
    <2>3. \E a : Answer(a)
      BY <2>1, Zenon DEF handle_queue
    <2> QED
      BY <2>2, <2>3
  <1>4. CASE r = "leave"
    <2>1. handle_leave(c)
      BY <1>4, Zenon DEF Handle
    <2> QED
      BY <1>1, <2>1 DEF handle_leave
  <1>5. CASE r = "move"
    <2>1. handle_move(c)
      BY <1>5, Zenon DEF Handle
    <2> QED
      BY <1>1, <2>1 DEF handle_move
  <1>6. CASE r \notin {"queue", "leave", "move"}
    <2>1. handle_draw(c, r)
      BY <1>6, Zenon DEF Handle
    <2> QED
      BY <1>1, <1>2, <2>1 DEF handle_draw
  <1> QED
    BY <1>3, <1>4, <1>5, <1>6

LEMMA NoGameTyped ==
  /\ NoGame \in [on : BOOLEAN, toMove : Clients \union {NoClient}, offers : SUBSET Clients]
  /\ ~NoGame.on
  BY DEF NoGame

LEMMA AppendTyped ==
  ASSUME NEW S, NEW s \in Seq(S), NEW e \in S
  PROVE  Append(s, e) \in Seq(S)
  OBVIOUS

LEMMA HandleTyped ==
  ASSUME WebTyped, NEW c \in Clients, Handle(c)
  PROVE  WebTyped'
  <1> DEFINE r == Head(up[c])
  <1>1. Served(c) /\ Outcomes(c, r)
    BY HandleOutcomes
  <1>2. view' \in [Clients -> Views] /\ up' \in [Clients -> Seq(Requests)]
    BY <1>1 DEF Served, WebTyped
  <1>3. \A kind \in Kinds : Msg(kind) \in Messages
    BY MsgFacts
  <1>4. /\ "queued" \in Kinds /\ "match_white" \in Kinds /\ "match_black" \in Kinds
        /\ "left" \in Kinds /\ "opponent_disconnected" \in Kinds /\ "error" \in Kinds
        /\ "already queued" \in Kinds /\ "Not your turn" \in Kinds /\ "Illegal move" \in Kinds
        /\ "game_over" \in Kinds /\ "draw accepted" \in Kinds
    BY DEF Kinds
  <1>5. MoveOf(c) \in Messages
    BY MoveOfFacts
  <1>6. ASSUME NEW d \in Clients,
               \/ Silent(d)
               \/ \E m \in Messages : Tells(d, m)
               \/ \E m \in Messages, n \in Messages : TellsTwo(d, m, n)
        PROVE  down'[d] \in Seq(Messages)
    <2>1. down[d] \in Seq(Messages)
      BY DEF WebTyped
    <2>2. CASE Silent(d)
      BY <2>1, <2>2 DEF Silent
    <2>3. ASSUME NEW m \in Messages, Tells(d, m) PROVE down'[d] \in Seq(Messages)
      BY <2>1, <2>3, AppendTyped DEF Tells
    <2>4. ASSUME NEW m \in Messages, NEW n \in Messages, TellsTwo(d, m, n)
          PROVE  down'[d] \in Seq(Messages)
      <3>1. Append(down[d], m) \in Seq(Messages)
        BY <2>1, AppendTyped
      <3> QED
        BY <2>4, <3>1, AppendTyped DEF TellsTwo
    <2> QED
      BY <1>6, <2>2, <2>3, <2>4
  <1>7. CASE Queued(c, r)
    <2>1. \A d \in Clients : down'[d] \in Seq(Messages)
      BY <1>3, <1>4, <1>6, <1>7 DEF Queued, OthersSilent
    <2>2. queue' \subseteq Clients /\ game' = game
      BY <1>7 DEF Queued
    <2> QED
      BY <1>2, <2>1, <2>2, AnswerShape DEF WebTyped
  <1>8. CASE Matched(c, r)
    <2>1. ASSUME NEW d \in Clients PROVE down'[d] \in Seq(Messages)
      BY <1>3, <1>4, <1>6, <1>8 DEF Matched
    <2>2. /\ queue' \subseteq Clients
          /\ \E white \in Clients : game' = [on |-> TRUE, toMove |-> white, offers |-> {}]
      BY <1>8 DEF Matched
    <2> QED
      BY <1>2, <2>1, <2>2, AnswerShape DEF WebTyped
  <1>9. CASE Left(c, r)
    <2>1. \A d \in Clients : down'[d] \in Seq(Messages)
      BY <1>3, <1>4, <1>6, <1>9 DEF Left
    <2>2. queue' \subseteq Clients /\ game' = NoGame
      BY <1>9 DEF Left, WebTyped
    <2> QED
      BY <1>2, <2>1, <2>2, AnswerShape, NoGameTyped DEF WebTyped
  <1>10. CASE Refused(c, r)
    <2>1. \A d \in Clients : down'[d] \in Seq(Messages)
      BY <1>3, <1>4, <1>6, <1>10 DEF Refused, OthersSilent
    <2>2. queue' = queue /\ game' = game
      BY <1>10 DEF Refused
    <2> QED
      BY <1>2, <2>1, <2>2, AnswerShape DEF WebTyped
  <1>11. CASE Played(c, r)
    <2>1. \A d \in Clients : down'[d] \in Seq(Messages)
      BY <1>5, <1>6, <1>11 DEF Played
    <2>2. queue' = queue /\ game' = [game EXCEPT !.toMove = Opponent(c)] /\ Opponent(c) \in Clients
      BY <1>11, OpponentFacts DEF Played
    <2> QED
      BY <1>2, <2>1, <2>2, AnswerShape DEF WebTyped
  <1>12. CASE Over(c, r)
    <2>1. \A d \in Clients : down'[d] \in Seq(Messages)
      BY <1>3, <1>4, <1>5, <1>6, <1>12 DEF Over
    <2>2. queue' = queue /\ game' = NoGame
      BY <1>12 DEF Over
    <2> QED
      BY <1>2, <2>1, <2>2, AnswerShape, NoGameTyped DEF WebTyped
  <1>13. CASE Noted(c, r)
    <2>1. \A d \in Clients : down'[d] \in Seq(Messages)
      BY <1>6, <1>13 DEF Noted
    <2>2. /\ queue' = queue /\ game.on
          /\ game' \in [on : {TRUE}, toMove : {game.toMove}, offers : SUBSET Clients]
      BY <1>13 DEF Noted
    <2> QED
      BY <1>2, <2>1, <2>2, AnswerShape DEF WebTyped
  <1> QED
    BY <1>1, <1>7, <1>8, <1>9, <1>10, <1>11, <1>12, <1>13 DEF Outcomes

LEMMA AskTyped ==
  ASSUME WebTyped, NEW c \in Clients, NEW r \in Requests, Ask(c, r),
         view' \in [Clients -> Views]
  PROVE  WebTyped'
  <1>1. up[c] \in Seq(Requests)
    BY DEF WebTyped
  <1>2. Append(up[c], r) \in Seq(Requests)
    BY <1>1
  <1>3. up' \in [Clients -> Seq(Requests)]
    BY <1>2 DEF WebTyped, Ask
  <1> QED
    BY <1>3 DEF WebTyped, Ask

LEMMA WebTypedNext ==
  ASSUME WebTyped, NEW c \in Clients,
         \/ joinQueue(c) \/ leaveQueue(c) \/ sendMove(c) \/ DrawButtons(c)
         \/ Handle(c) \/ onmessage(c) \/ Disconnect(c)
  PROVE  WebTyped'
  <1>1. "queue" \in Requests /\ "leave" \in Requests /\ "move" \in Requests
        /\ {"offer", "accept", "decline"} \subseteq Requests
    BY DEF Requests
  <1>2. CASE joinQueue(c)
    <2>1. view' \in [Clients -> Views]
      BY <1>2 DEF joinQueue, WebTyped, Views
    <2> QED
      BY <1>1, <1>2, <2>1, AskTyped DEF joinQueue
  <1>3. CASE leaveQueue(c)
    <2>1. view' \in [Clients -> Views]
      BY <1>3 DEF leaveQueue, WebTyped, Views, Idle
    <2> QED
      BY <1>1, <1>3, <2>1, AskTyped DEF leaveQueue
  <1>4. CASE sendMove(c)
    <2>1. view' \in [Clients -> Views]
      BY <1>4 DEF sendMove, WebTyped, Views
    <2> QED
      BY <1>1, <1>4, <2>1, AskTyped DEF sendMove
  <1>5. CASE DrawButtons(c)
    <2>1. view' \in [Clients -> Views]
      BY <1>5 DEF DrawButtons, WebTyped
    <2>2. \E r \in Requests : Ask(c, r)
      BY <1>1, <1>5 DEF DrawButtons
    <2> QED
      BY <2>1, <2>2, AskTyped
  <1>6. CASE Handle(c)
    BY <1>6, HandleTyped
  <1>7. CASE onmessage(c)
    <2>1. /\ down[c] \in Seq(Messages) /\ view[c] \in Views /\ down[c] # <<>>
      BY <1>7 DEF onmessage, WebTyped
    <2>2. Head(down[c]) \in Messages /\ Tail(down[c]) \in Seq(Messages)
      BY <2>1
    <2>3. PICK w : w = Shown(c, view[c], Head(down[c]))
      OBVIOUS
    <2>4. w \in Views
      BY <2>1, <2>2, <2>3, ShownFacts
    <2>5. /\ view' = [view EXCEPT ![c] = w] /\ down' = [down EXCEPT ![c] = Tail(down[c])]
          /\ up' = up /\ queue' = queue /\ game' = game
      BY <1>7, <2>3 DEF onmessage
    <2> QED
      BY <2>2, <2>4, <2>5 DEF WebTyped
  <1>8. CASE Disconnect(c)
    <2>1. view' \in [Clients -> Views]
      BY <1>8 DEF Disconnect, WebTyped, Views
    <2>2. up' \in [Clients -> Seq(Requests)]
      BY <1>8 DEF Disconnect, WebTyped
    <2>3. Msg("opponent_disconnected") \in Messages
      BY MsgFacts DEF Kinds
    <2>4. down' \in [Clients -> Seq(Messages)]
      <3>1. \A d \in Clients : Append(down[d], Msg("opponent_disconnected")) \in Seq(Messages)
        BY <2>3 DEF WebTyped
      <3> QED
        BY <1>8, <3>1 DEF Disconnect, WebTyped
    <2>5. queue' \subseteq Clients /\ game' = NoGame
      BY <1>8 DEF Disconnect, WebTyped
    <2> QED
      BY <2>1, <2>2, <2>4, <2>5, NoGameTyped DEF WebTyped
  <1> QED
    BY <1>2, <1>3, <1>4, <1>5, <1>6, <1>7, <1>8

-----------------------------------------------------------------------------
(* The theorems.                                                           *)

\* Nobody has anything on its way, and nobody plays.
LEMMA InitFits == Init => WebInv
  <1> SUFFICES ASSUME Init PROVE WebInv
    OBVIOUS
  <1>1. WebTyped
    BY NoGameTyped DEF Init, WebTyped, Idle, Views
  <1>2. ASSUME NEW d \in Clients PROVE Fits(d, up[d], down[d], view[d], queue, game)
    <2>1. /\ down[d] = <<>> /\ ~game.on
          /\ ~view[d].searching /\ ~view[d].inGame
      BY DEF Init, Idle, NoGame
    <2>2. /\ ~Becomes(<<>>, Opens, Closes, view[d].inGame)
          /\ ~Becomes(<<>>, {}, Opens \union Closes, view[d].searching)
      BY <2>1, BecomesEmpty
    <2> QED
      BY <2>1, <2>2 DEF Fits
  <1> QED
    BY <1>1, <1>2 DEF WebInv

LEMMA NextFits == WebInv /\ [Next]_vars => WebInv'
  <1> SUFFICES ASSUME WebInv, [Next]_vars PROVE WebInv'
    OBVIOUS
  <1>1. CASE Next
    <2>1. PICK c \in Clients :
            \/ joinQueue(c) \/ leaveQueue(c) \/ sendMove(c) \/ DrawButtons(c)
            \/ Handle(c) \/ onmessage(c) \/ Disconnect(c)
      BY <1>1 DEF Next
    <2>2. WebTyped'
      BY <2>1, WebTypedNext DEF WebInv
    <2>3. \A d \in Clients : FitsNext(d)
      BY <2>1, JoinFits, LeaveFits, SendFits, DrawFits, HandleFits, MessageFits, DisconnectFits
    <2> QED
      BY <2>2, <2>3 DEF WebInv, FitsNext
  <1>2. CASE UNCHANGED vars
    BY <1>2 DEF vars, WebInv, WebTyped, Fits
  <1> QED
    BY <1>1, <1>2

\* The flags App.js keeps, after all the messages on their way, fit the room and the
\* queue of the server: across the races of search, match, move, draw, leaving and a
\* broken connection.
THEOREM ViewsFit == Spec => []WebInv
  <1> QED
    BY InitFits, NextFits, PTL DEF Spec

\* With nothing on its way, there is nothing left to read or to handle.
LEMMA QuietFits ==
  ASSUME WebInv, Quiet, NEW d \in Clients
  PROVE  /\ view[d].inGame <=> game.on
         /\ view[d].searching => d \in queue
         /\ ~SameNick /\ game.on /\ game.toMove = d => view[d].yourTurn /\ ~view[d].moving
  <1>1. up[d] = <<>> /\ down[d] = <<>> /\ Fits(d, <<>>, <<>>, view[d], queue, game)
    BY DEF Quiet, WebInv
  <1>2. \A r : ~Holds(<<>>, r)
    BY DEF Holds
  <1>3. /\ Becomes(<<>>, Opens, Closes, view[d].inGame) <=> view[d].inGame
        /\ Becomes(<<>>, {}, Opens \union Closes, view[d].searching) <=> view[d].searching
        /\ Becomes(<<>>, Yours(d), NotYours(d), view[d].yourTurn) <=> view[d].yourTurn
        /\ Becomes(<<>>, {}, Unlocks, view[d].moving) <=> view[d].moving
    BY BecomesEmpty
  <1> QED
    BY <1>1, <1>2, <1>3 DEF Fits

\* onmessage and the server's notices keep client and server agreed whether there is
\* a game: no board stays open over a room that is gone, no match is missed.
THEOREM GameStaysAgreed == Spec => []GameAgreed
  <1>1. WebInv => GameAgreed
    <2> SUFFICES ASSUME WebInv, Quiet, NEW d \in Clients PROVE view[d].inGame = game.on
      BY DEF GameAgreed
    <2>1. view[d].inGame \in BOOLEAN /\ game.on \in BOOLEAN
      BY DEF WebInv, WebTyped, Views
    <2> QED
      BY <2>1, QuietFits
  <1> QED
    BY <1>1, ViewsFit, PTL

\* Between two nicks the turn is never lost: when all has been read, the player whose
\* turn it is in the room has an unlocked board and knows that it is to move.  (Two
\* sessions of one nick do lose it: App.js compares nicks to tell its own moves.)
THEOREM MoverCanAlwaysMove == ~SameNick /\ Spec => []SomeoneCanMove
  <1>1. ~SameNick /\ WebInv => SomeoneCanMove
    <2> SUFFICES ASSUME WebInv, ~SameNick, Quiet, game.on
                 PROVE  view[game.toMove].yourTurn /\ ~view[game.toMove].moving
      BY DEF SomeoneCanMove
    <2>1. game.toMove \in Clients
      BY DEF WebInv, WebTyped
    <2> QED
      BY <2>1, QuietFits
  <1>2. CASE ~SameNick
    <2>1. WebInv => SomeoneCanMove
      BY <1>1, <1>2
    <2> QED
      BY <2>1, ViewsFit, PTL
  <1> QED
    BY <1>2

\* A player who is shown the search, when all has been handled, is in _queue.
THEOREM SearchStaysReal == Spec => []SearchIsReal
  <1>1. WebInv => SearchIsReal
    BY QuietFits DEF SearchIsReal
  <1> QED
    BY <1>1, ViewsFit, PTL

=============================================================================

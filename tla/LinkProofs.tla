----------------------------- MODULE LinkProofs -----------------------------
(***************************************************************************)
(* Proofs about Session, for every set of lines and bursts (one write at a *)
(* time, the refinement of Channel), and about PlayerLink: a session       *)
(* inside it is a session, so the same holds under its server and client.  *)
(***************************************************************************)
EXTENDS PlayerLink, SequenceTheorems, TLAPS

-----------------------------------------------------------------------------
(* The session by itself.                                                  *)

\* Putting the front of a sequence behind another one.
LEMMA MoveFront ==
  ASSUME NEW S, NEW s \in Seq(S), NEW t \in Seq(S), t # <<>>
  PROVE  Append(s, Head(t)) \o Tail(t) = s \o t
  OBVIOUS

\* A sequence is a part of its extensions.
LEMMA ExtensionHasPart ==
  ASSUME NEW S, NEW s \in Seq(S), NEW t \in Seq(S)
  PROVE  C!IsPartOf(s, s \o t)
  <1>1. Len(s \o t) = Len(s) + Len(t) /\ Len(s) \in Nat /\ Len(t) \in Nat
    BY ConcatProperties, LenProperties
  <1>2. \A i \in 1..Len(s) : (s \o t)[i] = s[i]
    BY ConcatProperties
  <1>3. s \o t \in Seq(S)
    BY ConcatProperties
  <1>4. SubSeq(s \o t, 1, Len(s)) = s
    BY <1>1, <1>2, <1>3
  <1> QED
    BY <1>1, <1>4 DEF C!IsPartOf

\* The first lines of a sequence are a part of it.
LEMMA CutIsPart ==
  ASSUME NEW S, NEW s \in Seq(S), NEW n \in 0..Len(s)
  PROVE  /\ SubSeq(s, 1, n) \in Seq(S)
         /\ C!IsPartOf(SubSeq(s, 1, n), s)
  BY DEF C!IsPartOf

\* Taking lines from the front leaves what follows alone.
LEMMA DropFromConcat ==
  ASSUME NEW S, NEW s \in Seq(S), NEW t \in Seq(S), NEW k \in 1..Len(s)
  PROVE  /\ SubSeq(s, k + 1, Len(s)) \in Seq(S)
         /\ SubSeq(s, k + 1, Len(s)) \o t = SubSeq(s \o t, k + 1, Len(s \o t))
  <1> DEFINE rest == SubSeq(s, k + 1, Len(s))
             all == SubSeq(s \o t, k + 1, Len(s \o t))
  <1>1. Len(s) \in Nat /\ Len(t) \in Nat
    BY LenProperties
  <1>2. /\ s \o t \in Seq(S)
        /\ Len(s \o t) = Len(s) + Len(t)
        /\ \A i \in 1..(Len(s) + Len(t)) :
             (s \o t)[i] = IF i <= Len(s) THEN s[i] ELSE t[i - Len(s)]
    BY ConcatProperties
  <1>3. /\ rest \in Seq(S)
        /\ Len(rest) = Len(s) - k
        /\ \A i \in 1..(Len(s) - k) : rest[i] = s[k + i]
    BY <1>1
  <1>4. /\ all \in Seq(S)
        /\ Len(all) = Len(s) + Len(t) - k
        /\ \A i \in 1..(Len(s) + Len(t) - k) : all[i] = (s \o t)[k + i]
    BY <1>1, <1>2
  <1> HIDE DEF rest, all
  <1>5. /\ rest \o t \in Seq(S)
        /\ Len(rest \o t) = Len(s) - k + Len(t)
        /\ \A i \in 1..(Len(s) - k + Len(t)) :
             (rest \o t)[i] = IF i <= Len(s) - k THEN rest[i] ELSE t[i - (Len(s) - k)]
    <2>1. /\ rest \o t \in Seq(S)
          /\ Len(rest \o t) = Len(rest) + Len(t)
          /\ \A i \in 1..(Len(rest) + Len(t)) :
               (rest \o t)[i] = IF i <= Len(rest) THEN rest[i] ELSE t[i - Len(rest)]
      BY <1>3, ConcatProperties
    <2> QED BY <2>1, <1>3, Zenon
  <1>6. ASSUME NEW i \in 1..Len(rest \o t)
        PROVE  (rest \o t)[i] = all[i]
    <2>1. CASE i <= Len(s) - k
      <3>1. (rest \o t)[i] = s[k + i]
        BY <2>1, <1>3, <1>5, <1>1
      <3>2. all[i] = s[k + i]
        BY <2>1, <1>1, <1>2, <1>4, <1>5
      <3> QED BY <3>1, <3>2
    <2>2. CASE i > Len(s) - k
      <3>1. (rest \o t)[i] = t[i - (Len(s) - k)]
        BY <2>2, <1>1, <1>5
      <3>2. all[i] = t[k + i - Len(s)]
        BY <2>2, <1>1, <1>2, <1>4, <1>5
      <3>3. k + i - Len(s) = i - (Len(s) - k)
        BY <1>1, <1>5
      <3> QED BY <3>1, <3>2, <3>3
    <2> QED BY <2>1, <2>2, <1>1, <1>5
  <1>7. rest \o t = all
    <2>1. Len(rest \o t) = Len(all)
      BY <1>1, <1>4, <1>5
    <2> QED BY <1>4, <1>5, <1>6, <2>1, SeqEqual, Zenon
  <1> QED
    BY <1>3, <1>7 DEF rest, all

-----------------------------------------------------------------------------
(* The invariant.  What it adds to OneWriteAtATime is which line is being  *)
(* written: the front of the outbox, in progress or flushed, or abandoned  *)
(* by a failed write, after which the outbox is never empty again.         *)

SessionTypeOK ==
  /\ transport \in {"tcp", "websocket"}
  /\ reading \in {"accepting", "on", "off"}
  /\ posted \in Seq(Line) /\ outbox \in Seq(Line) /\ wire \in Seq(Line)
  /\ started \in Seq(Line)
  /\ flushed \in Nat
  /\ broken \in BOOLEAN /\ open \in BOOLEAN

FrontBeingWritten ==
  \/ outbox = <<>> /\ started = <<>> /\ flushed = 0
  \/ outbox # <<>> /\ started = <<Head(outbox)>> /\ flushed = 0
  \/ outbox # <<>> /\ started = <<>> /\ flushed = 1
  \/ outbox # <<>> /\ started = <<>> /\ flushed = 0 /\ ~open

TcpPostsNothing == transport = "tcp" => posted = <<>>

SessionInv == SessionTypeOK /\ FrontBeingWritten /\ TcpPostsNothing

LEMMA BurstFacts ==
  ASSUME NEW ls \in Bursts
  PROVE  ls \in Seq(Line) /\ ls # <<>>
  BY BurstsAssumption

\* The function send runs or posts keeps the front of the outbox being written.
LEMMA EnqueueInv ==
  ASSUME SessionInv, NEW ls \in Seq(Line), ls # <<>>, enqueue(ls),
         flushed' = flushed, open' = open
  PROVE  /\ outbox' \in Seq(Line) /\ started' \in Seq(Line)
         /\ outbox' = outbox \o ls
         /\ outbox' # <<>>
         /\ FrontBeingWritten'
  <1> USE DEF SessionInv, SessionTypeOK
  <1>1. outbox' = outbox \o ls
    BY DEF enqueue
  <1>2. outbox' \in Seq(Line) /\ outbox' # <<>>
    BY <1>1, ConcatProperties, ConcatSimplifications
  <1>3. CASE outbox = <<>>
    <2>1. outbox' = ls
      BY <1>1, <1>3, ConcatEmptySeq
    <2>2. started = <<>> /\ flushed = 0
      BY <1>3 DEF FrontBeingWritten
    <2>3. started' = <<Head(outbox')>>
      BY <1>3, <2>1, <2>2, <1>2 DEF enqueue, do_write
    <2> QED
      BY <1>1, <1>2, <2>2, <2>3, HeadTailProperties DEF FrontBeingWritten
  <1>4. CASE outbox # <<>>
    <2>1. started' = started
      BY <1>4 DEF enqueue
    <2>2. Head(outbox') = Head(outbox)
      BY <1>1, <1>4
    <2> QED
      BY <1>1, <1>2, <1>4, <2>1, <2>2 DEF FrontBeingWritten
  <1> QED
    BY <1>3, <1>4

\* send, from whichever handler.
LEMMA SendInv ==
  ASSUME SessionInv, NEW ls \in Bursts, send(ls),
         UNCHANGED <<transport, reading, open, wire>>
  PROVE  SessionInv'
  <1>1. ls \in Seq(Line) /\ ls # <<>>
    BY BurstFacts
  <1>2. CASE transport = "tcp"
    <2>1. enqueue(ls) /\ posted' = posted /\ flushed' = flushed /\ broken' = broken
      BY <1>2 DEF send
    <2>2. FrontBeingWritten' /\ outbox' \in Seq(Line) /\ started' \in Seq(Line)
      BY <1>1, <2>1, EnqueueInv
    <2> QED
      BY <2>1, <2>2 DEF SessionInv, SessionTypeOK, TcpPostsNothing
  <1>3. CASE transport # "tcp"
    <2>1. /\ posted' = posted \o ls
          /\ UNCHANGED <<outbox, started, flushed, broken>>
      BY <1>3 DEF send
    <2>2. posted' \in Seq(Line)
      BY <1>1, <2>1, ConcatProperties DEF SessionInv, SessionTypeOK
    <2> QED
      BY <1>3, <2>1, <2>2 DEF SessionInv, SessionTypeOK, TcpPostsNothing, FrontBeingWritten
  <1> QED
    BY <1>2, <1>3

LEMMA SessionInitInv == SessionInit => SessionInv
  <1> SUFFICES ASSUME SessionInit PROVE SessionInv
    OBVIOUS
  <1>1. <<>> \in Seq(Line)
    BY EmptySeq
  <1>2. SessionTypeOK
    BY <1>1 DEF SessionInit, SessionTypeOK
  <1>3. FrontBeingWritten /\ TcpPostsNothing
    BY DEF SessionInit, FrontBeingWritten, TcpPostsNothing
  <1> QED
    BY <1>2, <1>3 DEF SessionInv

LEMMA RunPostedInv == SessionInv /\ run_posted => SessionInv'
  <1> SUFFICES ASSUME SessionInv, run_posted PROVE SessionInv'
    OBVIOUS
  <1>1. <<Head(posted)>> \in Seq(Line) /\ <<Head(posted)>> # <<>> /\ Tail(posted) \in Seq(Line)
    BY HeadTailProperties DEF run_posted, SessionInv, SessionTypeOK
  <1>2. enqueue(<<Head(posted)>>) /\ flushed' = flushed /\ open' = open
    BY DEF run_posted
  <1>3. FrontBeingWritten' /\ outbox' \in Seq(Line) /\ started' \in Seq(Line)
    BY <1>1, <1>2, EnqueueInv
  <1> QED
    BY <1>1, <1>3 DEF run_posted, SessionInv, SessionTypeOK, TcpPostsNothing

LEMMA FlushInv == SessionInv /\ flush => SessionInv'
  <1> SUFFICES ASSUME SessionInv, flush PROVE SessionInv'
    OBVIOUS
  <1>1. started = <<Head(outbox)>> /\ flushed = 0 /\ outbox # <<>>
    BY DEF flush, SessionInv, FrontBeingWritten
  <1>2. Head(started) \in Line
    BY <1>1, HeadTailProperties DEF SessionInv, SessionTypeOK
  <1>3. wire' \in Seq(Line)
    BY <1>2, AppendProperties DEF flush, SessionInv, SessionTypeOK
  <1>4. started' = <<>> /\ flushed' = 1
    BY <1>1 DEF flush
  <1> QED
    BY <1>1, <1>3, <1>4 DEF flush, SessionInv, SessionTypeOK, FrontBeingWritten, TcpPostsNothing

LEMMA WriteDoneInv == SessionInv /\ write_done => SessionInv'
  <1> SUFFICES ASSUME SessionInv, write_done PROVE SessionInv'
    OBVIOUS
  <1>1. started = <<>> /\ flushed = 1 /\ outbox # <<>>
    BY DEF write_done, SessionInv, FrontBeingWritten
  <1>2. flushed' = 0 /\ outbox' = Tail(outbox) /\ outbox' \in Seq(Line)
    BY <1>1, HeadTailProperties DEF write_done, SessionInv, SessionTypeOK
  <1>3. /\ FrontBeingWritten'
        /\ started' \in Seq(Line)
    <2>1. CASE outbox' = <<>>
      BY <1>1, <1>2, <2>1 DEF write_done, FrontBeingWritten
    <2>2. CASE outbox' # <<>>
      <3>1. started' = <<Head(outbox')>> /\ Head(outbox') \in Line
        BY <1>1, <1>2, <2>2, HeadTailProperties DEF write_done, do_write
      <3> QED
        BY <1>2, <2>2, <3>1 DEF FrontBeingWritten
    <2> QED
      BY <2>1, <2>2
  <1> QED
    BY <1>2, <1>3 DEF write_done, SessionInv, SessionTypeOK, TcpPostsNothing

LEMMA WriteErrorInv == SessionInv /\ write_error => SessionInv'
  <1> SUFFICES ASSUME SessionInv, write_error PROVE SessionInv'
    OBVIOUS
  <1>1. started = <<Head(outbox)>> /\ flushed = 0 /\ outbox # <<>>
    BY DEF write_error, SessionInv, FrontBeingWritten
  <1>2. started' = <<>>
    BY <1>1 DEF write_error
  <1> QED
    BY <1>1, <1>2 DEF write_error, SessionInv, SessionTypeOK, FrontBeingWritten, TcpPostsNothing

LEMMA ConnectionLostInv == SessionInv /\ connection_lost => SessionInv'
  <1> SUFFICES ASSUME SessionInv, connection_lost PROVE SessionInv'
    OBVIOUS
  <1>1. wire' \in Seq(Line)
    BY CutIsPart DEF connection_lost, SessionInv, SessionTypeOK
  <1> QED
    BY <1>1 DEF connection_lost, writeVars, SessionInv, SessionTypeOK,
                FrontBeingWritten, TcpPostsNothing

LEMMA DeliverInv ==
  ASSUME SessionInv, NEW k, deliver(k)
  PROVE  SessionInv'
  <1>1. wire' \in Seq(Line)
    BY DropFromConcat, EmptySeq DEF deliver, SessionInv, SessionTypeOK
  <1> QED
    BY <1>1 DEF deliver, writeVars, SessionInv, SessionTypeOK, FrontBeingWritten, TcpPostsNothing

LEMMA SessionStepInv == SessionInv /\ [SessionNext]_sessionVars => SessionInv'
  <1> SUFFICES ASSUME SessionInv, [SessionNext]_sessionVars PROVE SessionInv'
    OBVIOUS
  <1>1. CASE Send
    BY <1>1, SendInv DEF Send
  <1>2. CASE accepted
    BY <1>2 DEF accepted, writeVars, SessionInv, SessionTypeOK, FrontBeingWritten, TcpPostsNothing
  <1>3. CASE read_error
    BY <1>3 DEF read_error, writeVars, SessionInv, SessionTypeOK, FrontBeingWritten, TcpPostsNothing
  <1>4. CASE UNCHANGED sessionVars
    BY <1>4 DEF sessionVars, writeVars, SessionInv, SessionTypeOK, FrontBeingWritten, TcpPostsNothing
  <1> QED
    BY <1>1, <1>2, <1>3, <1>4, RunPostedInv, FlushInv, WriteDoneInv, WriteErrorInv,
       ConnectionLostInv, DeliverInv DEF SessionNext

\* The invariant holds in every behaviour of a session, whatever it sends.
THEOREM SessionInvariant == SessionSpec => []SessionInv
  <1>1. SessionInit => SessionInv
    BY SessionInitInv
  <1>2. SessionInv /\ [SessionNext]_sessionVars => SessionInv'
    BY SessionStepInv
  <1> QED
    BY <1>1, <1>2, PTL DEF SessionSpec

\* At most one write of a session is in progress at any time: send starts one
\* only into an empty outbox, and a completion starts the next.
THEOREM SessionWritesOne == SessionSpec => []OneWriteAtATime
  <1>1. SessionInv => OneWriteAtATime
    <2> SUFFICES ASSUME SessionInv PROVE Len(started) + flushed <= 1
      BY DEF OneWriteAtATime
    <2>1. CASE started = <<>> /\ flushed \in {0, 1}
      BY <2>1
    <2>2. CASE started = <<Head(outbox)>> /\ flushed = 0
      <3>1. Len(started) = 1
        BY <2>2
      <3> QED BY <2>2, <3>1
    <2> QED
      BY <2>1, <2>2 DEF SessionInv, FrontBeingWritten
  <1> QED
    BY <1>1, SessionInvariant, PTL

-----------------------------------------------------------------------------
(* The refinement of Channel, one lemma per kind of step.                  *)

\* Lines put after one another, from the left or from the right.
LEMMA LinesAssociate ==
  ASSUME NEW a \in Seq(Line), NEW b \in Seq(Line), NEW c \in Seq(Line)
  PROVE  (a \o b) \o c = a \o (b \o c)
  BY ConcatAssociative

LEMMA TransitType ==
  ASSUME SessionInv
  PROVE  /\ unwritten \in Seq(Line)
         /\ unwritten \o posted \in Seq(Line)
         /\ transit \in Seq(Line)
  <1>1. unwritten \in Seq(Line)
    BY HeadTailProperties DEF unwritten, SessionInv, SessionTypeOK, FrontBeingWritten
  <1>2. unwritten \o posted \in Seq(Line)
    BY <1>1, ConcatProperties DEF SessionInv, SessionTypeOK
  <1> QED
    BY <1>1, <1>2, ConcatProperties DEF transit, SessionInv, SessionTypeOK

\* Lines appended to the outbox, with nothing posted, or to the posted ones.
LEMMA SendIsPut ==
  ASSUME SessionInv, NEW ls \in Bursts, send(ls),
         UNCHANGED <<transport, reading, open, wire>>
  PROVE  [C!Put]_C!chanVars
  <1>0. /\ posted \in Seq(Line) /\ wire \in Seq(Line) /\ outbox \in Seq(Line)
        /\ open' = open /\ wire' = wire
    BY DEF SessionInv, SessionTypeOK
  <1>1. ls \in Seq(Line)
    BY BurstFacts
  <1>2. unwritten \in Seq(Line) /\ unwritten \o posted \in Seq(Line) /\ transit \in Seq(Line)
    BY TransitType
  <1>3. CASE ~open
    BY <1>3 DEF transit, C!chanVars
  <1>4. CASE open
    <2>1. unwritten' \o posted' = (unwritten \o posted) \o ls
      <3>1. CASE transport = "tcp"
        <4>1. outbox' = outbox \o ls /\ posted = <<>> /\ posted' = <<>> /\ flushed' = flushed
          BY <3>1 DEF send, enqueue, SessionInv, TcpPostsNothing
        <4>2. unwritten' = unwritten \o ls
          <5>1. CASE flushed > 0
            <6>1. outbox # <<>>
              BY <5>1 DEF SessionInv, FrontBeingWritten
            <6>2. Tail(outbox \o ls) = Tail(outbox) \o ls
              BY <1>0, <1>1, <6>1
            <6> QED BY <4>1, <5>1, <6>2 DEF unwritten
          <5>2. CASE ~(flushed > 0)
            BY <4>1, <5>2 DEF unwritten
          <5> QED BY <5>1, <5>2
        <4>3. unwritten \o ls \in Seq(Line)
          BY <1>1, <1>2, ConcatProperties
        <4> QED
          BY <1>2, <4>1, <4>2, <4>3, ConcatEmptySeq
      <3>2. CASE transport # "tcp"
        <4>1. unwritten' = unwritten /\ posted' = posted \o ls
          BY <3>2 DEF send, unwritten
        <4>2. (unwritten \o posted) \o ls = unwritten \o (posted \o ls)
          <5>1. unwritten \in Seq(Line) /\ posted \in Seq(Line) /\ ls \in Seq(Line)
            BY <1>0, <1>1, <1>2
          <5> QED
            BY <5>1, LinesAssociate
        <4> QED
          BY <4>1, <4>2
      <3> QED BY <3>1, <3>2
    <2>2. transit' = transit \o ls
      <3>1. transit = wire \o (unwritten \o posted)
        BY <1>4 DEF transit
      <3>2. transit' = wire \o ((unwritten \o posted) \o ls)
        BY <1>0, <1>4, <2>1 DEF transit
      <3>3. (wire \o (unwritten \o posted)) \o ls = wire \o ((unwritten \o posted) \o ls)
        <4> DEFINE mid == unwritten \o posted
        <4>1. mid \in Seq(Line) /\ wire \in Seq(Line) /\ ls \in Seq(Line)
          BY <1>0, <1>1, <1>2
        <4> HIDE DEF mid
        <4>2. (wire \o mid) \o ls = wire \o (mid \o ls)
          BY <4>1, LinesAssociate
        <4> QED BY <4>2 DEF mid
      <3>4. transit \o ls = wire \o ((unwritten \o posted) \o ls)
        BY <3>1, <3>3, Zenon
      <3> QED
        BY <3>2, <3>4, Zenon
    <2>3. transit' \in Seq(Line) /\ C!IsPartOf(transit, transit')
      BY <1>1, <1>2, <2>2, ConcatProperties, ExtensionHasPart
    <2> QED
      BY <1>4, <2>3 DEF C!Put
  <1> QED
    BY <1>3, <1>4

LEMMA RunPostedStutters ==
  ASSUME SessionInv, run_posted
  PROVE  transit' = transit
  <1>1. /\ posted \in Seq(Line) /\ posted # <<>> /\ outbox \in Seq(Line)
        /\ <<Head(posted)>> \in Seq(Line) /\ Tail(posted) \in Seq(Line)
    BY HeadTailProperties DEF run_posted, SessionInv, SessionTypeOK
  <1>2. /\ outbox' = outbox \o <<Head(posted)>> /\ posted' = Tail(posted)
        /\ flushed' = flushed /\ open' = open /\ wire' = wire
    BY DEF run_posted, enqueue
  <1>3. unwritten \in Seq(Line)
    BY TransitType
  <1>4. unwritten' = unwritten \o <<Head(posted)>>
    <2>1. CASE flushed > 0
      <3>1. outbox # <<>>
        BY <2>1 DEF SessionInv, FrontBeingWritten
      <3>2. Tail(outbox \o <<Head(posted)>>) = Tail(outbox) \o <<Head(posted)>>
        BY <1>1, <3>1
      <3> QED BY <1>2, <2>1, <3>2 DEF unwritten
    <2>2. CASE ~(flushed > 0)
      BY <1>2, <2>2 DEF unwritten
    <2> QED BY <2>1, <2>2
  <1>5. (unwritten \o <<Head(posted)>>) \o Tail(posted) = unwritten \o posted
    <2>1. <<Head(posted)>> \o Tail(posted) = posted
      BY <1>1
    <2>2. (unwritten \o <<Head(posted)>>) \o Tail(posted)
            = unwritten \o (<<Head(posted)>> \o Tail(posted))
      BY <1>1, <1>3, LinesAssociate
    <2> QED BY <2>1, <2>2
  <1> QED
    BY <1>2, <1>4, <1>5 DEF transit

LEMMA FlushStutters ==
  ASSUME SessionInv, flush
  PROVE  transit' = transit
  <1>1. /\ posted \in Seq(Line) /\ outbox \in Seq(Line) /\ wire \in Seq(Line)
        /\ outbox # <<>> /\ started = <<Head(outbox)>> /\ flushed = 0
    BY DEF flush, SessionInv, SessionTypeOK, FrontBeingWritten
  <1>2. unwritten = outbox /\ unwritten' = Tail(outbox) /\ Head(started) = Head(outbox)
    BY <1>1 DEF flush, unwritten
  <1>3. posted' = posted /\ open' = open
    BY DEF flush
  <1>4. CASE ~open
    BY <1>3, <1>4 DEF flush, transit
  <1>5. CASE open
    <2>1. wire' = Append(wire, Head(outbox)) /\ Tail(outbox) \in Seq(Line) /\ wire' \in Seq(Line)
      BY <1>1, <1>2, <1>5, HeadTailProperties, AppendProperties DEF flush
    <2>2. wire' \o (Tail(outbox) \o posted) = (wire' \o Tail(outbox)) \o posted
      <3>1. PICK a, b, c : a = wire' /\ b = Tail(outbox) /\ c = posted
        OBVIOUS
      <3>2. a \in Seq(Line) /\ b \in Seq(Line) /\ c \in Seq(Line)
        BY <1>1, <2>1, <3>1
      <3>3. (a \o b) \o c = a \o (b \o c)
        BY <3>2, LinesAssociate
      <3> QED BY <3>1, <3>3
    <2>3. wire' \o Tail(outbox) = wire \o outbox
      BY <1>1, <2>1, MoveFront
    <2>4. (wire \o outbox) \o posted = wire \o (outbox \o posted)
      BY <1>1, LinesAssociate
    <2> QED
      BY <1>2, <1>3, <1>5, <2>2, <2>3, <2>4 DEF transit
  <1> QED BY <1>4, <1>5

LEMMA WriteDoneStutters ==
  ASSUME SessionInv, write_done
  PROVE  transit' = transit
  <1>1. outbox' = Tail(outbox) /\ flushed = 1 /\ flushed' = 0
    BY DEF write_done, SessionInv, FrontBeingWritten
  <1>2. unwritten' = unwritten
    BY <1>1 DEF unwritten
  <1> QED
    BY <1>2 DEF write_done, transit

LEMMA LossIsCut ==
  ASSUME SessionInv, connection_lost
  PROVE  C!Cut
  <1>1. wire \in Seq(Line) /\ open /\ ~open'
    BY DEF connection_lost, SessionInv, SessionTypeOK
  <1>2. PICK n \in 0..Len(wire) : wire' = SubSeq(wire, 1, n)
    BY DEF connection_lost
  <1>3. transit = wire \o (unwritten \o posted) /\ transit' = wire'
    BY <1>1 DEF transit
  <1>4. unwritten \o posted \in Seq(Line)
    BY TransitType
  <1>5. transit' = SubSeq(transit, 1, n)
    BY <1>1, <1>2, <1>3, <1>4
  <1>6. n \in 0..Len(transit) /\ transit \in Seq(Line)
    <2>1. Len(transit) = Len(wire) + Len(unwritten \o posted) /\ transit \in Seq(Line)
      BY <1>1, <1>3, <1>4, ConcatProperties
    <2> QED BY <1>1, <1>4, <2>1, LenProperties
  <1>7. transit' \in Seq(Line) /\ C!IsPartOf(transit', transit)
    BY <1>5, <1>6, CutIsPart
  <1> QED
    BY <1>1, <1>7 DEF C!Cut, SessionInv, SessionTypeOK, connection_lost

LEMMA DeliveryIsTake ==
  ASSUME SessionInv, NEW k, deliver(k)
  PROVE  C!Take
  <1>1. /\ wire \in Seq(Line) /\ k \in 1..Len(wire)
        /\ wire' = SubSeq(wire, k + 1, Len(wire))
        /\ posted' = posted /\ unwritten' = unwritten /\ open' = open
    BY DEF deliver, writeVars, unwritten, SessionInv, SessionTypeOK
  <1>2. unwritten \o posted \in Seq(Line)
    BY TransitType
  <1>3. transit' = SubSeq(transit, k + 1, Len(transit)) /\ k \in 1..Len(transit)
    <2>1. CASE ~open
      BY <1>1, <2>1 DEF transit
    <2>2. CASE open
      <3>1. transit = wire \o (unwritten \o posted) /\ transit' = wire' \o (unwritten \o posted)
        BY <1>1, <2>2 DEF transit
      <3>2. transit' = SubSeq(transit, k + 1, Len(transit))
        BY <1>1, <1>2, <3>1, DropFromConcat
      <3>3. Len(transit) = Len(wire) + Len(unwritten \o posted)
        BY <1>1, <1>2, <3>1, ConcatProperties
      <3> QED BY <1>1, <1>2, <3>2, <3>3, LenProperties
    <2> QED BY <2>1, <2>2
  <1> QED
    BY <1>1, <1>3 DEF C!Take

\* Every step of a session puts lines into the channel, takes some out of it,
\* cuts it, or is invisible.
LEMMA SessionStepImplementsChannel ==
  SessionInv /\ [SessionNext]_sessionVars => [C!ChannelNext]_C!chanVars
  <1> SUFFICES ASSUME SessionInv, [SessionNext]_sessionVars
               PROVE  [C!ChannelNext]_C!chanVars
    OBVIOUS
  <1> USE DEF C!ChannelNext
  <1>1. CASE Send
    BY <1>1, SendIsPut DEF Send
  <1>2. CASE run_posted
    BY <1>2, RunPostedStutters DEF run_posted, C!chanVars
  <1>3. CASE flush
    BY <1>3, FlushStutters DEF flush, C!chanVars
  <1>4. CASE write_done
    BY <1>4, WriteDoneStutters DEF write_done, C!chanVars
  <1>5. CASE write_error
    BY <1>5 DEF write_error, transit, C!chanVars
  <1>6. CASE accepted \/ read_error \/ UNCHANGED sessionVars
    BY <1>6 DEF accepted, read_error, sessionVars, writeVars, transit, unwritten, C!chanVars
  <1>7. CASE connection_lost
    BY <1>7, LossIsCut
  <1>8. ASSUME NEW k \in 1..Len(wire), deliver(k)
        PROVE  [C!ChannelNext]_C!chanVars
    BY <1>8, DeliveryIsTake
  <1> QED
    BY <1>1, <1>2, <1>3, <1>4, <1>5, <1>6, <1>7, <1>8 DEF SessionNext

\* What a session sends arrives as in a channel: in order, nothing twice,
\* nothing left out before the connection is lost.
THEOREM SessionImplementsChannel == SessionSpec => ImplementsChannel
  <1>1. SessionInit => C!ChannelInit
    <2> SUFFICES ASSUME SessionInit PROVE transit = <<>> /\ open = TRUE
      BY DEF C!ChannelInit
    <2>1. <<>> \o (<<>> \o <<>>) = <<>>
      BY EmptySeq, ConcatEmptySeq
    <2> QED
      BY <2>1 DEF SessionInit, transit, unwritten
  <1>2. SessionInv /\ [SessionNext]_sessionVars => [C!ChannelNext]_C!chanVars
    BY SessionStepImplementsChannel
  <1> QED
    BY <1>1, <1>2, SessionInvariant, PTL DEF SessionSpec, ImplementsChannel, C!ChannelSpec

-----------------------------------------------------------------------------
(* The session between a client and a dispatcher.                          *)

\* Nothing is sent to a session before its handshake: the server knows no
\* authorized player, and so nobody who waits or plays, without a request.
AcceptedFirst == authorized \/ phase # "menu" => reading # "accepting"

LinkInv == SessionInv /\ AcceptedFirst

LEMMA NoteBursts ==
  /\ \A n \in 1..2 : note(n) \in Bursts
  /\ \A n \in 3..4 : note(n) \o match \in Bursts
  /\ \A n \in 1..2 : note(n) \o end \in Bursts
  /\ \A n \in 0..2 : end \o note(n) \in Bursts
  BY HandlerAssumption DEF HandlerBursts

\* Every answer of the dispatcher is one burst; only an auth request can make
\* the player authorized, and only an authorized one leaves the menu.
LEMMA HandlersSend ==
  ASSUME NEW type, handle_command(type)
  PROVE  \E ls \in Bursts : send(ls)
  <1> USE NoteBursts DEF reply
  <1>1. CASE handle_auth
    BY <1>1 DEF handle_auth
  <1>2. CASE reply(note(1), phase)
    BY <1>2
  <1>3. CASE handle_queue
    BY <1>3 DEF handle_queue
  <1>4. CASE handle_leave
    BY <1>4 DEF handle_leave
  <1>5. CASE handle_move
    BY <1>5 DEF handle_move
  <1>6. CASE handle_draw
    <2>1. \A next : reply(end \o note(1), next) => \E ls \in Bursts : send(ls)
      OBVIOUS
    <2> QED BY <1>6, <2>1 DEF handle_draw
  <1> QED
    BY <1>1, <1>2, <1>3, <1>4, <1>5, <1>6 DEF handle_command

LEMMA OthersSend ==
  ASSUME Others
  PROVE  (\E ls \in Bursts : send(ls)) /\ (authorized \/ phase # "menu")
  BY NoteBursts DEF Others, reply

LEMMA QuitCloses ==
  ASSUME SessionInv, Quit
  PROVE  connection_lost \/ (\E k \in 1..Len(wire) : deliver(k)) \/ UNCHANGED sessionVars
  <1>1. /\ wire' = <<>> /\ open' = FALSE /\ wire \in Seq(Line) /\ open \in BOOLEAN
        /\ UNCHANGED <<transport, reading, writeVars>>
    BY DEF Quit, SessionInv, SessionTypeOK
  <1>2. CASE open
    <2>1. SubSeq(wire, 1, 0) = <<>> /\ 0 \in 0..Len(wire)
      BY <1>1, SubSeqEmpty, LenProperties
    <2> QED
      BY <1>1, <1>2, <2>1 DEF connection_lost
  <1>3. CASE ~open /\ wire = <<>>
    BY <1>1, <1>3 DEF sessionVars
  <1>4. CASE ~open /\ wire # <<>>
    <2>1. Len(wire) \in 1..Len(wire)
      BY <1>1, <1>4, EmptySeq
    <2>2. SubSeq(wire, Len(wire) + 1, Len(wire)) = <<>>
      BY <2>1, SubSeqEmpty
    <2> QED
      BY <1>1, <1>4, <2>1, <2>2 DEF deliver
  <1> QED
    BY <1>1, <1>2, <1>3, <1>4

\* Every step of the link is a step of its session, or does not touch it.
LEMMA LinkStepIsSessionStep ==
  LinkInv /\ [LinkNext]_linkVars => [SessionNext]_sessionVars
  <1> SUFFICES ASSUME LinkInv, [LinkNext]_linkVars PROVE [SessionNext]_sessionVars
    OBVIOUS
  <1> USE DEF SessionNext
  <1>1. CASE ServeRequest
    <2>1. \E ls \in Bursts : send(ls)
      BY <1>1, HandlersSend DEF ServeRequest
    <2> QED
      BY <1>1, <2>1 DEF ServeRequest, Send
  <1>2. CASE OthersAct
    <2>1. (\E ls \in Bursts : send(ls)) /\ reading # "accepting"
      BY <1>2, OthersSend DEF OthersAct, LinkInv, AcceptedFirst
    <2> QED
      BY <1>2, <2>1 DEF OthersAct, Send
  <1>3. CASE WriteFails \/ ReadFails \/ Accepted \/ WriteProgress \/ Lost
    BY <1>3 DEF WriteFails, ReadFails, Accepted, WriteProgress, Lost
  <1>4. CASE ReadLines \/ BrowserReceives
    <2>1. \E k : deliver(k)
      BY <1>4 DEF ReadLines, BrowserReceives
    <2> QED
      BY <2>1 DEF deliver
  <1>5. CASE Quit
    BY <1>5, QuitCloses DEF LinkInv
  <1>6. ASSUME NEW type, Command(type) \/ BrowserSends(type)
        PROVE  UNCHANGED sessionVars
    BY <1>6 DEF Command, BrowserSends
  <1>7. CASE UNCHANGED linkVars
    BY <1>7 DEF linkVars
  <1> QED
    BY <1>1, <1>2, <1>3, <1>4, <1>5, <1>6, <1>7 DEF LinkNext

LEMMA AcceptedFirstStep == LinkInv /\ [LinkNext]_linkVars => AcceptedFirst'
  <1> SUFFICES ASSUME LinkInv, [LinkNext]_linkVars PROVE AcceptedFirst'
    OBVIOUS
  <1> USE DEF LinkInv, AcceptedFirst
  <1>1. CASE ServeRequest
    BY <1>1 DEF ServeRequest
  <1>2. CASE OthersAct
    BY <1>2, OthersSend DEF OthersAct
  <1>3. CASE WriteFails
    BY <1>3 DEF WriteFails, on_disconnect, write_error
  <1>4. CASE ReadFails
    BY <1>4 DEF ReadFails, read_error, accepted
  <1>5. CASE Accepted
    BY <1>5 DEF Accepted, serverSide
  <1>6. CASE WriteProgress
    BY <1>6 DEF WriteProgress, serverSide, flush, write_done, run_posted
  <1>7. CASE Lost \/ ReadLines \/ BrowserReceives
    BY <1>7 DEF Lost, ReadLines, BrowserReceives, connection_lost, deliver, serverSide
  <1>8. CASE Quit
    BY <1>8 DEF Quit, serverSide
  <1>9. ASSUME NEW type, Command(type) \/ BrowserSends(type)
        PROVE  AcceptedFirst'
    BY <1>9 DEF Command, BrowserSends, serverSide, sessionVars
  <1>10. CASE UNCHANGED linkVars
    BY <1>10 DEF linkVars, serverSide, sessionVars
  <1> QED
    BY <1>1, <1>2, <1>3, <1>4, <1>5, <1>6, <1>7, <1>8, <1>9, <1>10 DEF LinkNext

LEMMA LinkInvariant == LinkSpec => []LinkInv
  <1>1. LinkInit => LinkInv
    BY SessionInitInv DEF LinkInit, LinkInv, AcceptedFirst
  <1>2. LinkInv /\ [LinkNext]_linkVars => LinkInv'
    BY LinkStepIsSessionStep, SessionStepInv, AcceptedFirstStep DEF LinkInv
  <1> QED
    BY <1>1, <1>2, PTL DEF LinkSpec

\* The console client, the browser, the dispatcher and the other players use
\* the session as Session assumes.
THEOREM LinkUsesSession == LinkSpec => SessionSpec
  <1>1. LinkInit => SessionInit
    BY DEF LinkInit
  <1>2. LinkInv /\ [LinkNext]_linkVars => [SessionNext]_sessionVars
    BY LinkStepIsSessionStep
  <1> QED
    BY <1>1, <1>2, LinkInvariant, PTL DEF LinkSpec, SessionSpec

\* Through all that, one write at a time is in progress.
THEOREM LinkWritesOne == LinkSpec => []OneWriteAtATime
  BY LinkUsesSession, SessionWritesOne, PTL

\* And what the handlers send to a player arrives in order and without gaps, as
\* long as the connection is up.
THEOREM LinkImplementsChannel == LinkSpec => ImplementsChannel
  BY LinkUsesSession, SessionImplementsChannel, PTL

=============================================================================

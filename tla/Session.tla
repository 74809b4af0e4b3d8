------------------------------ MODULE Session ------------------------------
(***************************************************************************)
(* TcpSession and WebSocketSession: the outbox and its asynchronous        *)
(* writes, the read loop, and the two ways a connection is given up.  Both *)
(* run on the io_context's single thread: a completion handler, a posted   *)
(* function and a command handler are each one atomic action.              *)
(*                                                                         *)
(* The two differ in one point of send: the TCP session dispatches on its  *)
(* strand, which on that thread runs the function before send returns; the *)
(* WebSocket session posts it, so it runs after the handler that called    *)
(* send, in the order of the posts.                                        *)
(*                                                                         *)
(* A line is abstract; a burst is what one handler sends to this session.  *)
(***************************************************************************)
EXTENDS Naturals, Sequences

CONSTANTS
  Line,
  Bursts      \* the lines one handler may send, in order

ASSUME BurstsAssumption == Bursts \subseteq Seq(Line) \ {<<>>}

VARIABLES
  transport,  \* "tcp" or "websocket"
  reading,    \* the read loop: "accepting" (WebSocket handshake), "on", "off"
  posted,     \* lines whose posted function has not run
  outbox,     \* _outbox
  started,    \* lines of the writes in progress, in the order they were started
  flushed,    \* writes whose bytes are out and whose completion is pending
  broken,     \* a write completed with an error
  open,       \* the connection is up
  wire        \* lines on their way to the client

writeVars == <<posted, outbox, started, flushed, broken>>
sessionVars == <<transport, reading, writeVars, open, wire>>

SessionInit ==
  /\ transport \in {"tcp", "websocket"}
  /\ reading = IF transport = "tcp" THEN "on" ELSE "accepting"
  /\ posted = <<>> /\ outbox = <<>> /\ started = <<>>
  /\ flushed = 0
  /\ broken = FALSE
  /\ open = TRUE
  /\ wire = <<>>

\* do_write: an asynchronous write of the front of the outbox starts.
do_write(box) == started' = Append(started, box[1])

\* mutant of enqueue: every line starts a write of its own.
enqueue_eager(ls) ==
  /\ outbox' = outbox \o ls
  /\ do_write(outbox')

\* The function send runs or posts, for each line of a burst in turn: only a
\* line that finds the outbox empty starts a write.
enqueue(ls) ==
  /\ outbox' = outbox \o ls
  /\ IF outbox = <<>> THEN do_write(outbox') ELSE UNCHANGED started

\* mutant of send: the newest line is posted in front of the older ones.
send_in_front(ls) ==
  /\ IF transport = "tcp"
       THEN enqueue(ls) /\ UNCHANGED posted
       ELSE posted' = ls \o posted /\ UNCHANGED <<outbox, started>>
  /\ UNCHANGED <<flushed, broken>>

send(ls) ==
  /\ IF transport = "tcp"
       THEN enqueue(ls) /\ UNCHANGED posted
       ELSE posted' = posted \o ls /\ UNCHANGED <<outbox, started>>
  /\ UNCHANGED <<flushed, broken>>

\* The io_context runs the next posted function.
run_posted ==
  /\ posted # <<>>
  /\ enqueue(<<Head(posted)>>)
  /\ posted' = Tail(posted)
  /\ UNCHANGED <<transport, reading, flushed, broken, open, wire>>

\* The operating system takes the bytes of the oldest write in progress: to
\* the client, or to nowhere when the connection is lost and nobody knows.
flush ==
  /\ started # <<>>
  /\ started' = Tail(started)
  /\ flushed' = flushed + 1
  /\ wire' = IF open THEN Append(wire, Head(started)) ELSE wire
  /\ UNCHANGED <<transport, reading, posted, outbox, broken, open>>

\* mutant of write_done: the next line waits for the next send.
write_done_stops ==
  /\ flushed > 0
  /\ flushed' = flushed - 1
  /\ outbox' = Tail(outbox)
  /\ UNCHANGED <<transport, reading, posted, started, broken, open, wire>>

\* The completion handler of do_write: pop, and write the next line.
write_done ==
  /\ flushed > 0
  /\ flushed' = flushed - 1
  /\ outbox' = Tail(outbox)
  /\ IF outbox' # <<>> THEN do_write(outbox') ELSE UNCHANGED started
  /\ UNCHANGED <<transport, reading, posted, broken, open, wire>>

\* The completion handler with an error, after which the server forgets the
\* session.  The outbox keeps its front: nothing is ever written again.
write_error ==
  /\ ~open
  /\ started # <<>>
  /\ started' = Tail(started)
  /\ broken' = TRUE
  /\ UNCHANGED <<transport, reading, posted, outbox, flushed, open, wire>>

\* start of a WebSocket session: the handshake ends, well or not.
accepted ==
  /\ reading = "accepting"
  /\ \/ reading' = "on"
     \/ ~open /\ reading' = "off"
  /\ UNCHANGED <<transport, writeVars, open, wire>>

\* The completion handler of do_read with an error, after which the server
\* forgets the session; the loop ends.
read_error ==
  /\ ~open /\ reading = "on"
  /\ reading' = "off"
  /\ UNCHANGED <<transport, writeVars, open, wire>>

\* The connection is lost, and the last lines on the wire with it.
connection_lost ==
  /\ open /\ open' = FALSE
  /\ \E n \in 0..Len(wire) : wire' = SubSeq(wire, 1, n)
  /\ UNCHANGED <<transport, reading, writeVars>>

\* The client's socket hands over the first k lines.
deliver(k) ==
  /\ k \in 1..Len(wire)
  /\ wire' = SubSeq(wire, k + 1, Len(wire))
  /\ UNCHANGED <<transport, reading, writeVars, open>>

-----------------------------------------------------------------------------
\* The session alone, under any server: handlers send what they like, when
\* they like, as long as the session is accepted.
Send ==
  /\ reading # "accepting"
  /\ \E ls \in Bursts : send(ls)
  /\ UNCHANGED <<transport, reading, open, wire>>

SessionNext ==
  \/ Send \/ run_posted \/ flush \/ write_done \/ write_error
  \/ accepted \/ read_error \/ connection_lost
  \/ \E k \in 1..Len(wire) : deliver(k)

SessionSpec == SessionInit /\ [][SessionNext]_sessionVars

-----------------------------------------------------------------------------
\* At most one write of a session is in progress at a time, through bursts,
\* posted functions and failed writes: a second async_write before the first
\* completes would mix the bytes of two lines.
OneWriteAtATime == Len(started) + flushed <= 1

\* The lines between send and the client.  The front of the outbox is on the
\* wire already when its write is flushed and not completed; on a lost
\* connection only what is on the wire can still arrive.
unwritten == IF flushed > 0 THEN Tail(outbox) ELSE outbox
transit == IF open THEN wire \o (unwritten \o posted) ELSE wire

\* A session implements Channel: the outbox, the posted functions and the
\* completion handlers together keep the order and the number of the lines.
C == INSTANCE Channel WITH up <- open
ImplementsChannel == C!ChannelSpec
=============================================================================

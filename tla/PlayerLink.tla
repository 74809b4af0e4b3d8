----------------------------- MODULE PlayerLink -----------------------------
(***************************************************************************)
(* One player's connection from end to end: the client, the session        *)
(* (module Session) and the dispatcher that turns its requests into        *)
(* handlers of the server.  A TCP session serves the console client of     *)
(* client.cpp, a WebSocket session the browser.                            *)
(*                                                                         *)
(* The server is reduced to what the player can tell: whether it waits,    *)
(* plays or neither (module ChessServer has the rest), and what each       *)
(* handler sends to this player.  What the other players do is free.       *)
(* A line is what it does to the console client's status: "match" is       *)
(* match_found, "end" is game_over or opponent_disconnected, any other is  *)
(* a "note".                                                               *)
(***************************************************************************)
EXTENDS Session

CONSTANTS
  MaxCommands,   \* bound: requests the client sends after auth
  MaxEvents      \* bound: messages caused by other players

note(n) == [i \in 1..n |-> "note"]
match == <<"match">>
end == <<"end">>

\* What one handler sends to one session, in full.
HandlerBursts ==
  {note(n) : n \in 1..2} \union {note(n) \o match : n \in 3..4}
    \union {note(n) \o end : n \in 1..2} \union {end \o note(n) : n \in 0..2}

ASSUME HandlerAssumption == HandlerBursts \subseteq Bursts

ASSUME BoundsAssumption == MaxCommands \in Nat /\ MaxEvents \in Nat

VARIABLES
  requests,   \* requests on their way to the server, with those in _buffer
  authorized, \* IPlayer::_authorized
  phase,      \* what the server has the player in: "menu", "waiting", "in_game"
  listed,     \* the session is in _all_players
  client,     \* "idle", "blocked" in send_and_process_one, or "gone"
  status,     \* ClientUi::status
  torn,       \* the last read took the first half of the next line with it
  commands, events   \* counted for the bounds

serverSide == <<authorized, phase, listed>>
clientSide == <<client, status, torn>>
bounds == <<commands, events>>
linkVars == <<sessionVars, requests, serverSide, clientSide, bounds>>

LinkInit ==
  /\ SessionInit
  /\ requests = <<"auth">>
  /\ authorized = FALSE
  /\ phase = "menu"
  /\ listed = TRUE
  /\ client = IF transport = "tcp" THEN "blocked" ELSE "idle"
  /\ status = "connected"
  /\ torn = FALSE
  /\ commands = 0 /\ events = 0

-----------------------------------------------------------------------------
(* The server.                                                             *)

reply(ls, next) == send(ls) /\ phase' = next

\* The types MessageFactory::create knows; "leaderboard" is not one of them, so
\* the dispatcher's branch for it is never reached.
Known == {"auth", "move", "chat", "draw", "queue", "leave", "ping"}

handle_auth == \* login_or_register refuses or accepts
  \/ reply(note(1), phase) /\ UNCHANGED authorized
  \/ reply(note(2), phase) /\ authorized' = TRUE

handle_queue ==
  IF phase = "menu"
    THEN \/ reply(note(2), "waiting")
         \/ reply(note(4) \o match, "in_game")
    ELSE reply(note(1), phase)

handle_leave == reply(IF phase = "menu" THEN note(1) ELSE note(2), "menu")

\* on_move: an error, a move (with a check), a mate or an automatic draw.
handle_move ==
  \/ reply(note(1), phase)
  \/ phase = "in_game" /\ reply(note(2), phase)
  \/ phase = "in_game" /\ \E n \in {1, 2} : reply(note(n) \o end, "menu")

handle_draw ==
  \/ reply(note(1), phase)
  \/ phase = "in_game" /\ reply(end \o note(1), "menu")

\* mutant of handle_command: an unauthorized request is dropped in silence.
handle_command_quiet(type) ==
  \/ ~authorized /\ type # "auth" /\ UNCHANGED <<writeVars, phase, authorized>>
  \/ type = "auth" /\ handle_auth
  \/ authorized /\ reply(note(1), phase) /\ UNCHANGED authorized

\* handle_command: parse, then one handler, each of which answers.
handle_command(type) ==
  \/ type = "auth" /\ handle_auth
  \/ /\ type \notin Known \/ type = "ping" \/ (~authorized /\ type # "auth")
     /\ reply(note(1), phase)
     /\ UNCHANGED authorized
  \/ /\ authorized
     /\ \/ type = "queue" /\ handle_queue
        \/ type = "leave" /\ handle_leave
        \/ type = "chat" /\ reply(note(1), phase)
        \/ type = "move" /\ handle_move
        \/ type = "draw" /\ handle_draw
     /\ UNCHANGED authorized

\* The completion handler of do_read with a request.
ServeRequest ==
  /\ reading = "on"
  /\ requests # <<>>
  /\ requests' = Tail(requests)
  /\ handle_command(Head(requests))
  /\ UNCHANGED <<transport, reading, open, wire, listed, clientSide, bounds>>

\* What handlers of other players send to this one.
Others ==
  \/ authorized /\ listed /\ reply(note(1), phase)
  \/ phase = "waiting" /\ reply(note(3) \o match, "in_game")
  \/ phase = "in_game" /\ \E n \in {1, 2} : reply(note(n), phase) \/ reply(note(n) \o end, "menu")
  \/ phase = "in_game" /\ \E n \in 0..2 : reply(end \o note(n), "menu")

OthersAct ==
  /\ events < MaxEvents
  /\ events' = events + 1
  /\ Others
  /\ UNCHANGED <<transport, reading, open, wire, requests, authorized, listed, clientSide, commands>>

\* ChessServer::on_disconnect: out of the queue, the game and the list.
on_disconnect == phase' = "menu" /\ listed' = FALSE

WriteFails ==
  /\ write_error
  /\ on_disconnect
  /\ UNCHANGED <<requests, authorized, clientSide, bounds>>

ReadFails ==
  /\ read_error \/ (accepted /\ reading' = "off")
  /\ on_disconnect
  /\ requests' = <<>>
  /\ UNCHANGED <<authorized, clientSide, bounds>>

Accepted ==
  /\ accepted /\ reading' = "on"
  /\ UNCHANGED <<requests, serverSide, clientSide, bounds>>

WriteProgress ==
  /\ flush \/ write_done \/ run_posted
  /\ UNCHANGED <<requests, serverSide, clientSide, bounds>>

-----------------------------------------------------------------------------
(* The console client, and as much of the browser as the session sees.     *)

\* process_incoming_line: only these two kinds of event change the status.
Shown(line, old) ==
  IF line = "match" THEN "in_game" ELSE IF line = "end" THEN "menu" ELSE old

(***************************************************************************)
(* drain_incoming, and the single read of send_and_process_one: read_until *)
(* into a buffer of its own takes every byte that has arrived, up to some  *)
(* size: k whole lines and perhaps half of the next.  Only the first line  *)
(* is shown; with the buffer the others are gone, and the rest of the torn *)
(* line cannot be parsed.  The answer to auth sets the status to "menu",   *)
(* whatever it says.                                                       *)
(***************************************************************************)
ReadLines ==
  /\ transport = "tcp" /\ client # "gone"
  /\ \E k \in 1..Len(wire) :
       /\ deliver(k)
       /\ torn' \in (IF k < Len(wire) THEN BOOLEAN ELSE {FALSE})
  /\ status' = IF status = "connected" THEN "menu"
               ELSE IF torn THEN status ELSE Shown(Head(wire), status)
  /\ client' = "idle"
  /\ UNCHANGED <<requests, serverSide, bounds>>

\* main's loop: a command of the user.  With the connection lost the write may
\* still succeed; then the read fails.
Command(type) ==
  /\ transport = "tcp" /\ client = "idle" /\ status # "connected"
  /\ commands < MaxCommands
  /\ commands' = commands + 1
  /\ status' = IF type = "queue" THEN "waiting" ELSE IF type = "leave" THEN "menu" ELSE status
  /\ requests' = IF open THEN Append(requests, type) ELSE requests
  /\ client' = "blocked"
  /\ UNCHANGED <<sessionVars, serverSide, torn, events>>

\* /quit, or an error in send_and_process_one: the socket is closed.
Quit ==
  /\ transport = "tcp"
  /\ \/ client = "idle"
     \/ client = "blocked" /\ ~open /\ wire = <<>>
  /\ client' = "gone"
  /\ open' = FALSE /\ wire' = <<>>
  /\ UNCHANGED <<transport, reading, writeVars, requests, serverSide, status, torn, bounds>>

\* The browser sends at any time and gets one line per message.
BrowserSends(type) ==
  /\ transport = "websocket" /\ open
  /\ commands < MaxCommands
  /\ commands' = commands + 1
  /\ requests' = Append(requests, type)
  /\ UNCHANGED <<sessionVars, serverSide, clientSide, events>>

BrowserReceives ==
  /\ transport = "websocket"
  /\ deliver(1)
  /\ UNCHANGED <<requests, serverSide, clientSide, bounds>>

\* The connection is lost, with requests that are still on their way.
Lost ==
  /\ connection_lost
  /\ \E n \in 0..Len(requests) : requests' = SubSeq(requests, 1, n)
  /\ UNCHANGED <<serverSide, clientSide, bounds>>

-----------------------------------------------------------------------------
ConsoleCommands == {"queue", "leave", "chat", "move", "draw", "leaderboard"}
BrowserRequests == ConsoleCommands \union {"auth"}

LinkNext ==
  \/ ServeRequest \/ OthersAct
  \/ WriteFails \/ ReadFails \/ Accepted \/ WriteProgress
  \/ ReadLines \/ Quit \/ BrowserReceives \/ Lost
  \/ \E type \in ConsoleCommands : Command(type)
  \/ \E type \in BrowserRequests : BrowserSends(type)

LinkSpec == LinkInit /\ [][LinkNext]_linkVars

\* The io_context runs what is ready and the network moves; the console client
\* polls its socket, and notices a lost connection when it waits for an answer.
\* Nothing is assumed of the users, nor that a loss is ever noticed by a read.
FairLinkSpec ==
  LinkSpec /\ WF_linkVars(ServeRequest) /\ WF_linkVars(WriteProgress)
           /\ WF_linkVars(ReadLines) /\ WF_linkVars(client = "blocked" /\ Quit)

-----------------------------------------------------------------------------
\* Every request gets a line: the console client, which waits for one after
\* each command without a timeout and without reading its keyboard, is always
\* released, by an answer, another line or the loss of the connection.
AnswerComes == client = "blocked" ~> client # "blocked"

\* While the connection is up nothing stays behind in a session: what was
\* posted is put in the outbox, and each completed write starts the next.
OutboxDrains == posted \o outbox # <<>> ~> posted \o outbox = <<>> \/ ~open

\* Nothing is under way between the console client and the server.
Quiet == transport = "tcp" /\ open /\ client = "idle" /\ requests = <<>> /\ transit = <<>>

\* With nothing under way, the status line of the console client shows the game
\* the server has started for its player.
StatusShowsGame == Quiet /\ phase = "in_game" => status = "in_game"
=============================================================================

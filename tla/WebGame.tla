------------------------------ MODULE WebGame ------------------------------
(***************************************************************************)
(* Two web clients and their server: what App.js believes about the game,  *)
(* while requests and replies are on their way.  A connection is a pair of *)
(* FIFO channels.  The server side is ChessServer cut down to two sessions *)
(* that are logged in: queue, match, moves, draws, leaving.                *)
(*                                                                         *)
(* view[c] holds the four flags of the React component; the board, chat,   *)
(* ratings and the messages shown to the player are left out, and with     *)
(* them every message that changes none of the flags.                      *)
(***************************************************************************)
EXTENDS Naturals, Sequences, FiniteSets

CONSTANTS
  Clients,      \* the two browsers
  NoClient,     \* "by" of a message that is no move
  SameNick,     \* both are logged in under one nick
  MaxRequests,  \* bound: a button works only while fewer of its client's requests
                \* are unhandled
  MaxUnread     \* bound: and while each client has fewer messages unread

ASSUME ClientsAssumption ==
  /\ IsFiniteSet(Clients) /\ Cardinality(Clients) = 2
  /\ NoClient \notin Clients
  /\ SameNick \in BOOLEAN
  /\ MaxRequests \in Nat \ {0} /\ MaxUnread \in Nat \ {0}

VARIABLES
  view,      \* isSearching, inGame, yourTurn, moveInProgress of each client
  up, down,  \* the messages on their way to and from the server
  queue,     \* _queue of the server
  game       \* the side of each client, the side to move, the draw offers

vars == <<view, up, down, queue, game>>

Idle == [searching |-> FALSE, inGame |-> FALSE, yourTurn |-> FALSE, moving |-> FALSE]
NoGame == [on |-> FALSE, toMove |-> NoClient, offers |-> {}]

Init ==
  /\ view = [c \in Clients |-> Idle]
  /\ up = [c \in Clients |-> <<>>]
  /\ down = [c \in Clients |-> <<>>]
  /\ queue = {}
  /\ game = NoGame

Opponent(c) == CHOOSE d \in Clients : d # c
Msg(type) == [type |-> type, by |-> NoClient]

-----------------------------------------------------------------------------
(* The player's buttons.                                                   *)

Ask(c, request) ==
  /\ Len(up[c]) < MaxRequests
  /\ \A d \in Clients : Len(down[d]) < MaxUnread
  /\ up' = [up EXCEPT ![c] = Append(@, request)]
  /\ UNCHANGED <<down, queue, game>>

joinQueue(c) ==
  /\ ~view[c].searching /\ ~view[c].inGame
  /\ Ask(c, "queue")
  /\ view' = [view EXCEPT ![c].searching = TRUE]

leaveQueue(c) ==
  /\ view[c].searching \/ view[c].inGame
  /\ Ask(c, "leave")
  /\ view' = [view EXCEPT ![c] = Idle]

\* The board takes a move only on one's own turn, and none while one is under way.
sendMove(c) ==
  /\ view[c].yourTurn /\ view[c].inGame /\ ~view[c].moving
  /\ Ask(c, "move")
  /\ view' = [view EXCEPT ![c].moving = TRUE]

DrawButtons(c) ==
  /\ view[c].inGame
  /\ \/ ~view[c].moving /\ Ask(c, "offer")
     \/ Ask(c, "accept")
     \/ Ask(c, "decline")
  /\ UNCHANGED view

-----------------------------------------------------------------------------
(* The server: the first request of c is handled.  answers[d] is what the  *)
(* handler sends to d.                                                     *)

Answer(answers) == down' = [d \in Clients |-> down[d] \o answers[d]]
Only(c, messages) == [d \in Clients |-> IF d = c THEN messages ELSE <<>>]
Both(c, mine, theirs) == [d \in Clients |-> IF d = c THEN mine ELSE theirs]

handle_queue(c) ==
  CASE game.on -> Answer(Only(c, <<Msg("error")>>)) /\ UNCHANGED <<queue, game>>
    [] ~game.on /\ c \in queue -> Answer(Only(c, <<Msg("already queued")>>)) /\ UNCHANGED <<queue, game>>
    [] ~game.on /\ c \notin queue /\ queue = {} ->
         /\ queue' = {c}
         /\ Answer(Only(c, <<Msg("queued")>>))
         /\ UNCHANGED game
    [] ~game.on /\ c \notin queue /\ queue # {} ->
         \E white \in Clients :
           /\ queue' = {}
           /\ game' = [on |-> TRUE, toMove |-> white, offers |-> {}]
           /\ LET match(d) == Msg(IF d = white THEN "match_white" ELSE "match_black")
              IN  Answer([d \in Clients |->
                            IF d = c THEN <<Msg("queued"), match(d)>> ELSE <<match(d)>>])

handle_leave(c) ==
  /\ queue' = queue \ {c}
  /\ game' = NoGame
  /\ Answer(Both(c, <<Msg("left")>>, IF game.on THEN <<Msg("opponent_disconnected")>> ELSE <<>>))

\* mutant of handle_move: an illegal move is not answered.
handle_move_silent(c) ==
  /\ UNCHANGED queue
  /\ IF ~game.on
       THEN Answer(Only(c, <<Msg("error")>>)) /\ UNCHANGED game
     ELSE IF game.toMove # c
       THEN Answer(Only(c, <<Msg("Not your turn")>>)) /\ UNCHANGED game
     ELSE \/ UNCHANGED <<down, game>>
          \/ /\ Answer([d \in Clients |-> <<[type |-> "move", by |-> c]>>])
             /\ game' = [game EXCEPT !.toMove = Opponent(c)]

\* A legal move goes on or ends the game; both players hear of it.
handle_move(c) ==
  /\ UNCHANGED queue
  /\ IF ~game.on
       THEN Answer(Only(c, <<Msg("error")>>)) /\ UNCHANGED game
     ELSE IF game.toMove # c
       THEN Answer(Only(c, <<Msg("Not your turn")>>)) /\ UNCHANGED game
     ELSE \/ Answer(Only(c, <<Msg("Illegal move")>>)) /\ UNCHANGED game
          \/ /\ Answer([d \in Clients |-> <<[type |-> "move", by |-> c]>>])
             /\ game' = [game EXCEPT !.toMove = Opponent(c)]
          \/ /\ Answer([d \in Clients |-> <<[type |-> "move", by |-> c], Msg("game_over")>>])
             /\ game' = NoGame

handle_draw(c, action) ==
  /\ UNCHANGED queue
  /\ IF ~game.on
       THEN Answer(Only(c, <<Msg("error")>>)) /\ UNCHANGED game
     ELSE IF action = "offer"
       THEN /\ game' = [game EXCEPT !.offers = @ \union {c}]
            /\ UNCHANGED down
     ELSE IF Opponent(c) \notin game.offers
       THEN Answer(Only(c, <<Msg("error")>>)) /\ UNCHANGED game
     ELSE IF action = "accept"
       THEN /\ game' = NoGame
            /\ Answer(Both(c, <<Msg("game_over"), Msg("draw accepted")>>, <<Msg("game_over")>>))
       ELSE /\ game' = [game EXCEPT !.offers = @ \ {Opponent(c)}]
            /\ UNCHANGED down

Handle(c) ==
  /\ up[c] # <<>>
  /\ up' = [up EXCEPT ![c] = Tail(@)]
  /\ CASE Head(up[c]) = "queue" -> handle_queue(c)
       [] Head(up[c]) = "leave" -> handle_leave(c)
       [] Head(up[c]) = "move"  -> handle_move(c)
       [] OTHER                 -> handle_draw(c, Head(up[c]))
  /\ UNCHANGED view

-----------------------------------------------------------------------------
(* onmessage.                                                              *)

\* Whether the client takes a move for its own: it compares nicks.
IsOwn(c, by) == by = c \/ SameNick

\* mutants of Shown: a refusal leaves the board locked; the end of a game by the
\* opponent's departure is only written to the chat; a match found leaves the
\* search on the screen.
Shown_locked(c, v, m) ==
  CASE m.type \in {"left", "game_over", "opponent_disconnected"} -> Idle
    [] m.type = "match_white" -> [Idle EXCEPT !.inGame = TRUE, !.yourTurn = TRUE]
    [] m.type = "match_black" -> [Idle EXCEPT !.inGame = TRUE]
    [] m.type = "move" -> [v EXCEPT !.yourTurn = ~IsOwn(c, m.by), !.moving = FALSE]
    [] OTHER -> v

Shown_stays(c, v, m) ==
  CASE m.type \in {"left", "game_over"} -> Idle
    [] m.type = "match_white" -> [Idle EXCEPT !.inGame = TRUE, !.yourTurn = TRUE]
    [] m.type = "match_black" -> [Idle EXCEPT !.inGame = TRUE]
    [] OTHER -> v

Shown_searching(c, v, m) ==
  CASE m.type \in {"left", "game_over", "opponent_disconnected"} -> Idle
    [] m.type = "match_white" -> [v EXCEPT !.inGame = TRUE, !.yourTurn = TRUE]
    [] m.type = "match_black" -> [v EXCEPT !.inGame = TRUE, !.yourTurn = FALSE]
    [] OTHER -> v

Shown(c, v, m) ==
  CASE m.type \in {"left", "game_over", "opponent_disconnected"} -> Idle
    [] m.type = "draw accepted" ->
         [v EXCEPT !.inGame = FALSE, !.searching = FALSE, !.moving = FALSE]
    [] m.type = "match_white" -> [Idle EXCEPT !.inGame = TRUE, !.yourTurn = TRUE]
    [] m.type = "match_black" -> [Idle EXCEPT !.inGame = TRUE]
    [] m.type = "move" -> [v EXCEPT !.yourTurn = ~IsOwn(c, m.by), !.moving = FALSE]
    [] m.type \in {"Illegal move", "Not your turn"} ->
         [v EXCEPT !.moving = FALSE, !.yourTurn = TRUE]
    [] m.type = "error" -> [v EXCEPT !.moving = FALSE]
    [] OTHER -> v

onmessage(c) ==
  /\ down[c] # <<>>
  /\ view' = [view EXCEPT ![c] = Shown(c, view[c], Head(down[c]))]
  /\ down' = [down EXCEPT ![c] = Tail(@)]
  /\ UNCHANGED <<up, queue, game>>

\* The connection breaks: onclose on one side, on_disconnect on the other.  The
\* player connects again and is a new session.  yourTurn is not reset.
Disconnect(c) ==
  /\ view' = [view EXCEPT ![c] = [@ EXCEPT !.searching = FALSE, !.inGame = FALSE, !.moving = FALSE]]
  /\ up' = [up EXCEPT ![c] = <<>>]
  /\ down' = [d \in Clients |->
                IF d = c THEN <<>>
                ELSE IF game.on THEN Append(down[d], Msg("opponent_disconnected")) ELSE down[d]]
  /\ queue' = queue \ {c}
  /\ game' = NoGame

Next ==
  \E c \in Clients :
    \/ joinQueue(c)
    \/ leaveQueue(c)
    \/ sendMove(c)
    \/ DrawButtons(c)
    \/ Handle(c)
    \/ onmessage(c)
    \/ Disconnect(c)

Spec == Init /\ [][Next]_vars

\* The network delivers and the server's thread serves every connection.
FairSpec == Spec /\ \A c \in Clients : WF_vars(Handle(c)) /\ WF_vars(onmessage(c))

-----------------------------------------------------------------------------
(* Properties.                                                             *)

Quiet == \A c \in Clients : up[c] = <<>> /\ down[c] = <<>>

\* When nothing is on its way, client and server agree whether there is a game:
\* nobody sits at a board the server has cleared, or misses a game it has.
GameAgreed == Quiet => \A c \in Clients : view[c].inGame = game.on

\* When nothing is on its way in a game, the player to move can move, and has
\* no move of its own to wait for.
SomeoneCanMove ==
  Quiet /\ game.on => view[game.toMove].yourTurn /\ ~view[game.toMove].moving

\* When nothing is on its way, a player who sees the search is in the queue:
\* nobody waits for an opponent the server is not looking for.
SearchIsReal == Quiet => \A c \in Clients : view[c].searching => c \in queue

\* A move that was sent is eventually accepted, refused or overtaken by the end
\* of the game: the board does not stay locked.
MoveResolved == \A c \in Clients : view[c].moving ~> ~view[c].moving
=============================================================================

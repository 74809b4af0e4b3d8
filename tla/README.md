# Specifications of Chess-Game

TLA+ models of the chess server, its game rooms, its sessions, its database, its
chess engine and its two clients, with the TLC runs that check them and the theorems TLAPS proves about
them. The source is the reference: every definition translates code, and
`PROJECT.json` ("map") names the lines. Paths below are relative to `src/`.

## 1. The system

| Component | State it keeps | Operations | Talks to |
|---|---|---|---|
| `ChessServer` (`server.cpp`) | `_all_players`, `_queue`, `_rooms` | auth, queue, leave, move, draw, chat, leaderboard; accept; disconnect; matchmaking | calls rooms and the database, sends to sessions |
| `GameRoom` (`game_room.cpp`) | players, draw offers, position | start, move, draw request / accept / decline, disconnect, end, rating | writes sessions (`set_room`, `set_rating`) and database |
| `TcpSession`, `WebSocketSession` | authorized, nick, rating, user id, `_room` (weak), `_in_queue`, `_outbox` | read loop, send, write chain, dispatch | calls the server; read **and** write errors call `on_disconnect` |
| Chess engine (`chess_engine/`) | twelve bitboards, castling rights, en passant square, clocks, Zobrist key, history | generate moves, apply move, four end tests | called by `GameRoom::on_move` |
| `Database` (`database.cpp`) | users (rating, games played / won), games | login, rating and statistics updates, save game | called inside handlers |
| Protocol (`command.cpp`, `protocol.hpp`) | none | parse a line, build a message | sessions |
| Web client (`web-client/src/App.js`) | searching, in game, your turn, move in progress, board | buttons, `onmessage`, `onclose` | server, over a websocket |
| CLI client (`client.cpp`) | status, board, feed | commands, line reader | server, over TCP |

`main.cpp` runs the `io_context` on a single thread. A handler therefore never
interleaves with another one inside; what interleaves is the *order* of handlers
of different sessions, of the read loop and the write chain of one session, and
of the messages in flight between client and server.

The hard behaviours, and so the aims of the properties:

* a session has **two** failures. A failed write drops it from the server but
  leaves the read loop running, so buffered commands are executed by a session
  that is in no list any more, until the read fails and drops it again;
* the queue exists twice (flags in the sessions, a deque in the server), a game
  three times (two weak pointers and the room), a rating twice (session and
  database): each path must update all copies;
* a game can end by a move, an agreement, a leave or a disconnect of either side,
  and must be settled once;
* a login can be repeated at any time, under another name, in the middle of a game,
  and one account can have several sessions (the stress test does this);
* requests and replies cross on the way between web client and server;
* a session writes asynchronously: one handler sends several lines, a completion
  starts the next write, a WebSocket session only *posts* its sends, and any of it may
  meet a lost connection;
* the console client reads with a buffer of its own for each line, and blocks for an
  answer without a timeout;
* a settlement is several SQL statements without a transaction, whose results are
  ignored, in a process that may end between any two;
* the engine keeps redundant boards, an incremental key and a chain of special
  cases, whose errors only show after particular sequences of moves.

What makes each component right: the server keeps its copies together and forgets
sessions that are gone; a room settles once and conserves rating points; the
engine makes only and all legal moves and ends a game when the rules do; the
clients show the game the server plays; a session delivers its lines in order and
once; what a torn settlement leaves in the tables is bounded. `PROJECT.json` ("hazards") lists
the hazards line by line with the properties aimed at them.

## 2. The modules

```
Elo <--- GameRoom <--- ChessServer --(ImplementsLobby)--> Lobby
 ^                       ^      ^
 |                       |      +-- MCChessServer (TLC)
 +-- RatingProofs <--------+------- ChessServerProofs
 |       ^
 |       +-- DatabaseProofs
 +-- Database <--- MCDatabase (TLC)

Channel <--(ImplementsChannel)-- Session <--- PlayerLink <--- MCPlayerLink (TLC)
                                                   ^
                                               LinkProofs

MoveGen <--- ChessRules <--- ChessGame <--- MCChessGame (TLC)
  ^            ^               |  ^
  |            |               |  |
 Fen <---------|------+--------+  |
               |      |           |
   MoveGenProofs <-- FenProofs <-- ChessGameProofs

WebGame <--- MCWebGame (TLC)
   ^
WebGameProofs
```

**Elo** is the arithmetic of `GameRoom::update_rating`. The doubles are replaced by
the table of the 32 rating differences at which the rounded gain changes. The
code rounds winner and loser separately, so there are two functions, `Gain` (line 161) and
`Loss` (line 162), which round up to and down from the same half points; no rounding is a tie
(the power of ten is irrational or the sum is not half-integral there). That the two agree is a
property (`GainZeroSum`, and `RatingPointsConserved` over chains of games) and a theorem
(`LossIsGain`), not an assumption.

**GameRoom** has one operator per method of the class. The position is reduced to the
side to move and a legal move has any outcome (goes on, mate, draw);
that is refined by ChessGame, not composed with it, since a game of chess and
several sessions together are out of TLC's reach. `told` is the last message about a
game sent to each session, `settled` and `saved` count what each room has written.

**ChessServer** has one action per handler: `Accept`, `handle_auth`, `QueueWait` and
`QueueMatch` (the two ways through `handle_queue` and `try_matchmake`),
`handle_leave`, `handle_move`, `DrawOffer` / `DrawAccept` / `DrawDecline`,
`ReadError`, `WriteError`. A match takes the lowest rating and the rating closest to
it; `std::sort` leaves ties open, so the model does. Every action includes the
broadcasts its handler ends with (`sizeSeen`). Requests that are refused
change nothing and are stuttering steps; so are chat and ping.

**Lobby** is the abstract promise: players wait, are paired in twos, and part in
twos. `ImplementsLobby` maps `waiting` to the queue flags and `peer` to the other
player of the room a session points to.

**Session** is one TCP or WebSocket session below its handlers: what `send` puts in
the outbox (at once on the strand of the TCP session, by a posted function in the
other), the write in progress, the bytes the operating system has taken and whose
completion is pending, the completion with and without an error, the read loop, the
handshake, and the loss of the connection, with which the end of what is on the wire
is lost too. **Channel** is what it promises: lines are put in at the back, taken from
the front, and only a loss cuts the end off. `transit` maps a session to it: the
wire, the outbox without the front that is already on the wire, and the posted lines.

**PlayerLink** puts a client at one end of a session and the dispatcher with the
handlers at the other. A handler is what it sends to this player (`HandlerBursts`, in
the order of the code) and what becomes of the player (`phase`); other players' handlers are
`Others`. `handle_command` goes by request type: the types `MessageFactory` does not
know, `leaderboard` among them, are answered with an error. A console client
(`Command`, `ReadLines`, `Quit`) reads like `drain_incoming` and
`send_and_process_one`: a read takes every line that has arrived, perhaps half
of the next, shows the first and drops the others; a command blocks until a
line comes. The browser sends at any time and gets every line.

**Database** is `database.cpp` as the handlers use it: registration, login, and
settlements whose statements (`todo`, in the order of `update_rating` and `end_game`)
are executed one by one, may fail, and may be cut off by the end of the process,
after which everybody has to log in again and `CREATE TABLE IF NOT EXISTS` keeps the
tables. ChessServer takes the same settlement as one step; nothing else of the
server can run between its statements.

**MoveGen** is `chess_engine/move_gen.cpp` on sets of squares instead of 64-bit
words, keeping the direction of the bit scans, the value 63 of `bsf` on an empty
board, the only-captures mode of the rays and the rows of the en passant test.
**ChessRules** is the reference: attacks, moves, castlings and captures in passing by
coordinates, from the rules of chess and not from the code. **Fen** is the board part of a FEN text as a
sequence of men, runs and slashes: `get_fen` writes it, `Pieces` and the console
client's `update_board_from_fen` read it, `InitialText` is the text every game starts from.
**ChessGame** is `Position` and the part of `on_move` that plays on it: find the move a
request names, apply it (with the roll-back as a guard), keep key, clock and history,
look for the end in the code's order. `BrowserRequest` and `ConsoleRequest` are what the
two clients ask for when their player makes a move. A Zobrist key is the set of constants xor-ed
into it. What the browser lets its player do is decided by its chess library, which loads the
whole FEN of an event (`App.js:28`, `297`, `311`, `324`): board, turn, castling rights and en passant square.
`BrowserMovesArePlayed` therefore asks for the moves and the castlings the rules allow
with the position's turn and rights. The model was compared with the compiled engine: from five of the start positions
of *MCChessGame*, all 46262 positions reached in three plies (board, side, en passant
square, rights, clock, length of the history) are the same in both.

**WebGame** is the web client's four flags against a server reduced to two logged-in
sessions, with a FIFO channel each way, which is what *Session* promises. `Shown` is
`ws.onmessage`; a message that changes no flag is not sent. The catch path of `App.js:330`, which
leaves `yourTurn` alone when the chess library refuses the FEN of an own move, is not in `Shown`: the
FEN is one the server wrote, and no property depends on the path. A broken connection is seen by
both sides in one step.

## 3. The runs

| Run | Question | Instance | States |
|---|---|---|---|
| `server_safety` | do the copies of queue, game, rating and failure state stay together; does the server implement the lobby? | 4 sessions, 3 accounts, 2 rooms | 391k |
| `server_liveness` | is a session with a failed write given up for good? | 2 sessions, 1 room | 56k |
| `session_link` | do writes never overlap, lines arrive in order and once, requests get an answer, outboxes drain? | 1 player on either transport, 2 requests after auth, 1 event of others | 348k |
| `database` | what can a torn settlement leave behind; are the points those of the formula? | 2 accounts, 3 settlements, 2 crashes, 2 failed statements, 9 initial differences | 2.74M |
| `engine_games` | do generator and `apply_move` agree with each other and with the rules; is a repetition one; is a request one move, and the one that the browser or the console client means; is a FEN text read back? | 7 positions (one the initial one), 2 plies, all moves; 2 positions, 14 plies on 7 squares | 10k |
| `web_game` | do client and server agree once all messages are read; is a locked board unlocked? | 2 requests of each client in flight | 198k |

Runs that must fail, each with a finding in `PROJECT.json`:

| Run | What it shows |
|---|---|
| `engine_mate` | bishops, rooks and queens never give check (`move_gen.cpp:103`): a mate is missed |
| `engine_castling` | castling with a rook that was taken creates a rook |
| `engine_en_passant` | en passant is tested on the wrong rows and never generated (`move_gen.cpp:415`), so a long pawn step whose check only such a capture answers is declared checkmate (`position.cpp:289`) |
| `engine_fifty` | the fifty-move rule needs one hundred moves |
| `engine_keys` | leaving a corner twice changes the key of the same position |
| `cli_match_missed` | the console client throws `match_found` away with the buffer it came in (`client.cpp:265`) and shows "waiting" while the server plays |

What `RatingMovesWithOwnGame` says is about both copies of a rating: a session's moves at its own
game's end or a login, and a row of the table only when a game of a session logged in to that account ends,
to the rating this session then carries. The row of a third account never moves.

What the `database` properties say of a torn settlement, where the code promises nothing:
points may appear (the winner is paid first), at most 32 per crash, and never vanish
by a crash alone; a win may be counted without its loss, never the other way round; a
decisive game in the `games` table has always been counted for its winner; and the rating a
session goes on with is the stored one, also after restarts, as long as no statement has failed (after
one it need not be, and `PointsAppearOnlyByCrash` bounds the damage). Swapping any two of the
statements breaks one of these.

Bounds and why they suffice. *Sessions*: a property relates at most two players and
one third party (the next in the queue, another session of the account); a
fourth session lets two games run at once. *Rooms* are never freed by the code, so
`RoomIds` bounds the number of games in a behaviour; two show a second game after a
first and two at once. *Accounts*: three, one session at a time on each, the least for
a chain of games; shared accounts are allowed by the model (`OneSessionPerAccount`) and
run in `server_liveness`, and the proofs cover both. Sessions, accounts and rooms are
interchangeable (symmetry) in the safety run; the VIEW `LiveState` forgets what no
handler reads again. *Session*: bursts of up to five lines put several lines behind one
write; a second request, an event of another player and a failure each meet every
stage of it. *Database*: three settlements let a game be computed from what two torn
ones left; the initial differences are those where the formula is exact in
integers and the neighbours of thresholds. *Engine*: the positions put one
special case next to another (capture with promotion, castling beside an attacked
square, men of one kind taking each other); two plies are enough for each to happen
and for the reply to depend on it; repetition needs twelve plies (`landing` keeps the
shuffling on a few squares). *WebGame*: two requests in flight are what it takes to
overtake a reply with a request; games, queues and reconnections repeat without bound.

Deadlock is not checked where the system may really stop: all sessions closed, a game
over, a bound reached, or clients whose users do nothing.

Fairness. `ChessServer!FairSpec` is weak fairness of the read error of a session
whose write has failed: its peer is gone, so the read fails once the finite buffer is
used up. `WebGame!FairSpec` is weak fairness of delivery and handling, per
client, which TCP and the single-threaded event loop provide; nothing is assumed of
the players. `PlayerLink!FairLinkSpec` is weak fairness of the three things that go on by
themselves (a request that has arrived is served, a write goes on, the console client,
which polls every 120 ms, reads what has arrived) and of the failing read of a client that
waits on a lost connection. Nothing is assumed of the users, nor that a loss is ever
noticed by the server. `PlayerLink` and `WebGame` bound what users do, never the
handlers, so that the bounds do not interfere with fairness.

## 4. The proofs

*RatingProofs*: the gain is within 0..32 for every rating difference, never grows with the
winner's lead, and `Gain(d) + Gain(-d) = 32`. The argument: the thresholds are ordered and
mirror each other (`EloThreshold[g] = -EloThreshold[33 - g] - 1`), so the sets
counted for `d` and `-d` are complements under `g -> 33 - g`. `LossIsGain` is that the loser's
rounding takes exactly what the winner's gives. The second half of the module is about the sums of points that two components speak of. They
are folds over the accounts: a chosen solution of a recursion. `SetInduction` is
induction over finite sets with the *set* of the good sets in place of a predicate, got from a
least counterexample; with it the recursion has a solution (`SumTableExists`), any
two solutions agree, and the order of the accounts does not matter (`SumSplits`). What the
components cite is `SumUpdate`: what a changed row does to the sum.

*ChessServerProofs*: for all sets of sessions, accounts and rooms,
and for shared and exclusive accounts alike,

| Theorem | Property |
|---|---|
| `TypeCorrect` | `TypeOK` |
| `QueueStaysCoherent` | `QueueCoherent` |
| `OneWaiterAtMost` | `NobodyWaitsBesideAnother` |
| `RoomsStaySymmetric` | `RoomsSymmetric` |
| `GhostsAreGone` | `NoGhosts` |
| `GamesSettledOnce` | `SettledOnce` |
| `PlayersStayInformed` | `PlayersInformed` |
| `QueueSizeStaysFresh` | `QueueSizeFresh` |
| `RatingCacheStaysFresh` | `RatingCacheFresh` |
| `RatingsMoveOnlyWithGames` | `RatingMovesWithOwnGame` |
| `RatingPointsStayConserved` | `RatingPointsConserved` |
| `ServerImplementsLobby` | `ImplementsLobby` |

The first five follow from one inductive invariant `IInv`, their conjunction with what
induction needs besides: a session that is not connected is not listed, a player in a room
is logged in (or a settlement would write the row of no account), and a room's
players are sessions once it exists. The proof has one lemma per action (`AcceptStep` to
`ErrorStep`), over lemmas about the handlers' shared parts (`DequeueEffect`,
`VacateEffect`, `EndGameEffect`, `DepartEffect`). `OneWaiterAtMost` is the pivot: the
queue never holds more than one player, so a push either waits or empties the queue.

The others go through `StepKind`: with `IInv`, every step starts a game, ends one,
logs a session in, or leaves games and ratings alone. Each property is then a case
analysis on these four, with `IInv` for the rooms' symmetry. For `RatingsMoveOnlyWithGames`,
`SettlementRows` says which rows a settlement writes, and `RowStep` whose game has then ended. Three need more than
`IInv`: `InformedInv` speaks of reachable sessions, `SizeInv` of what every listed
session was last told, `FreshInv` of which accounts have a session. `RatingPointsStayConserved`
stands on `FreshInv`: a settlement computes both new ratings from the sessions and writes them as
absolute values, so it moves points from one row to the other only if both sessions carry what
their rows hold and the rows are two. `ServerImplementsLobby`
maps each kind to a step of Lobby or a stutter: only two players of one game part, and only
two waiting ones, or a waiting one and a newcomer, meet.

*LinkProofs*: for every set of lines and bursts,

| Theorem | Property |
|---|---|
| `SessionWritesOne`, `LinkWritesOne` | `OneWriteAtATime` |
| `SessionImplementsChannel`, `LinkImplementsChannel` | `ImplementsChannel` |

The invariant `SessionInv` says that the front of a non-empty outbox is exactly the write in
progress, flushed or not, or that a write has failed and nothing is in progress; and that a
TCP session posts nothing. A write that is flushed leaves the front in the outbox until it
completes, which is why `transit` drops it then. The refinement needs four facts about
sequences (`MoveFront`, `ExtensionHasPart`, `CutIsPart`, `DropFromConcat`). PlayerLink
inherits both by `LinkUsesSession`: its every step is one of Session's, which needs that
nothing is sent before the handshake ends (`AcceptedFirst`).

*DatabaseProofs*: for every set of nicknames, every content of the tables at the first
start and any number of games, crashes and failures,

| Theorem | Property |
|---|---|
| `DatabaseTypes` | `TypeOK` |
| `SavedGamesAreRated` | `SavedIsRated` |
| `SessionsCarryStoredRating` | `CachedIsStored` |
| `StakesAddUp` | `GainZeroSum` |
| `StakesAreFormula` | `GainMatchesFormula` |
| `LosersAreCounted` | `LoserCounted` |
| `PointsComeFromCrashes` | `PointsAppearOnlyByCrash` |

`DatabaseInv` relates the statements still to be executed to what they will change:
a pending rating is the one the session carries, a session ahead of the table has its
statement pending, and a pending save is last, behind its winner's win unless that has been
counted. The two sums need to know how far the settlement is: `AtStage(k, w, l)` says that its
k-th statement is next, `Advance` that executing, or losing, one leads to the next stage. `CountInv`
is then one inequality per stage. `PointsInv` is harder, because a session goes on for many games
with a rating whose statement failed: it says that there are columns `B` (the
points each account would have if every statement had been executed) and `D` (how far the table may be
off in that row), where everything in `B` beyond the start and everything in `D` has been paid for by
crashes and failures. A crash gives up `B` in favour of the table and pays for it out
of `D`; a failed statement adds to `D`. `ThresholdsMatchFormula` compares the 32 thresholds with
the formula at the five differences.

*MoveGenProofs*, *FenProofs* and *ChessGameProofs*: for every position to begin with in which the men stand
apart, the pawns between their last rows, and a king with castling rights at home
(`StartOK`), and games of any length,

| Theorem | Property |
|---|---|
| `EngineTyped` | `TypeOK` |
| `MenStandApart` | `OneManPerSquare` |
| `PawnsPromote` | `NoPawnOnLastRow` |
| `MovesStand` | `NeverRolledBack` |
| `RequestsMeanOneMove` | `RequestMeansOneMove` |
| `BrowserIsServed` | `BrowserMovesArePlayed` |
| `MovesFollowRules` | `MovesObeyRules` |
| `MatesAreMates` | `MateIsMate` (captures in passing apart) |
| `RepetitionsAreReal` | `RepetitionIsRepetition` |
| `MenStayAccounted` | `MenAccounted` |
| `TextsReadBack` | `FenReadsBack` |
| `ConsoleStaysTrue` | `ConsoleShowsPosition` |
| `EnPassantNeverGenerated` | no generated move is a capture in passing |
| `SlidersNeverAttack` | `is_square_attacked` sees pawns, knights and kings only |

*MoveGenProofs* is about one board. The bit scan finds the nearest man of a ray
(`BlockingIsNearest`), so no ray of moves ends on an own man (`RayLands`) and every generated
move is a step onto a square without an own man, or a castling over empty squares
(`GeneratedMoves`). `OnlySteppersAttack` is the fact behind the finding of `engine_mate`.
The comparison with the coordinate rules of *ChessRules* is proved in both directions.
`RayIsClear` and `ClearIsOnRay` say that a ray of moves is the squares that are reached over
clear squares and hold no own man, `PawnReaches` and `PawnMovesAreComplete` that the shifts of
a pawn's bit with their column masks are its moves by row and column. The filter of legal
moves sees too few attacks, never too many (`SteppersReallyAttack`), so it keeps every move that
the rules allow but the captures in passing (`RuleMovesAreGenerated`, and for the castlings
`RuleCastlingsAreGenerated`), and a position without generated moves has none by
the rules either, captures in passing apart. That is what `MateIsMate` says of a declared mate, and it
cannot say more: `EnPassantNeverGenerated`, and `engine_en_passant` shows a declared mate that such a capture
would have answered. Nor, as `engine_mate` shows, is every mate declared.
*ChessGameProofs* follows `apply_move` piece by piece (`TakenPosition`, `OrdinaryMoved`,
`CastledMoved`). `PositionInv` adds two things to the properties: the en passant
square is on the row behind the pawn that moved last (`EpOK`), where the generator's branch
never looks; and a right says that the king, if there still is one, is at home (`KingHome`),
without which a castling could leave a second king, and a castling and a king's
step could share their squares. `MovesStand` needs no more than that the filter and `apply_move`
see the same king and the same pawns, knights and king against it (`SameAttacks`): they
judge different boards when a pawn promotes and when the king castles.
`BrowserIsServed` joins the two ends of a request: what the rules allow is generated
(`RuleMovesAreGenerated`, `RuleCastlingsAreGenerated`), where a pawn may promote a queen is among the moves
(`QueenIsOffered`), and a request means one move, so that the queen the browser names with
every move decides between promotions only (`BrowserNames`). The console client names no
piece; `RequestsMeanOneMove` says that what it loses by that is the promotions, and nothing else.

`RepetitionsAreReal` is about the keys, which are not what they should be: castling rights are
toggled whether they were there or not (the finding of `engine_keys`), and an en passant square enters
a key as a pawn of one side and leaves it as a pawn of the other. What a key is right about
is the side to move and every man *but* the pawns (`KeyFollows`, which every step of `apply_move`
keeps, `MovedKey`), and a step of a pawn empties the history. So in one history all
entries have the same pawns (`HistoryInv`), and two equal keys are the same board (`KeyDecides`).
`MenStayAccounted` counts men as the triples (square, type, side): outside castling a generated move
puts one triple in the place of another on the mover's side (`MoverCounts`) and takes at most one
from the other (`OtherCounts`).

*FenProofs* is about one board and its text; the theorems hold of every board whose men stand apart
(`PiecesReadBack`), the console's of any board and of whatever it showed before (`UpdateShows`). Writer
and readers are folds. What they compute cannot be had by induction over the text, since the
library's induction takes an operator, but a fold of the community modules is a
value chosen from a table over sets of indices: `TableFacts` says that there is such a table,
`TableWalks` that each holds a walk, the sequence of the results, and `Climb` carries a set of
numbers from one to the next by the least number that is missing. So `get_fen` and each reader
makes a walk, a text has one walk (`WalkEndsOnce`), and walks are put together (`WalkAppend`,
`WalkJoin`). The rest is about chess boards: `Follows` says what a reader has to make of a run, a man
and a slash that begin at a square, given where the men are; `RowTextRead` and
`TextRead` that who does so ends behind the last square of row 0; and `ReaderFollows` and
`ShowerFollows` that the constructor and the console client do. That squares do not share men is
needed by the constructor only, which adds men and never removes one.

*WebGameProofs*: for all bounds on what is in flight, and for one nick or two,

| Theorem | Property |
|---|---|
| `ViewsFit` | `WebInv`, below |
| `GameStaysAgreed` | `GameAgreed` |
| `MoverCanAlwaysMove` | `SomeoneCanMove`, if the nicks are two |
| `SearchStaysReal` | `SearchIsReal` |

The properties speak of moments in which nothing is on its way; the invariant has to speak of all
others. Each flag of a client is set by some messages and reset by others, so
what it *will* be once the client has read all that is on its way to it is determined by the last of these
messages (`Becomes`): an appended message decides it or leaves it (`BecomesAppend`), and reading one
changes nothing (`BecomesTail`). `Fits` says what each flag will be: the game is shown as the server
has it, who searches is queued or has asked to be, the player to move will know it and waits for no move but
its own, unless the client has asked to leave, when the server is behind, not the client.
`HandleOutcomes` sorts the handlers' answers into seven outcomes, each of which keeps `Fits` for both
clients.

Assumptions used: `NullsAssumption`, `RatingAssumption`, `BurstsAssumption`,
`HandlerAssumption`, `BoundsAssumption`, `DatabaseAssumption`, `DatabaseBounds` and
`StartAssumption` and `ClientsAssumption`, which TLC evaluates in the runs of their modules.
`RatingAssumption` and `DatabaseAssumption` say, among other things, that accounts are finitely many,
without which there is no sum of their points.

Only model-checked: all liveness (fairness and ENABLED are out of the prover's reach). Every
invariant and action property of the passing runs is proved, `SomeoneCanMove` for two nicks.

## 5. Not modelled, and why

* Vendored code (`sqlite/`, `json.hpp`) is about 300 of the 304 thousand lines of the
  repository. It is third-party and only its use is modelled. Of the program's own files in
  `PROJECT.json` ("map") a good three fifths of the lines are mapped; the rest is declarations,
  logging, JSON text, rendering, and functions without a caller.
* Logging, start-up, settings, the TLS proxy, rendering, chat: layout or pass-through.
* Password hashes, `last_login`, the history, queue-table and user queries of
  `database.cpp`, and a database that cannot be opened: no handler's later behaviour
  depends on them, or nothing calls them.
* 64-bit collisions of Zobrist keys, the 218-move capacity of `MoveList`.
* The fields of a FEN text behind the board, as text. They are not idle: the browser's chess library
  loads them, and turn, rights and en passant square decide what it offers. The properties about the
  browser take these three from the position, from which `get_fen` writes them (`position.cpp:83` to `107`).
  The console client reads the board only.
* What `apply_move` restores when it takes a move back: `NeverRolledBack` shows that this never happens
  to a generated move.
* The event `draw_agreed` of `README.md:192` is never sent: an agreed draw is announced by
  `game_over` with result `draw_agreed` (`game_room.cpp:195`), and the model has it so.
* Known behaviours that no property forbids because nothing promises otherwise: with two
  sessions on one account a settlement can overwrite the other's result; draw
  offers outlive moves; rooms are never freed; a failed write leaves its line at the front of
  the outbox for good; a console player cannot name a promotion piece (`client.cpp:415`; `RequestMeansOneMove` says that the request is refused)
  and sees an upside-down board before the first FEN (`client.cpp:97`); a client that
  leaves and queues again at once may wait without seeing it (`App.js:267`); a refused
  move may tell a player it is his turn when it is not (`App.js:371`; `SomeoneCanMove` is about the
  player whose turn it is); two sessions of one nick in one
  game lock both boards (`App.js:309`, constant `SameNick`; the run and `MoverCanAlwaysMove` assume two nicks).

## 6. Plan

Done: everything above. What could follow:

1. The console client's board over a whole game: which lost move events a later FEN
   makes up for.

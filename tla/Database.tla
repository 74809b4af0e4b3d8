------------------------------ MODULE Database ------------------------------
(***************************************************************************)
(* The Database and its use: logging in, and the settlement of a game one  *)
(* SQL statement at a time.  update_rating and end_game run on the only    *)
(* thread, so nothing of the server comes between two statements of a      *)
(* settlement.  What may is the end of the process: there is no            *)
(* transaction, each statement commits by itself, and a statement that     *)
(* fails is logged and the next one tried.                                 *)
(*                                                                         *)
(* A session carries a copy of its account's rating, from which the next   *)
(* game is computed.  Clients log in once to an account at a time; two     *)
(* sessions of one account are in module ChessServer.                      *)
(***************************************************************************)
EXTENDS Integers, FiniteSets, Sequences, FiniteSetsExt, Elo

CONSTANTS
  Nicks,
  NoWinner,        \* winner_id of a draw
  InitialRating,   \* users.rating DEFAULT 1000
  Histories,       \* the ratings chess.db may hold when the server first starts
  MaxGames, MaxCrashes, MaxFailures   \* bounds

ASSUME DatabaseAssumption ==
  /\ IsFiniteSet(Nicks)
  /\ NoWinner \notin Nicks
  /\ InitialRating \in Int
  /\ Histories \subseteq [Nicks -> Int]

ASSUME DatabaseBounds == MaxGames \in Nat /\ MaxCrashes \in Nat /\ MaxFailures \in Nat

VARIABLES
  start,        \* the ratings at the first start (history)
  registered,   \* the nicknames with a row in users
  rating, played, won,   \* columns of users
  games,        \* rows of games, by winner
  online,       \* nicknames with an authorized session
  cache,        \* IPlayer::_rating of that session
  todo,         \* statements the running handler has still to execute
  settlements, crashes, failures   \* counted (history, and for the bounds)

tables == <<registered, rating, played, won, games>>
counts == <<settlements, crashes, failures>>
vars == <<start, tables, online, cache, todo, counts>>

Init ==
  /\ start \in Histories
  /\ registered \in SUBSET Nicks
  /\ \A n \in Nicks \ registered : start[n] = InitialRating
  /\ rating = start
  /\ played = [n \in Nicks |-> 0]
  /\ won = [n \in Nicks |-> 0]
  /\ games = [n \in Nicks \union {NoWinner} |-> 0]
  /\ online = {}
  /\ cache = start
  /\ todo = <<>>
  /\ settlements = 0 /\ crashes = 0 /\ failures = 0

-----------------------------------------------------------------------------
(* Logging in.                                                             *)

\* mutant of load: a session of an account seen before keeps its rating.
load_once(n) == online' = online \union {n} /\ UNCHANGED cache

\* handle_auth after a successful login_user.
load(n) ==
  /\ online' = online \union {n}
  /\ cache' = [cache EXCEPT ![n] = rating'[n]]

\* login_or_register of a nickname that exists, with its password; with any
\* other password register_user finds the row and the login is refused.
Login(n) ==
  /\ todo = <<>>
  /\ n \in registered
  /\ UNCHANGED <<start, tables, todo, counts>>
  /\ load(n)

\* login_or_register of a new nickname: the INSERT, and the second login_user,
\* which may fail and leave the account behind for a later login.
Register(n) ==
  /\ todo = <<>>
  /\ n \notin registered
  /\ registered' = registered \union {n}
  /\ rating' = [rating EXCEPT ![n] = InitialRating]
  /\ load(n) \/ UNCHANGED <<online, cache>>
  /\ UNCHANGED <<start, played, won, games, todo, counts>>

\* The session of a player who is not in a game ends.
Logout(n) ==
  /\ todo = <<>>
  /\ n \in online
  /\ online' = online \ {n}
  /\ UNCHANGED <<start, tables, cache, todo, counts>>

-----------------------------------------------------------------------------
(* The end of a game.                                                      *)

Statement(op, who, value) == [op |-> op, who |-> who, value |-> value]

\* mutant of RatingStatements: the loser pays before the winner is paid.
RatingStatements_loser(w, l, newW, newL) ==
  << Statement("rating", l, newL), Statement("rating", w, newW),
     Statement("won", w, 0), Statement("lost", l, 0) >>

\* mutant of RatingStatements: the loser's game is counted first.
RatingStatements_lost(w, l, newW, newL) ==
  << Statement("rating", w, newW), Statement("rating", l, newL),
     Statement("lost", l, 0), Statement("won", w, 0) >>

\* The four statements of GameRoom::update_rating.
RatingStatements(w, l, newW, newL) ==
  << Statement("rating", w, newW), Statement("rating", l, newL),
     Statement("won", w, 0), Statement("lost", l, 0) >>

\* mutant of SaveAfter: end_game saves the game before it rates it.
SaveAfter_first(statements, winner) == <<Statement("save", winner, 0)>> \o statements

\* end_game: save_game comes after the rating, if there is one.
SaveAfter(statements, winner) == Append(statements, Statement("save", winner, 0))

\* GameRoom::update_rating, up to the statements: the sessions' ratings.
rate(w, l) ==
  cache' = [cache EXCEPT ![w] = cache[w] + Gain(cache[w] - cache[l]),
                         ![l] = cache[l] - Loss(cache[w] - cache[l])]

Settling ==
  /\ todo = <<>>
  /\ settlements < MaxGames
  /\ settlements' = settlements + 1
  /\ UNCHANGED <<start, tables, online, crashes, failures>>

\* end_game after a checkmate.
Mate(w, l) ==
  /\ Settling
  /\ rate(w, l)
  /\ todo' = SaveAfter(RatingStatements(w, l, cache'[w], cache'[l]), w)

\* GameRoom::on_disconnect: rated, and not saved.
Departure(w, l) ==
  /\ Settling
  /\ rate(w, l)
  /\ todo' = RatingStatements(w, l, cache'[w], cache'[l])

\* end_game after a draw.
Draw ==
  /\ Settling
  /\ todo' = SaveAfter(<<>>, NoWinner)
  /\ UNCHANGED cache

\* mutant of Perform: a loss is taken off the wins.
Perform_takes_back(s) ==
  /\ rating' = IF s.op = "rating" THEN [rating EXCEPT ![s.who] = s.value] ELSE rating
  /\ played' = IF s.op \in {"won", "lost"} THEN [played EXCEPT ![s.who] = @ + 1] ELSE played
  /\ won' = IF s.op = "lost" THEN [won EXCEPT ![s.who] = @ - 1] ELSE won
  /\ UNCHANGED games

\* The UPDATEs and the INSERT of database.cpp.
Perform(s) ==
  /\ rating' = IF s.op = "rating" THEN [rating EXCEPT ![s.who] = s.value] ELSE rating
  /\ played' = IF s.op \in {"won", "lost"} THEN [played EXCEPT ![s.who] = @ + 1] ELSE played
  /\ won' = IF s.op = "won" THEN [won EXCEPT ![s.who] = @ + 1] ELSE won
  /\ games' = IF s.op = "save" THEN [games EXCEPT ![s.who] = @ + 1] ELSE games

\* execute_query of the next statement; its result is not looked at.
Execute ==
  /\ todo # <<>>
  /\ todo' = Tail(todo)
  /\ Perform(Head(todo))
  /\ UNCHANGED <<start, registered, online, cache, counts>>

StatementFails ==
  /\ todo # <<>>
  /\ failures < MaxFailures
  /\ failures' = failures + 1
  /\ todo' = Tail(todo)
  /\ UNCHANGED <<start, tables, online, cache, settlements, crashes>>

\* The process ends and is started again: create_tables keeps the tables, and
\* everybody has to log in.
Crash ==
  /\ crashes < MaxCrashes
  /\ crashes' = crashes + 1
  /\ online' = {}
  /\ todo' = <<>>
  /\ UNCHANGED <<start, tables, cache, settlements, failures>>

Next ==
  \/ \E n \in Nicks : Login(n) \/ Register(n) \/ Logout(n)
  \/ \E w, l \in online : w # l /\ (Mate(w, l) \/ Departure(w, l) \/ Draw)
  \/ Execute \/ StatementFails \/ Crash

Spec == Init /\ [][Next]_vars

-----------------------------------------------------------------------------
(* Properties.                                                             *)

Statements ==
  [op : {"rating", "won", "lost", "save"}, who : Nicks \union {NoWinner}, value : Int]

\* What the tables, the sessions and the pending statements may hold.
TypeOK ==
  /\ start \in [Nicks -> Int] /\ rating \in [Nicks -> Int] /\ cache \in [Nicks -> Int]
  /\ played \in [Nicks -> Nat] /\ won \in [Nicks -> Nat]
  /\ games \in [Nicks \union {NoWinner} -> Nat]
  /\ registered \subseteq Nicks /\ online \subseteq Nicks
  /\ todo \in Seq(Statements)
  /\ settlements \in Nat /\ crashes \in Nat /\ failures \in Nat

Sum(column) == MapThenSumSet(LAMBDA n : column[n], Nicks)

\* A settlement cut short by a crash has at worst paid the winner and not
\* charged the loser: rating points appear, at most K a crash, and never
\* vanish.  Only a statement that fails can take points away, at most K each,
\* however long the session plays on with the rating it remembers.
PointsAppearOnlyByCrash ==
  todo = <<>> =>
    /\ Sum(rating) >= Sum(start) - K * failures
    /\ Sum(rating) <= Sum(start) + K * (crashes + failures)

\* A crash between the two statistics leaves a win without a loss, never a loss
\* without a win: games_played is at most twice the sum of games_won.
LoserCounted ==
  todo = <<>> =>
    /\ Sum(played) >= 2 * Sum(won) - (crashes + failures)
    /\ Sum(played) <= 2 * Sum(won) + failures

\* A decisive game that made it into the games table has been counted for its
\* winner, whenever the process ended: save_game comes last.
SavedIsRated == failures = 0 => \A n \in Nicks : games[n] <= won[n]

\* Between two games the rating a session carries is the stored one, after any
\* number of games, crashes and logins; only a statement that failed lets the
\* session run ahead of the table.
CachedIsStored ==
  todo = <<>> /\ failures = 0 => \A n \in online : cache[n] = rating[n]

Pow4(n) == n * n * n * n

\* lround(32 * (1 - Ea)) >= g exactly when 10^(d/400) * (2g - 1) <= 65 - 2g.
\* For these d both sides are integers once raised to the first or fourth power.
AtLeastByFormula(d, g) ==
  \/ d = 0 /\ 2 * g - 1 <= 65 - 2 * g
  \/ d = 100 /\ 10 * Pow4(2 * g - 1) <= Pow4(65 - 2 * g)
  \/ d = 200 /\ 100 * Pow4(2 * g - 1) <= Pow4(65 - 2 * g)
  \/ d = 400 /\ 10 * (2 * g - 1) <= 65 - 2 * g
  \/ d = 800 /\ 100 * (2 * g - 1) <= 65 - 2 * g

\* The points at stake between two players are those of the formula in
\* update_rating, wherever it is exact in integers.
GainMatchesFormula ==
  \A w, l \in online :
    LET d == cache[w] - cache[l]
    IN  d \in {0, 100, 200, 400, 800} =>
          Gain(d) = Cardinality({g \in 1..K : AtLeastByFormula(d, g)})

\* Two players put K points at stake, and the two roundings of a settlement agree:
\* what the loser pays is what the winner is paid, and for either of them the two
\* outcomes of their game are K points apart.
GainZeroSum ==
  \A w, l \in Nicks :
    /\ Loss(cache[w] - cache[l]) = Gain(cache[w] - cache[l])
    /\ Loss(cache[w] - cache[l]) + Gain(cache[l] - cache[w]) = K
=============================================================================

----------------------------- MODULE ChessGame -----------------------------
(***************************************************************************)
(* Position and the part of GameRoom::on_move that plays on it: a move of  *)
(* the generator is applied, keys and history are kept up, and the end of  *)
(* the game is looked for in the order checkmate, stalemate, threefold     *)
(* repetition, fifty moves.  A request that names no generated move is     *)
(* answered with an error and changes nothing.                             *)
(*                                                                         *)
(* A Zobrist key is the set of the constants xor-ed into it, so two keys   *)
(* are equal when the same constants remain; collisions of the 64-bit      *)
(* values are left out.  The counters that advance by 0.5f count plies.    *)
(***************************************************************************)
EXTENDS ChessRules, Fen

\* Positions to begin with: board, side to move, castling rights, clock; and two
\* bounds on the game that follows: the squares the players choose to move to,
\* and the number of plies.
CONSTANT Start

\* The men stand apart, the pawns between their last rows, and a castling right
\* says that the king has not moved (it may have been taken).
StartOK(s) ==
  /\ s.bb \in [Sides -> [Types -> SUBSET Squares]]
  /\ \A s1, s2 \in Sides : \A t1, t2 \in Types :
       <<s1, t1>> # <<s2, t2>> => s.bb[s1][t1] \intersect s.bb[s2][t2] = {}
  /\ \A side \in Sides : \A p \in s.bb[side]["pawn"] : Row(p) \in 1 .. 6
  /\ s.turn \in Sides
  /\ s.rights \subseteq Rights
  /\ \A c \in Castlings : c.right \in s.rights => s.bb[c.side]["king"] \subseteq {c.from}
  /\ s.clock \in Nat /\ s.plies \in Nat

ASSUME StartAssumption == \A s \in Start : StartOK(s)

VARIABLES
  pos,         \* _pieces, _en_passant, the castling rights, side to move, _hash
  clock,       \* 2 * _fifty_moves_ctr
  history,     \* _history; the board and the rights behind each key are ghosts
  result,      \* "playing", or the result end_game announces
  landing,     \* the first bound
  plies        \* plies left of the second

vars == <<pos, clock, history, result, landing, plies>>

NoKey == [men |-> {}, black |-> FALSE, rights |-> {}]

\* mutant of Toggle: |= instead of ^=.
Toggle_or(set, e) == set \union {e}

Toggle(set, e) == IF e \in set THEN set \ {e} ELSE set \union {e}

InvertPiece(p, square, type, side) ==
  [p EXCEPT !.key = [p.key EXCEPT !.men = Toggle(p.key.men, <<square, type, side>>)]]

\* ZobristHash(pieces, ...): the key of a position from scratch.
KeyOf(bb, black, rights) ==
  [men |-> {e \in Squares \X Types \X Sides : e[1] \in bb[e[3]][e[2]]},
   black |-> black, rights |-> rights]

\* What a history entry stands for; only the key is in the code.
Entry(p) == [key |-> p.key, bb |-> p.bb, turn |-> p.turn, rights |-> p.rights]

\* A position of a game under way whose last move could not be taken back.
NewPosition(s) ==
  [bb |-> s.bb, ep |-> NoSquare, rights |-> s.rights, turn |-> s.turn,
   key |-> KeyOf(s.bb, s.turn = "black", s.rights)]

-----------------------------------------------------------------------------
\* apply_move.

add_piece(p, square, type, side) ==
  IF square \in p.bb[side][type] THEN p
  ELSE InvertPiece([p EXCEPT !.bb = Set(@, side, type, square)], square, type, side)

remove_piece(p, square, type, side) ==
  IF square \notin p.bb[side][type] THEN p
  ELSE InvertPiece([p EXCEPT !.bb = Clear(@, side, type, square)], square, type, side)

\* mutant of Special: the pawn stays beside the piece it became.
Special_pawn_kept(p, m) ==
  IF m.flag \in Promotions THEN add_piece(p, m.to, m.flag, m.side) ELSE p

\* The switch over the flags.
Special(p, m) ==
  CASE m.flag = "en_passant" -> remove_piece(p, PassedPawn(m), "pawn", inverse(m.side))
    [] m.flag \in Rights ->
         LET c == CHOOSE d \in Castlings : d.right = m.flag
         IN  add_piece(remove_piece(p, c.rook, "rook", m.side), c.rookTo, "rook", m.side)
    [] m.flag \in Promotions ->
         add_piece(remove_piece(p, m.to, "pawn", m.side), m.to, m.flag, m.side)
    [] OTHER -> p

\* The rights that a departure from the square of a king or a rook ends; each
\* is toggled in the key whether it was still there or not.
update_castling_rights(p, from) ==
  LET lost == {c.right : c \in {d \in Castlings : from \in {d.from, d.rook}}}
  IN  [p EXCEPT !.rights = @ \ lost,
                !.key = [p.key EXCEPT !.rights = SymDiff(p.key.rights, lost)]]

\* mutant of update_en_passant: the midpoint is not halved.
update_en_passant_far(p, m) ==
  IF m.flag = "long"
    THEN InvertPiece([p EXCEPT !.ep = m.from + m.to], m.from + m.to, "pawn", inverse(m.side))
    ELSE [p EXCEPT !.ep = NoSquare]

\* The en passant square enters the key as a pawn of the other side, and leaves
\* it as a pawn of the side that made it, which is the other side by then.
update_en_passant(p, m) ==
  IF m.flag = "long"
    THEN LET ep == (m.from + m.to) \div 2
         IN  InvertPiece([p EXCEPT !.ep = ep], ep, "pawn", inverse(m.side))
  ELSE IF p.ep # NoSquare
    THEN InvertPiece([p EXCEPT !.ep = NoSquare], p.ep, "pawn", inverse(m.side))
  ELSE p

\* The other side is to move.
InvertSide(p) ==
  [p EXCEPT !.turn = inverse(p.turn), !.key = [p.key EXCEPT !.black = ~p.key.black]]

\* mutant of Moved: the captured kind of man is taken from the mover.
Moved_take_own(p, m) ==
  LET placed == add_piece(remove_piece(p, m.from, m.type, m.side), m.to, m.type, m.side)
      taken == IF m.captured = "none" THEN placed
               ELSE remove_piece(placed, m.to, m.captured, m.side)
  IN  InvertSide(update_en_passant(update_castling_rights(Special(taken, m), m.from), m))

Moved(p, m) ==
  LET placed == add_piece(remove_piece(p, m.from, m.type, m.side), m.to, m.type, m.side)
      taken == IF m.captured = "none" THEN placed
               ELSE remove_piece(placed, m.to, m.captured, inverse(m.side))
  IN  InvertSide(update_en_passant(update_castling_rights(Special(taken, m), m.from), m))

Irreversible(m) == m.type = "pawn" \/ m.captured # "none"

\* apply_move undoes everything when the mover's king ends in check.
RolledBack(p, m) == is_check(Moved(p, m).bb, m.side)

generate_moves(p) == generate_all_moves(p.bb, p.turn, p.ep, p.rights)

\* mutant of is_checkmate: every check is mate.
is_checkmate_any(p) == is_check(p.bb, p.turn)

is_checkmate(p) == is_check(p.bb, p.turn) /\ generate_moves(p) = {}
is_stalemate(p) == ~is_check(p.bb, p.turn) /\ generate_moves(p) = {}

is_threefold_repetition(h) ==
  Cardinality({i \in 1 .. Len(h) : h[i].key = Last(h).key}) >= 3

\* _fifty_moves_ctr >= 100.0f, which advances by 0.5f.
is_fifty_move_rule(c) == c >= 200

Outcome(p, c, h) ==
  IF is_checkmate(p) THEN "checkmate"
  ELSE IF is_stalemate(p) THEN "stalemate"
  ELSE IF is_threefold_repetition(h) THEN "threefold_repetition"
  ELSE IF is_fifty_move_rule(c) THEN "fifty_move_rule"
  ELSE "playing"
-----------------------------------------------------------------------------
Init ==
  /\ \E s \in Start :
       /\ pos = NewPosition(s)
       /\ clock = s.clock
       /\ history = <<Entry(NewPosition(s))>>
       /\ landing = s.landing
       /\ plies = s.plies
  /\ result = "playing"

\* A request: two squares, and the piece a pawn is to become.
Request(m) ==
  [from |-> m.from, to |-> m.to, promotion |-> IF m.flag \in Promotions THEN m.flag ELSE "none"]

\* mutant of Named: the first promotion in the list will do.
Named_any(moves, rq) == {m \in moves : m.from = rq.from /\ m.to = rq.to}

\* The generated moves a request may mean; on_move takes the first in the list.
Named(moves, rq) ==
  {m \in moves : m.from = rq.from /\ m.to = rq.to
                  /\ (m.flag \in Promotions => m.flag = rq.promotion)}

\* What the clients ask for: the browser names a queen with every move, the
\* console client has no way to name a piece.
BrowserRequest(m) == [from |-> m.from, to |-> m.to, promotion |-> "queen"]
ConsoleRequest(m) == [from |-> m.from, to |-> m.to, promotion |-> "none"]

apply_move(m) ==
  /\ ~RolledBack(pos, m)
  /\ pos' = Moved(pos, m)
  /\ clock' = IF Irreversible(m) THEN 0 ELSE clock + 1
  /\ history' = Append(IF Irreversible(m) THEN <<>> ELSE history, Entry(Moved(pos, m)))

on_move(moves, rq) ==
  /\ \E m \in Named(moves, rq) : apply_move(m)
  /\ result' = Outcome(pos', clock', history')
  /\ plies' = plies - 1
  /\ UNCHANGED landing

Next ==
  /\ result = "playing" /\ plies > 0
  /\ LET moves == generate_moves(pos)
     IN  \E rq \in {Request(m) : m \in moves} : rq.to \in landing /\ on_move(moves, rq)

Spec == Init /\ [][Next]_vars

-----------------------------------------------------------------------------
(* Properties.                                                             *)

Results == {"playing", "checkmate", "stalemate", "threefold_repetition", "fifty_move_rule"}

TypeOK ==
  /\ pos.bb \in [Sides -> [Types -> SUBSET Squares]]
  /\ pos.ep \in Squares \union {NoSquare}
  /\ pos.rights \subseteq Rights
  /\ pos.turn \in Sides
  /\ pos.key.men \subseteq Squares \X Types \X Sides
  /\ pos.key.black \in BOOLEAN
  /\ pos.key.rights \subseteq Rights
  /\ clock \in Nat
  /\ result \in Results

Men(p) == {e \in Squares \X Types \X Sides : e[1] \in p.bb[e[3]][e[2]]}
MenOf(p, side) == Cardinality({m \in Men(p) : m[3] = side})
Playing == result = "playing"
BothKings == \A side \in Sides : pos.bb[side]["king"] # {}

\* The twelve bitboards never overlap: castling, promotion and a capture by a
\* piece of the captured one's kind each touch several of them.
OneManPerSquare ==
  \A s1, s2 \in Sides : \A t1, t2 \in Types :
    <<s1, t1>> # <<s2, t2>> => pos.bb[s1][t1] \intersect pos.bb[s2][t2] = {}

\* Every way for a pawn to reach its last row goes through the promotion.
NoPawnOnLastRow ==
  \A side \in Sides : \A p \in pos.bb[side]["pawn"] : Row(p) \in 1 .. 6

\* The legality filter of the generator and the check at the end of apply_move
\* agree: a generated move is never taken back ("Move failed" is not sent).
NeverRolledBack ==
  Playing => \A m \in generate_moves(pos) : ~RolledBack(pos, m)

\* A generated move, castling apart, is one that the rules know of for this man
\* on this board, as long as no king has been taken (castling does without one):
\* the bit tricks never jump, wrap around the edge or take an own man, and they
\* name the captured man correctly.
MovesObeyRules ==
  Playing /\ BothKings => \A m \in generate_moves(pos) :
    /\ m.from \in pos.bb[pos.turn][m.type]
    /\ m.flag \notin Rights => /\ Reaches(pos.bb, pos.turn, m.type, m.from, m.to)
                              /\ m.captured = TypeAt(pos.bb, inverse(pos.turn), m.to)

\* A request means one move, as long as no king has been taken: no two generated
\* moves share their squares and the piece they promote to, so the order of the
\* list never decides what is played. A console client, which names no piece, is
\* refused its promotions and has every other move played.
RequestMeansOneMove ==
  Playing /\ BothKings => LET moves == generate_moves(pos)
                          IN  \A m \in moves :
    /\ Named(moves, Request(m)) = {m}
    /\ Named(moves, ConsoleRequest(m)) = IF m.flag \in Promotions THEN {} ELSE {m}

\* No move is missing, as long as no king has been taken: a browser lets its player
\* make the moves its own chess library allows, which it loads with the whole FEN
\* (sendMove), and each of them is played, by the man it was made with: the moves of
\* the men, and the castlings of the side to move by the rights it has kept, but not
\* a capture in passing. A castling that is generated without its rook is played as
\* well. A pawn on its last row finds the queen among the generated moves, and the
\* queen named with any other move does no harm.
BrowserMovesArePlayed ==
  Playing /\ BothKings =>
    LET moves == generate_moves(pos)
    IN  \A r \in RuleMoves(pos.bb, pos.turn)
                   \union RuleCastlings(pos.bb, pos.turn, pos.rights) \union moves :
          \E m \in moves : m.type = r.type /\ Named(moves, BrowserRequest(r)) = {m}

\* The FEN of a move event makes the board the console client set up for itself
\* show the position of the game, square by square.
ConsoleShowsPosition ==
  LET shown == update_board_from_fen(reset_board, get_fen(pos.bb))
  IN  \A p \in Squares :
        shown[p] = IF p \in Empty(pos.bb) THEN Dot
                   ELSE CHOOSE man \in Sides \X Types : p \in pos.bb[man[1]][man[2]]

\* Reading a text that was written gives the position back.
FenReadsBack == Pieces(get_fen(pos.bb)) = pos.bb

\* A game is only lost by checkmate when the king really is attacked and no move by
\* the rules saves it, a capture in passing apart.
MateIsMate ==
  result = "checkmate" => InCheck(pos.bb, pos.turn) /\ RuleMoves(pos.bb, pos.turn) = {}

\* A game is only drawn by repetition when the same men stood on the same
\* squares with the same side to move three times: the incremental key never
\* forgets a man, whatever was taken, promoted or castled before.
RepetitionIsRepetition ==
  result = "threefold_repetition" =>
    Cardinality({i \in 1 .. Len(history) :
                   history[i].bb = pos.bb /\ history[i].turn = pos.turn}) >= 3

\* This step castles: the king, or where there was none a new one, lands on the
\* square a castling ends on.
CastlesNow(side) ==
  \E c \in Castlings :
    c.side = side /\ pos.bb[side]["king"] \subseteq {c.from} /\ pos'.bb[side]["king"] = {c.to}

\* A move that is no castling moves one man of the mover and takes at most the
\* one it names.
MenAccounted ==
  [][\A side \in Sides :
       pos.turn = side /\ ~CastlesNow(side) =>
         /\ MenOf(pos', side) = MenOf(pos, side)
         /\ MenOf(pos, inverse(side)) - MenOf(pos', inverse(side)) \in {0, 1}]_vars

\* A player whose king is attacked and who has no move by the rules has lost;
\* the game does not go on.
MateEndsGame ==
  Playing /\ BothKings => ~(InCheck(pos.bb, pos.turn) /\ RuleMoves(pos.bb, pos.turn) = {})

\* No legal move puts a man on the board that was not there.
NoManFromNowhere ==
  [][\A side \in Sides : MenOf(pos', side) <= MenOf(pos, side)]_vars

\* A pawn that stands beside one that has just made its long move may take it
\* in passing, unless that leaves the own king attacked; the more so when nothing
\* else saves the king, and the game would be lost by a checkmate that is none.
EnPassantOffered ==
  result \in {"playing", "checkmate"} => \A r \in PassingMoves(pos.bb, pos.turn, pos.ep) :
    \E m \in generate_moves(pos) : m.from = r.from /\ m.to = r.to

\* Fifty moves of each side without a capture or a pawn move end the game.
FiftyMovesEndGame == Playing => clock < 2 * 50

\* Two entries of the history have one key exactly when the positions agree,
\* castling rights included.
KeyIdentifiesPosition ==
  \A i, j \in 1 .. Len(history) :
    history[i].key = history[j].key <=>
      /\ history[i].bb = history[j].bb
      /\ history[i].turn = history[j].turn
      /\ history[i].rights = history[j].rights
=============================================================================

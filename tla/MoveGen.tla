------------------------------ MODULE MoveGen ------------------------------
(***************************************************************************)
(* The move generator of chess_engine/.  A bitboard is the set of the      *)
(* squares whose bit is set (square = 8 * row + column, a1 = 0), and       *)
(* Pieces is the array of twelve: bb[side][type].  A shift that leaves the *)
(* board drops the bit; and, or, xor and complement are set operations.    *)
(***************************************************************************)
EXTENDS Integers, FiniteSets, FiniteSetsExt

Squares == 0 .. 63
Sides == {"white", "black"}
Types == {"pawn", "knight", "bishop", "rook", "queen", "king"}
Promotions == {"knight", "bishop", "rook", "queen"}
NoSquare == 255   \* _en_passant when there is none

Column(p) == p % 8
Row(p) == p \div 8
Dist(a, b) == IF a < b THEN b - a ELSE a - b
inverse(side) == IF side = "white" THEN "black" ELSE "white"

SideBoard(bb, side) == UNION {bb[side][t] : t \in Types}
All(bb) == SideBoard(bb, "white") \union SideBoard(bb, "black")
Empty(bb) == Squares \ All(bb)

\* The type of side's piece on p, 255 in the code when there is none.
TypeAt(bb, side, p) ==
  IF \E t \in Types : p \in bb[side][t] THEN CHOOSE t \in Types : p \in bb[side][t] ELSE "none"

\* Bit scans; the multiplication table of bsf yields 63 for an empty board.
bsf(b) == IF b = {} THEN 63 ELSE Min(b)
bsr(b) == Max(b)

-----------------------------------------------------------------------------
\* The precomputed masks.
KnightMasks == [p \in Squares |->
  {q \in Squares : {Dist(Column(q), Column(p)), Dist(Row(q), Row(p))} = {1, 2}}]

KingMasks == [p \in Squares |->
  {q \in Squares \ {p} : Dist(Column(q), Column(p)) <= 1 /\ Dist(Row(q), Row(p)) <= 1}]

Diagonals == {<<-1, 1>>, <<1, 1>>, <<-1, -1>>, <<1, -1>>}
Straights == {<<0, 1>>, <<0, -1>>, <<-1, 0>>, <<1, 0>>}
Rays == [p \in Squares |-> [d \in Diagonals \union Straights |->
  {q \in Squares : \E n \in 1 .. 7 : /\ Column(q) = Column(p) + n * d[1]
                                     /\ Row(q) = Row(p) + n * d[2]}]]

\* South, West, SouthWest and SouthEast scan from the high end.
ScanReverse(d) == d \in {<<0, -1>>, <<-1, 0>>, <<-1, -1>>, <<1, -1>>}

calc_ray(bb, p, side, only_captures, d) ==
  LET ray == Rays[p][d]
      blockers == ray \intersect All(bb)
      blocking == IF ScanReverse(d) THEN bsr(blockers) ELSE bsf(blockers)
      moves == IF only_captures THEN {} ELSE ray \ Rays[blocking][d]
  IN  IF blockers = {} THEN (IF only_captures THEN {} ELSE ray)
      ELSE IF blocking \in SideBoard(bb, inverse(side)) THEN moves \union {blocking}
      ELSE moves \ {blocking}

RayMask(bb, p, side, only_captures, directions) ==
  UNION {calc_ray(bb, p, side, only_captures, d) : d \in directions}

-----------------------------------------------------------------------------
\* Attacks.
PawnAttacks(bb, p, by_side) ==
  IF by_side = "white"
    THEN \/ Column(p) # 0 /\ p >= 8 /\ p - 9 \in bb["white"]["pawn"]
         \/ Column(p) # 7 /\ p >= 8 /\ p - 7 \in bb["white"]["pawn"]
    ELSE \/ Column(p) # 0 /\ p <= 55 /\ p + 7 \in bb["black"]["pawn"]
         \/ Column(p) # 7 /\ p <= 55 /\ p + 9 \in bb["black"]["pawn"]

\* The rays are asked for the captures of by_side itself, so they end on pieces
\* of the other side and never meet a bishop, rook or queen of by_side.
is_square_attacked(bb, p, by_side) ==
  \/ PawnAttacks(bb, p, by_side)
  \/ KnightMasks[p] \intersect bb[by_side]["knight"] # {}
  \/ KingMasks[p] \intersect bb[by_side]["king"] # {}
  \/ RayMask(bb, p, by_side, TRUE, Diagonals)
       \intersect (bb[by_side]["bishop"] \union bb[by_side]["queen"]) # {}
  \/ RayMask(bb, p, by_side, TRUE, Straights)
       \intersect (bb[by_side]["rook"] \union bb[by_side]["queen"]) # {}

is_check(bb, side) ==
  bb[side]["king"] # {} /\ is_square_attacked(bb, bsf(bb[side]["king"]), inverse(side))

-----------------------------------------------------------------------------
\* Moves.
Move(from, to, type, side, captured, flag) ==
  [from |-> from, to |-> to, type |-> type, side |-> side, captured |-> captured, flag |-> flag]

\* The four castlings: squares of the king, of the rook, those that must be
\* empty and those that must not be attacked.
Castlings ==
  { [right |-> "WS", side |-> "white", from |-> 4, to |-> 6, rook |-> 7, rookTo |-> 5,
     empty |-> 5 .. 6, safe |-> 5 .. 6],
    [right |-> "WL", side |-> "white", from |-> 4, to |-> 2, rook |-> 0, rookTo |-> 3,
     empty |-> 1 .. 3, safe |-> 2 .. 3],
    [right |-> "BS", side |-> "black", from |-> 60, to |-> 62, rook |-> 63, rookTo |-> 61,
     empty |-> 61 .. 62, safe |-> 61 .. 62],
    [right |-> "BL", side |-> "black", from |-> 60, to |-> 58, rook |-> 56, rookTo |-> 59,
     empty |-> 57 .. 59, safe |-> 58 .. 59] }
Rights == {c.right : c \in Castlings}

Clear(bb, side, type, p) == [bb EXCEPT ![side] = [bb[side] EXCEPT ![type] = @ \ {p}]]
Set(bb, side, type, p) == [bb EXCEPT ![side] = [bb[side] EXCEPT ![type] = @ \union {p}]]

\* The square behind the target of an en passant capture.
PassedPawn(m) == IF m.side = "white" THEN m.to - 8 ELSE m.to + 8

is_legal_after_move(bb, m) ==
  LET moved == Set(Clear(bb, m.side, m.type, m.from), m.side, m.type, m.to)
      taken == IF m.captured = "none" THEN moved
               ELSE Clear(moved, inverse(m.side), m.captured, m.to)
      after == IF m.flag = "en_passant"
                 THEN Clear(taken, inverse(m.side), "pawn", PassedPawn(m))
                 ELSE taken
  IN  ~is_square_attacked(after, bsf(after[m.side]["king"]), inverse(m.side))

\* A move onto p of what stands there, or of nothing.
Capture(bb, from, p, type, side) ==
  Move(from, p, type, side, TypeAt(bb, inverse(side), p), "default")

\* The move of a pawn that becomes a piece of the given type.
Become(m, type) == Move(m.from, m.to, m.type, m.side, m.captured, type)

\* mutant of Promoted: only white promotes.
Promoted_white(m) == IF m.to > 55 THEN {Become(m, t) : t \in Promotions} ELSE {m}

\* mutant of Promoted: the loop over the pieces ends before the queen.
Promoted_under(m) ==
  IF m.to < 8 \/ m.to > 55 THEN {Become(m, t) : t \in Promotions \ {"queen"}} ELSE {m}

\* Promotion squares of either side.
Promoted(m) ==
  IF m.to < 8 \/ m.to > 55 THEN {Become(m, t) : t \in Promotions} ELSE {m}

Shift(b, n) == {p + n : p \in b} \intersect Squares

\* mutant of PawnMoves: a capture to the right wraps around the board's edge.
PawnMoves_wrapping(bb, side, ep) ==
  LET pawns == bb[side]["pawn"]
      up == IF side = "white" THEN 8 ELSE -8
      right == {p \in Shift(pawns, up + 1) : p \in SideBoard(bb, inverse(side))}
  IN  {Capture(bb, p - up - 1, p, "pawn", side) : p \in right}

\* The en passant branch asks for a target on the third row when white is to
\* move and on the sixth when black is, where the mover's own pawns pass.
PawnMoves(bb, side, ep) ==
  LET pawns == bb[side]["pawn"]
      up == IF side = "white" THEN 8 ELSE -8
      default == Shift(pawns, up) \intersect Empty(bb)
      third == IF side = "white" THEN 2 ELSE 5
      long == Shift({p \in default : Row(p) = third}, up) \intersect Empty(bb)
      enemy == SideBoard(bb, inverse(side))
      left == {p \in Shift(pawns, up - 1) : Column(p) # 7 /\ p \in enemy}
      right == {p \in Shift(pawns, up + 1) : Column(p) # 0 /\ p \in enemy}
      passing == {p \in ((IF Column(ep) # 0 THEN {ep - up - 1} ELSE {})
                        \union (IF Column(ep) # 7 THEN {ep - up + 1} ELSE {})) \intersect pawns :
                    Row(ep) = third}
  IN  {Move(p - up, p, "pawn", side, "none", "default") : p \in default}
        \union {Move(p - 2 * up, p, "pawn", side, "none", "long") : p \in long}
        \union {Capture(bb, p - up + 1, p, "pawn", side) : p \in left}
        \union {Capture(bb, p - up - 1, p, "pawn", side) : p \in right}
        \union {Move(p, ep, "pawn", side, "none", "en_passant") : p \in passing}

PieceMask(bb, p, type, side) ==
  CASE type = "knight" -> KnightMasks[p] \ SideBoard(bb, side)
    [] type = "king"   -> KingMasks[p] \ SideBoard(bb, side)
    [] type = "bishop" -> RayMask(bb, p, side, FALSE, Diagonals)
    [] type = "rook"   -> RayMask(bb, p, side, FALSE, Straights)
    [] type = "queen"  -> RayMask(bb, p, side, FALSE, Diagonals \union Straights)

PieceMoves(bb, side) ==
  UNION {UNION {{Capture(bb, p, q, type, side) : q \in PieceMask(bb, p, type, side)} :
                  p \in bb[side][type]} : type \in Types \ {"pawn"}}

\* mutant of CastlingMoves: the king may castle out of check and through it.
CastlingMoves_unsafe(bb, side, rights) ==
  {Move(c.from, c.to, "king", side, "none", c.right) :
     c \in {d \in Castlings : d.side = side /\ d.right \in rights /\ d.empty \subseteq Empty(bb)}}

\* Neither the king nor the rook is looked for: the right alone decides.
CastlingMoves(bb, side, rights) ==
  {Move(c.from, c.to, "king", side, "none", c.right) :
     c \in {d \in Castlings :
              /\ d.side = side
              /\ d.right \in rights
              /\ d.empty \subseteq Empty(bb)
              /\ ~is_check(bb, side)
              /\ \A p \in d.safe : ~is_square_attacked(bb, p, inverse(side))}}

generate_all_moves(bb, side, ep, rights) ==
  (UNION {Promoted(m) : m \in {n \in PawnMoves(bb, side, ep) : is_legal_after_move(bb, n)}})
    \union {m \in PieceMoves(bb, side) : is_legal_after_move(bb, m)}
    \union CastlingMoves(bb, side, rights)
=============================================================================

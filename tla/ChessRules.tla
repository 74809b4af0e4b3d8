----------------------------- MODULE ChessRules -----------------------------
(***************************************************************************)
(* The rules of chess by coordinates, written without bitboards: what a    *)
(* man attacks and where it may go.  The reference the generator is        *)
(* compared with; nothing here is taken from the code but the numbering of *)
(* the squares and the names.                                              *)
(***************************************************************************)
EXTENDS MoveGen

Sign(n) == IF n > 0 THEN 1 ELSE IF n < 0 THEN -1 ELSE 0
dCol(p, q) == Dist(Column(p), Column(q))
dRow(p, q) == Dist(Row(p), Row(q))

OnStraight(p, q) == p # q /\ (dCol(p, q) = 0 \/ dRow(p, q) = 0)
OnDiagonal(p, q) == p # q /\ dCol(p, q) = dRow(p, q)

\* The squares strictly between p and q, which are on a common line.
Between(p, q) ==
  LET step == 8 * Sign(Row(q) - Row(p)) + Sign(Column(q) - Column(p))
      n == IF dCol(p, q) > dRow(p, q) THEN dCol(p, q) ELSE dRow(p, q)
  IN  {p + k * step : k \in 1 .. n - 1}

Forward(side) == IF side = "white" THEN 1 ELSE -1

\* A man of the given type and side on p attacks q.
Attacks(bb, side, type, p, q) ==
  LET clear == Between(p, q) \intersect All(bb) = {}
  IN  CASE type = "pawn"   -> dCol(p, q) = 1 /\ Row(q) = Row(p) + Forward(side)
        [] type = "knight" -> {dCol(p, q), dRow(p, q)} = {1, 2}
        [] type = "king"   -> dCol(p, q) <= 1 /\ dRow(p, q) <= 1 /\ p # q
        [] type = "bishop" -> OnDiagonal(p, q) /\ clear
        [] type = "rook"   -> OnStraight(p, q) /\ clear
        [] type = "queen"  -> (OnDiagonal(p, q) \/ OnStraight(p, q)) /\ clear

Attacked(bb, q, by_side) ==
  \E type \in Types : \E p \in bb[by_side][type] : Attacks(bb, by_side, type, p, q)

InCheck(bb, side) == \E k \in bb[side]["king"] : Attacked(bb, k, inverse(side))

\* Where a man may go, not counting castling and en passant.
Reaches(bb, side, type, p, q) ==
  LET steps == (Row(q) - Row(p)) * Forward(side)
      home == IF side = "white" THEN 1 ELSE 6
  IN  /\ q \notin SideBoard(bb, side)
      /\ IF type = "pawn" /\ Column(p) = Column(q)
           THEN /\ steps = 1 \/ (steps = 2 /\ Row(p) = home)
                /\ (Between(p, q) \union {q}) \intersect All(bb) = {}
           ELSE /\ Attacks(bb, side, type, p, q)
                /\ type = "pawn" => q \in SideBoard(bb, inverse(side))

AfterMove(bb, side, type, p, q) ==
  [s \in Sides |-> [t \in Types |->
     IF s = side THEN (IF t = type THEN (bb[s][t] \ {p}) \union {q} ELSE bb[s][t])
     ELSE bb[s][t] \ {q}]]

\* The moves the rules allow: they leave the own king unattacked.
RuleMoves(bb, side) ==
  UNION {{[type |-> m[2], from |-> m[1], to |-> q] :
            q \in {r \in Squares : /\ Reaches(bb, side, m[2], m[1], r)
                                   /\ ~InCheck(AfterMove(bb, side, m[2], m[1], r), side)}} :
           m \in {n \in SideBoard(bb, side) \X Types : n[1] \in bb[side][n[2]]}}

\* The castlings the rules allow to a side that has kept the given rights: king and
\* rook at home with nothing between them, and no attack on the king, on its way or
\* on the square it comes to.
RuleCastlings(bb, side, rights) ==
  {[type |-> "king", from |-> c.from, to |-> c.to] :
     c \in {d \in Castlings :
              /\ d.side = side /\ d.right \in rights
              /\ d.from \in bb[side]["king"] /\ d.rook \in bb[side]["rook"]
              /\ Between(d.from, d.rook) \intersect All(bb) = {}
              /\ ~InCheck(bb, side)
              /\ \A q \in Between(d.from, d.to) \union {d.to} :
                   ~Attacked(bb, q, inverse(side))}}

\* The board after a pawn has gone from p to q and taken the one it passed.
AfterPassing(bb, side, p, q) ==
  LET moved == AfterMove(bb, side, "pawn", p, q)
  IN  Clear(moved, inverse(side), "pawn", 8 * Row(p) + Column(q))

\* The captures in passing the rules allow when a pawn has just stepped over ep.
PassingMoves(bb, side, ep) ==
  {[type |-> "pawn", from |-> p, to |-> ep] :
     p \in {r \in bb[side]["pawn"] : /\ ep # NoSquare
                                     /\ Attacks(bb, side, "pawn", r, ep)
                                     /\ ~InCheck(AfterPassing(bb, side, r, ep), side)}}
=============================================================================

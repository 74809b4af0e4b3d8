--------------------------- MODULE MoveGenProofs ---------------------------
(***************************************************************************)
(* Proofs about the move generator, for every board: what an attack        *)
(* depends on, where a generated move ends, and what it takes.             *)
(***************************************************************************)
EXTENDS ChessRules, WellFoundedInduction, TLAPS

Boards == [Sides -> [Types -> SUBSET Squares]]

\* No two of the twelve bitboards share a square.
Apart(bb) ==
  \A s1, s2 \in Sides : \A t1, t2 \in Types :
    <<s1, t1>> # <<s2, t2>> => bb[s1][t1] \intersect bb[s2][t2] = {}

\* The two sides, and what a square's row and column are.
LEMMA SideFacts ==
  \A s \in Sides : inverse(s) \in Sides /\ inverse(s) # s /\ inverse(inverse(s)) = s
  BY DEF Sides, inverse

LEMMA SquareFacts ==
  \A p \in Squares : /\ p \in Int /\ Row(p) \in 0 .. 7 /\ Column(p) \in 0 .. 7
                     /\ p = 8 * Row(p) + Column(p)
  BY DEF Squares, Row, Column

\* The two operations on a board, square by square.
LEMMA SetFacts ==
  ASSUME NEW bb \in Boards, NEW s \in Sides, NEW t \in Types, NEW x \in Squares
  PROVE  /\ Set(bb, s, t, x) \in Boards
         /\ \A s2 \in Sides, t2 \in Types, q \in Squares :
              q \in Set(bb, s, t, x)[s2][t2] <=> q \in bb[s2][t2] \/ (s2 = s /\ t2 = t /\ q = x)
  BY DEF Set, Boards

LEMMA ClearFacts ==
  ASSUME NEW bb \in Boards, NEW s \in Sides, NEW t \in Types, NEW x \in Squares
  PROVE  /\ Clear(bb, s, t, x) \in Boards
         /\ \A s2 \in Sides, t2 \in Types, q \in Squares :
              q \in Clear(bb, s, t, x)[s2][t2] <=>
                q \in bb[s2][t2] /\ ~(s2 = s /\ t2 = t /\ q = x)
  BY DEF Clear, Boards

\* The sets of one side's men and of all men are made of the twelve bitboards.
LEMMA BoardFacts ==
  ASSUME NEW bb \in Boards
  PROVE  /\ \A s \in Sides, t \in Types : bb[s][t] \subseteq Squares
         /\ \A s \in Sides : SideBoard(bb, s) \subseteq Squares
         /\ All(bb) \subseteq Squares
         /\ \A s \in Sides, t \in Types : bb[s][t] \subseteq SideBoard(bb, s)
         /\ \A s \in Sides : \A p \in SideBoard(bb, s) : \E t \in Types : p \in bb[s][t]
         /\ \A s \in Sides : All(bb) = SideBoard(bb, s) \union SideBoard(bb, inverse(s))
  <1>1. \A s \in Sides, t \in Types : bb[s][t] \subseteq Squares
    BY DEF Boards
  <1>2. \A s \in Sides : SideBoard(bb, s) \subseteq Squares
    BY <1>1 DEF SideBoard
  <1>3. \A s \in Sides, t \in Types : bb[s][t] \subseteq SideBoard(bb, s)
    BY DEF SideBoard
  <1>4. \A s \in Sides : \A p \in SideBoard(bb, s) : \E t \in Types : p \in bb[s][t]
    BY DEF SideBoard
  <1>5. "white" \in Sides /\ "black" \in Sides
    BY DEF Sides
  <1>6. \A s \in Sides : All(bb) = SideBoard(bb, s) \union SideBoard(bb, inverse(s))
    BY DEF All, Sides, inverse
  <1> QED
    BY <1>1, <1>2, <1>3, <1>4, <1>5, <1>6 DEF All

\* Where the boards are apart, so are the two sides.
LEMMA SidesApart ==
  ASSUME NEW bb \in Boards, Apart(bb), NEW s \in Sides
  PROVE  SideBoard(bb, s) \intersect SideBoard(bb, inverse(s)) = {}
  <1> SUFFICES ASSUME NEW p \in SideBoard(bb, s), p \in SideBoard(bb, inverse(s))
               PROVE  FALSE
    OBVIOUS
  <1>1. PICK t1 \in Types : p \in bb[s][t1]
    BY BoardFacts
  <1>2. PICK t2 \in Types : p \in bb[inverse(s)][t2]
    BY BoardFacts, SideFacts
  <1>3. <<s, t1>> # <<inverse(s), t2>>
    BY SideFacts
  <1> QED
    BY <1>1, <1>2, <1>3, SideFacts DEF Apart

-----------------------------------------------------------------------------
(* Bit scans.                                                              *)

\* A bit scan finds the least, or the greatest, square of a board.
LEMMA LeastOfNaturals ==
  ASSUME NEW T, T \subseteq Nat, T # {}
  PROVE  \E x \in T : \A y \in T : x <= y
  <1>1. \E x \in T : \A y \in T : ~(<<y, x>> \in OpToRel(<, Nat))
    BY WFMin, NatLessThanWellFounded, Zenon
  <1>2. PICK x \in T : \A y \in T : ~(<<y, x>> \in OpToRel(<, Nat))
    BY <1>1
  <1>3. \A y \in T : ~(y < x)
    BY <1>2, Zenon DEF OpToRel
  <1> QED
    BY <1>3

LEMMA MinFacts ==
  ASSUME NEW S, S \subseteq Squares, S # {}
  PROVE  Min(S) \in S /\ \A y \in S : Min(S) <= y
  <1>1. S \subseteq Nat
    BY DEF Squares
  <1>2. \E x \in S : \A y \in S : x <= y
    BY <1>1, LeastOfNaturals
  <1> QED
    BY <1>2 DEF Min

LEMMA MaxFacts ==
  ASSUME NEW S, S \subseteq Squares, S # {}
  PROVE  Max(S) \in S /\ \A y \in S : y <= Max(S)
  <1> DEFINE T == {n \in Nat : 63 - n \in S}
  <1>1. T \subseteq Nat
    OBVIOUS
  <1>2. \A y \in S : 63 - y \in T
    BY DEF Squares
  <1>3. T # {}
    BY <1>2
  <1>4. PICK z \in T : \A y \in T : z <= y
    BY <1>1, <1>3, LeastOfNaturals
  <1>5. \A y \in S : 63 - z >= y
    <2> SUFFICES ASSUME NEW y \in S PROVE 63 - z >= y
      OBVIOUS
    <2>1. z <= 63 - y
      BY <1>2, <1>4
    <2> QED
      BY <2>1 DEF Squares
  <1>6. 63 - z \in S
    BY <1>4
  <1>7. Max(S) \in S /\ \A y \in S : Max(S) >= y
    BY <1>5, <1>6 DEF Max
  <1> QED
    BY <1>7 DEF Squares

\* What stands on a ray behind a square of it is on the ray from that square:
\* the scan in the direction's own sense finds the nearest man.
LEMMA BehindOnRay ==
  ASSUME NEW p \in Squares, NEW d \in Diagonals \union Straights,
         NEW b \in Rays[p][d], NEW q \in Rays[p][d],
         IF ScanReverse(d) THEN q < b ELSE b < q
  PROVE  q \in Rays[b][d]
  <1>1. b \in Squares /\ q \in Squares
    BY DEF Rays
  <1>2. PICK i \in 1 .. 7 : /\ Column(b) = Column(p) + i * d[1]
                            /\ Row(b) = Row(p) + i * d[2]
    BY DEF Rays
  <1>3. PICK j \in 1 .. 7 : /\ Column(q) = Column(p) + j * d[1]
                            /\ Row(q) = Row(p) + j * d[2]
    BY DEF Rays
  <1>4. j - i \in 1 .. 7 /\ Column(q) = Column(b) + (j - i) * d[1]
                         /\ Row(q) = Row(b) + (j - i) * d[2]
    <2>1. /\ Column(p) \in Int /\ Row(p) \in Int
          /\ b = 8 * Row(b) + Column(b) /\ q = 8 * Row(q) + Column(q)
      BY <1>1, SquareFacts
    <2>2. CASE d = <<0, 1>>
      BY <2>1, <2>2, <1>2, <1>3 DEF ScanReverse
    <2>3. CASE d = <<0, -1>>
      BY <2>1, <2>3, <1>2, <1>3 DEF ScanReverse
    <2>4. CASE d = <<1, 0>>
      BY <2>1, <2>4, <1>2, <1>3 DEF ScanReverse
    <2>5. CASE d = <<-1, 0>>
      BY <2>1, <2>5, <1>2, <1>3 DEF ScanReverse
    <2>6. CASE d = <<1, 1>>
      BY <2>1, <2>6, <1>2, <1>3 DEF ScanReverse
    <2>7. CASE d = <<1, -1>>
      BY <2>1, <2>7, <1>2, <1>3 DEF ScanReverse
    <2>8. CASE d = <<-1, 1>>
      BY <2>1, <2>8, <1>2, <1>3 DEF ScanReverse
    <2>9. CASE d = <<-1, -1>>
      BY <2>1, <2>9, <1>2, <1>3 DEF ScanReverse
    <2> QED
      BY <2>2, <2>3, <2>4, <2>5, <2>6, <2>7, <2>8, <2>9 DEF Diagonals, Straights
  <1> QED
    BY <1>1, <1>4 DEF Rays

\* The man a ray ends on: the nearest one.
Blocking(bb, p, d) ==
  LET blockers == Rays[p][d] \intersect All(bb)
  IN  IF ScanReverse(d) THEN bsr(blockers) ELSE bsf(blockers)

\* The bit that the scan yields is the nearest man of the ray: every other one is
\* on the ray behind it.
LEMMA BlockingIsNearest ==
  ASSUME NEW bb \in Boards, NEW p \in Squares, NEW d \in Diagonals \union Straights,
         Rays[p][d] \intersect All(bb) # {}
  PROVE  /\ Blocking(bb, p, d) \in Rays[p][d] \intersect All(bb)
         /\ \A q \in Rays[p][d] \intersect All(bb) :
              q = Blocking(bb, p, d) \/ q \in Rays[Blocking(bb, p, d)][d]
  <1> DEFINE blockers == Rays[p][d] \intersect All(bb)
             b == Blocking(bb, p, d)
  <1>1. blockers \subseteq Squares /\ blockers # {}
    BY BoardFacts
  <1>2. /\ b \in blockers
        /\ \A q \in blockers : IF ScanReverse(d) THEN q <= b ELSE b <= q
    <2>1. CASE ScanReverse(d)
      BY <1>1, <2>1, MaxFacts DEF Blocking, bsr
    <2>2. CASE ~ScanReverse(d)
      BY <1>1, <2>2, MinFacts DEF Blocking, bsf
    <2> QED BY <2>1, <2>2
  <1> HIDE DEF b
  <1>3. ASSUME NEW q \in blockers, q # b
        PROVE  q \in Rays[b][d]
    <2>1. IF ScanReverse(d) THEN q < b ELSE b < q
      BY <1>1, <1>2, <1>3 DEF Squares
    <2> QED
      BY <1>2, <2>1, BehindOnRay
  <1> QED
    BY <1>2, <1>3 DEF b

LEMMA RowColumn ==
  ASSUME NEW r \in 0 .. 7, NEW c \in 0 .. 7, NEW x, x = 8 * r + c
  PROVE  x \in Squares /\ Row(x) = r /\ Column(x) = c
  BY DEF Squares, Row, Column

\* One coordinate along a ray, j squares far,
IsAlong(a, b, j, e) ==
  /\ Dist(a, b) = IF e = 0 THEN 0 ELSE j
  /\ Sign(b - a) = e
  /\ \A k \in 1 .. j - 1 : a + k * e \in 0 .. 7 /\ b = (a + k * e) + (j - k) * e

LEMMA Along ==
  ASSUME NEW a \in 0 .. 7, NEW b \in 0 .. 7, NEW j \in 1 .. 7, NEW e \in {-1, 0, 1}, b = a + j * e
  PROVE  IsAlong(a, b, j, e)
  <1>1. CASE e = 0
    BY <1>1 DEF Dist, Sign, IsAlong
  <1>2. CASE e = 1
    BY <1>2 DEF Dist, Sign, IsAlong
  <1>3. CASE e = -1
    BY <1>3 DEF Dist, Sign, IsAlong
  <1> QED
    BY <1>1, <1>2, <1>3

\* then i squares farther,
IsOnward(a, x, n, e) == x = a + n * e /\ (e # 0 => a # x /\ n \in 1 .. 7)

LEMMA Onward ==
  ASSUME NEW a \in 0 .. 7, NEW b \in 0 .. 7, NEW x \in 0 .. 7, NEW j \in 1 .. 7, NEW i \in 1 .. 7,
         NEW e \in {-1, 0, 1}, b = a + j * e, x = b + i * e
  PROVE  IsOnward(a, x, i + j, e)
  <1>1. CASE e = 0
    BY <1>1 DEF IsOnward
  <1>2. CASE e = 1
    BY <1>2 DEF IsOnward
  <1>3. CASE e = -1
    BY <1>3 DEF IsOnward
  <1> QED
    BY <1>1, <1>2, <1>3

\* and never back,
LEMMA Returning ==
  ASSUME NEW a \in 0 .. 7, NEW b \in 0 .. 7, NEW j \in 1 .. 7, NEW i \in 1 .. 7,
         NEW e \in {-1, 0, 1}, b = a + j * e, a = b + i * e
  PROVE  e = 0
  <1>1. CASE e = 1
    BY <1>1
  <1>2. CASE e = -1
    BY <1>2
  <1> QED
    BY <1>1, <1>2

\* and both coordinates.
LEMMA Strides ==
  ASSUME NEW k \in Int, NEW u \in {-1, 0, 1}, NEW v \in {-1, 0, 1}
  PROVE  k * (8 * v + u) = 8 * (k * v) + k * u /\ k * v \in Int /\ k * u \in Int
  <1>1. CASE u = 0
    BY <1>1
  <1>2. CASE u = 1
    BY <1>2
  <1>3. CASE u = -1
    BY <1>3
  <1> QED
    BY <1>1, <1>2, <1>3

\* What is between the ends of a ray's first j squares.
LEMMA RayBetween ==
  ASSUME NEW p \in Squares, NEW d \in Diagonals \union Straights, NEW q \in Squares,
         NEW j \in 1 .. 7, Column(q) = Column(p) + j * d[1], Row(q) = Row(p) + j * d[2]
  PROVE  /\ p # q
         /\ dCol(p, q) = IF d[1] = 0 THEN 0 ELSE j
         /\ dRow(p, q) = IF d[2] = 0 THEN 0 ELSE j
         /\ IsAlong(Column(p), Column(q), j, d[1]) /\ IsAlong(Row(p), Row(q), j, d[2])
         /\ Between(p, q) = {p + k * (8 * d[2] + d[1]) : k \in 1 .. j - 1}
  <1>1. /\ Column(p) \in 0 .. 7 /\ Row(p) \in 0 .. 7 /\ Column(q) \in 0 .. 7 /\ Row(q) \in 0 .. 7
    BY SquareFacts
  <1>2. d[1] \in {-1, 0, 1} /\ d[2] \in {-1, 0, 1} /\ (d[1] # 0 \/ d[2] # 0)
    BY DEF Diagonals, Straights
  <1>3. IsAlong(Column(p), Column(q), j, d[1]) /\ IsAlong(Row(p), Row(q), j, d[2])
    BY <1>1, <1>2, Along, Zenon
  <1>4. /\ dCol(p, q) = IF d[1] = 0 THEN 0 ELSE j
        /\ dRow(p, q) = IF d[2] = 0 THEN 0 ELSE j
        /\ Sign(Column(q) - Column(p)) = d[1]
        /\ Sign(Row(q) - Row(p)) = d[2]
    BY <1>3 DEF IsAlong, dCol, dRow
  <1>5. p # q
    <2>1. dCol(p, q) # 0 \/ dRow(p, q) # 0
      BY <1>2, <1>4
    <2> QED
      BY <1>1, <2>1 DEF dCol, dRow, Dist
  <1>6. Between(p, q) = {p + k * (8 * d[2] + d[1]) : k \in 1 .. j - 1}
    BY <1>2, <1>4 DEF Between
  <1> QED
    BY <1>3, <1>4, <1>5, <1>6

\* Where a ray leads: on its line, over the squares in between.
LEMMA OnRay ==
  ASSUME NEW p \in Squares, NEW d \in Diagonals \union Straights, NEW q \in Rays[p][d]
  PROVE  /\ q \in Squares
         /\ d \in Straights => OnStraight(p, q)
         /\ d \in Diagonals => OnDiagonal(p, q)
         /\ \A x \in Between(p, q) : x \in Rays[p][d] /\ q \in Rays[x][d]
  <1>1. q \in Squares
    BY DEF Rays
  <1>2. PICK j \in 1 .. 7 : /\ Column(q) = Column(p) + j * d[1]
                            /\ Row(q) = Row(p) + j * d[2]
    BY DEF Rays
  <1>3. /\ Column(p) \in 0 .. 7 /\ Row(p) \in 0 .. 7 /\ p = 8 * Row(p) + Column(p)
    BY SquareFacts
  <1>4. /\ d[1] \in {-1, 0, 1} /\ d[2] \in {-1, 0, 1}
        /\ d \in Straights => (d[1] = 0 /\ d[2] # 0) \/ (d[1] # 0 /\ d[2] = 0)
        /\ d \in Diagonals => d[1] # 0 /\ d[2] # 0
    BY DEF Diagonals, Straights
  <1>5. /\ p # q
        /\ dCol(p, q) = IF d[1] = 0 THEN 0 ELSE j
        /\ dRow(p, q) = IF d[2] = 0 THEN 0 ELSE j
        /\ IsAlong(Column(p), Column(q), j, d[1]) /\ IsAlong(Row(p), Row(q), j, d[2])
        /\ Between(p, q) = {p + k * (8 * d[2] + d[1]) : k \in 1 .. j - 1}
    BY <1>1, <1>2, RayBetween
  <1>6. (d \in Straights => OnStraight(p, q)) /\ (d \in Diagonals => OnDiagonal(p, q))
    BY <1>4, <1>5 DEF OnStraight, OnDiagonal
  <1>7. ASSUME NEW k \in 1 .. j - 1, NEW x, x = p + k * (8 * d[2] + d[1])
        PROVE  x \in Rays[p][d] /\ q \in Rays[x][d]
    <2> DEFINE c == Column(p) + k * d[1]
               r == Row(p) + k * d[2]
    <2>1. /\ c \in 0 .. 7 /\ r \in 0 .. 7 /\ x = 8 * r + c
          /\ Column(q) = c + (j - k) * d[1] /\ Row(q) = r + (j - k) * d[2]
      <3>1. c \in 0 .. 7 /\ Column(q) = c + (j - k) * d[1]
        BY <1>5, <1>7 DEF IsAlong
      <3>2. r \in 0 .. 7 /\ Row(q) = r + (j - k) * d[2]
        BY <1>5, <1>7 DEF IsAlong
      <3>3. /\ k * (8 * d[2] + d[1]) = 8 * (k * d[2]) + k * d[1]
            /\ k * d[1] \in Int /\ k * d[2] \in Int
        <4>1. k \in Int
          OBVIOUS
        <4> QED
          BY <1>4, <4>1, Strides, Zenon
      <3>4. x = 8 * r + c
        BY <1>3, <1>7, <3>3
      <3> QED
        BY <3>1, <3>2, <3>4
    <2>2. x \in Squares /\ Row(x) = r /\ Column(x) = c
      <3> HIDE DEF c, r
      <3> QED
        BY <2>1, RowColumn
    <2>3. k \in 1 .. 7 /\ j - k \in 1 .. 7
      BY <1>7
    <2>4. x \in Rays[p][d]
      BY <2>2, <2>3 DEF Rays
    <2>5. q \in Rays[x][d]
      BY <1>1, <2>1, <2>2, <2>3 DEF Rays
    <2> QED
      BY <2>4, <2>5
  <1> QED
    BY <1>1, <1>5, <1>6, <1>7

\* A ray goes one way and does not return.
LEMMA RayOrder ==
  ASSUME NEW d \in Diagonals \union Straights, NEW p \in Squares, NEW q \in Squares,
         NEW x \in Squares, q \in Rays[p][d]
  PROVE  /\ q # p
         /\ p \notin Rays[q][d]
         /\ x \in Rays[q][d] => x \in Rays[p][d]
  <1>1. PICK j \in 1 .. 7 : /\ Column(q) = Column(p) + j * d[1]
                            /\ Row(q) = Row(p) + j * d[2]
    BY DEF Rays
  <1>2. /\ Column(p) \in 0 .. 7 /\ Row(p) \in 0 .. 7 /\ Column(q) \in 0 .. 7 /\ Row(q) \in 0 .. 7
        /\ Column(x) \in 0 .. 7 /\ Row(x) \in 0 .. 7
    BY SquareFacts
  <1>3. d[1] \in {-1, 0, 1} /\ d[2] \in {-1, 0, 1} /\ (d[1] # 0 \/ d[2] # 0)
    BY DEF Diagonals, Straights
  <1>4. q # p
    <2>1. IsAlong(Column(p), Column(q), j, d[1]) /\ IsAlong(Row(p), Row(q), j, d[2])
      BY <1>1, <1>2, <1>3, Along, Zenon
    <2> QED
      BY <1>2, <1>3, <2>1 DEF IsAlong, Dist
  <1>5. ASSUME NEW i \in 1 .. 7, Column(p) = Column(q) + i * d[1], Row(p) = Row(q) + i * d[2]
        PROVE  FALSE
    <2>1. d[1] = 0
      <3>1. PICK a \in 0 .. 7, b \in 0 .. 7, e \in {-1, 0, 1} :
              a = Column(p) /\ b = Column(q) /\ e = d[1]
        BY <1>2, <1>3
      <3>2. b = a + j * e /\ a = b + i * e
        BY <1>1, <1>5, <3>1
      <3> QED
        BY <3>1, <3>2, Returning
    <2>2. d[2] = 0
      <3>1. PICK a \in 0 .. 7, b \in 0 .. 7, e \in {-1, 0, 1} :
              a = Row(p) /\ b = Row(q) /\ e = d[2]
        BY <1>2, <1>3
      <3>2. b = a + j * e /\ a = b + i * e
        BY <1>1, <1>5, <3>1
      <3> QED
        BY <3>1, <3>2, Returning
    <2> QED
      BY <1>3, <2>1, <2>2
  <1>6. ASSUME NEW i \in 1 .. 7, Column(x) = Column(q) + i * d[1], Row(x) = Row(q) + i * d[2]
        PROVE  x \in Rays[p][d]
    <2>1. IsOnward(Column(p), Column(x), i + j, d[1]) /\ IsOnward(Row(p), Row(x), i + j, d[2])
      <3>1. IsOnward(Column(p), Column(x), i + j, d[1])
        BY <1>1, <1>2, <1>3, <1>6, Onward, Zenon
      <3>2. IsOnward(Row(p), Row(x), i + j, d[2])
        BY <1>1, <1>2, <1>3, <1>6, Onward, Zenon
      <3> QED
        BY <3>1, <3>2
    <2>2. /\ i + j \in 1 .. 7
          /\ Column(x) = Column(p) + (i + j) * d[1] /\ Row(x) = Row(p) + (i + j) * d[2]
      BY <1>3, <2>1 DEF IsOnward
    <2> QED
      BY <2>2 DEF Rays
  <1>7. p \notin Rays[q][d]
    BY <1>5 DEF Rays
  <1>8. x \in Rays[q][d] => x \in Rays[p][d]
    BY <1>6 DEF Rays
  <1> QED
    BY <1>4, <1>7, <1>8

\* A ray of moves never jumps.
LEMMA RayIsClear ==
  ASSUME NEW bb \in Boards, NEW p \in Squares, NEW side \in Sides,
         NEW d \in Diagonals \union Straights, NEW q \in calc_ray(bb, p, side, FALSE, d)
  PROVE  q \in Rays[p][d] /\ Between(p, q) \intersect All(bb) = {}
  <1> DEFINE b == Blocking(bb, p, d)
  <1>1. CASE Rays[p][d] \intersect All(bb) = {}
    <2>1. q \in Rays[p][d]
      BY <1>1 DEF calc_ray
    <2> QED
      BY <1>1, <2>1, OnRay
  <1>2. CASE Rays[p][d] \intersect All(bb) # {}
    <2>1. /\ b \in Rays[p][d]
          /\ \A x \in Rays[p][d] \intersect All(bb) : x = b \/ x \in Rays[b][d]
      BY <1>2, BlockingIsNearest
    <2>2. q = b \/ q \in Rays[p][d] \ Rays[b][d]
      BY <1>2 DEF calc_ray, Blocking
    <2> HIDE DEF b
    <2>3. q \in Rays[p][d] /\ b \in Squares
      BY <2>1, <2>2, OnRay
    <2>4. ASSUME NEW x \in Between(p, q), x \in All(bb)
          PROVE  FALSE
      <3>1. x \in Rays[p][d] /\ q \in Rays[x][d] /\ x \in Squares /\ q \in Squares
        BY <2>3, OnRay
      <3>2. x = b \/ x \in Rays[b][d]
        BY <2>1, <2>4, <3>1
      <3>3. q # x /\ x \notin Rays[q][d]
        BY <3>1, RayOrder
      <3>4. q \in Rays[b][d]
        BY <2>3, <3>1, <3>2, RayOrder
      <3>5. q = b
        BY <2>2, <3>4
      <3> QED
        BY <3>2, <3>3, <3>5
    <2> QED
      BY <2>3, <2>4
  <1> QED
    BY <1>1, <1>2

\* What a ray passes on its way is in between.
LEMMA PassedIsBetween ==
  ASSUME NEW p \in Squares, NEW d \in Diagonals \union Straights,
         NEW q \in Rays[p][d], NEW b \in Rays[p][d], q \in Rays[b][d]
  PROVE  b \in Between(p, q)
  <1>1. b \in Squares /\ q \in Squares
    BY DEF Rays
  <1>2. PICK i \in 1 .. 7 : /\ Column(b) = Column(p) + i * d[1]
                            /\ Row(b) = Row(p) + i * d[2]
    BY DEF Rays
  <1>3. PICK j \in 1 .. 7 : /\ Column(q) = Column(p) + j * d[1]
                            /\ Row(q) = Row(p) + j * d[2]
    BY DEF Rays
  <1>4. PICK n \in 1 .. 7 : /\ Column(q) = Column(b) + n * d[1]
                            /\ Row(q) = Row(b) + n * d[2]
    BY <1>1 DEF Rays
  <1>5. /\ Column(p) \in Int /\ Row(p) \in Int
        /\ p = 8 * Row(p) + Column(p) /\ b = 8 * Row(b) + Column(b)
    BY <1>1, SquareFacts
  <1>6. d[1] \in {-1, 0, 1} /\ d[2] \in {-1, 0, 1} /\ (d[1] # 0 \/ d[2] # 0)
    BY DEF Diagonals, Straights
  <1>7. i \in 1 .. j - 1
    <2>1. CASE d[1] = 1
      BY <1>2, <1>3, <1>4, <1>5, <2>1
    <2>2. CASE d[1] = -1
      BY <1>2, <1>3, <1>4, <1>5, <2>2
    <2>3. CASE d[2] = 1
      BY <1>2, <1>3, <1>4, <1>5, <2>3
    <2>4. CASE d[2] = -1
      BY <1>2, <1>3, <1>4, <1>5, <2>4
    <2> QED
      BY <1>6, <2>1, <2>2, <2>3, <2>4
  <1>8. b = p + i * (8 * d[2] + d[1])
    <2>1. /\ i * (8 * d[2] + d[1]) = 8 * (i * d[2]) + i * d[1]
          /\ i * d[1] \in Int /\ i * d[2] \in Int
      <3>1. i \in Int
        OBVIOUS
      <3> QED
        BY <1>6, <3>1, Strides, Zenon
    <2> QED
      BY <1>2, <1>5, <2>1
  <1> QED
    BY <1>1, <1>3, <1>7, <1>8, RayBetween

\* Every square on a line with p is on one of its rays.
LEMMA LineIsRay ==
  ASSUME NEW p \in Squares, NEW q \in Squares
  PROVE  /\ OnStraight(p, q) => \E d \in Straights : q \in Rays[p][d]
         /\ OnDiagonal(p, q) => \E d \in Diagonals : q \in Rays[p][d]
  <1>1. /\ Column(p) \in 0 .. 7 /\ Row(p) \in 0 .. 7 /\ p = 8 * Row(p) + Column(p)
        /\ Column(q) \in 0 .. 7 /\ Row(q) \in 0 .. 7 /\ q = 8 * Row(q) + Column(q)
    BY SquareFacts
  <1>2. ASSUME NEW d \in Diagonals \union Straights, NEW n \in 1 .. 7,
               Column(q) = Column(p) + n * d[1], Row(q) = Row(p) + n * d[2]
        PROVE  q \in Rays[p][d]
    BY <1>2 DEF Rays
  <1>3. ASSUME OnStraight(p, q)
        PROVE  \E d \in Straights : q \in Rays[p][d]
    <2>1. CASE Column(q) = Column(p) /\ Row(q) > Row(p)
      <3>1. /\ Row(q) - Row(p) \in 1 .. 7 /\ <<0, 1>> \in Straights
            /\ Column(q) = Column(p) + (Row(q) - Row(p)) * <<0, 1>>[1]
            /\ Row(q) = Row(p) + (Row(q) - Row(p)) * <<0, 1>>[2]
        BY <1>1, <2>1 DEF Straights
      <3> QED BY <1>2, <3>1
    <2>2. CASE Column(q) = Column(p) /\ Row(q) < Row(p)
      <3>1. /\ Row(p) - Row(q) \in 1 .. 7 /\ <<0, -1>> \in Straights
            /\ Column(q) = Column(p) + (Row(p) - Row(q)) * <<0, -1>>[1]
            /\ Row(q) = Row(p) + (Row(p) - Row(q)) * <<0, -1>>[2]
        BY <1>1, <2>2 DEF Straights
      <3> QED BY <1>2, <3>1
    <2>3. CASE Row(q) = Row(p) /\ Column(q) > Column(p)
      <3>1. /\ Column(q) - Column(p) \in 1 .. 7 /\ <<1, 0>> \in Straights
            /\ Column(q) = Column(p) + (Column(q) - Column(p)) * <<1, 0>>[1]
            /\ Row(q) = Row(p) + (Column(q) - Column(p)) * <<1, 0>>[2]
        BY <1>1, <2>3 DEF Straights
      <3> QED BY <1>2, <3>1
    <2>4. CASE Row(q) = Row(p) /\ Column(q) < Column(p)
      <3>1. /\ Column(p) - Column(q) \in 1 .. 7 /\ <<-1, 0>> \in Straights
            /\ Column(q) = Column(p) + (Column(p) - Column(q)) * <<-1, 0>>[1]
            /\ Row(q) = Row(p) + (Column(p) - Column(q)) * <<-1, 0>>[2]
        BY <1>1, <2>4 DEF Straights
      <3> QED BY <1>2, <3>1
    <2> QED
      BY <1>1, <1>3, <2>1, <2>2, <2>3, <2>4 DEF OnStraight, dCol, dRow, Dist
  <1>4. ASSUME OnDiagonal(p, q)
        PROVE  \E d \in Diagonals : q \in Rays[p][d]
    <2>1. CASE Column(q) > Column(p) /\ Row(q) - Row(p) = Column(q) - Column(p)
      <3>1. /\ Column(q) - Column(p) \in 1 .. 7 /\ <<1, 1>> \in Diagonals
            /\ Column(q) = Column(p) + (Column(q) - Column(p)) * <<1, 1>>[1]
            /\ Row(q) = Row(p) + (Column(q) - Column(p)) * <<1, 1>>[2]
        BY <1>1, <2>1 DEF Diagonals
      <3> QED BY <1>2, <3>1
    <2>2. CASE Column(q) > Column(p) /\ Row(p) - Row(q) = Column(q) - Column(p)
      <3>1. /\ Column(q) - Column(p) \in 1 .. 7 /\ <<1, -1>> \in Diagonals
            /\ Column(q) = Column(p) + (Column(q) - Column(p)) * <<1, -1>>[1]
            /\ Row(q) = Row(p) + (Column(q) - Column(p)) * <<1, -1>>[2]
        BY <1>1, <2>2 DEF Diagonals
      <3> QED BY <1>2, <3>1
    <2>3. CASE Column(q) < Column(p) /\ Row(q) - Row(p) = Column(p) - Column(q)
      <3>1. /\ Column(p) - Column(q) \in 1 .. 7 /\ <<-1, 1>> \in Diagonals
            /\ Column(q) = Column(p) + (Column(p) - Column(q)) * <<-1, 1>>[1]
            /\ Row(q) = Row(p) + (Column(p) - Column(q)) * <<-1, 1>>[2]
        BY <1>1, <2>3 DEF Diagonals
      <3> QED BY <1>2, <3>1
    <2>4. CASE Column(q) < Column(p) /\ Row(p) - Row(q) = Column(p) - Column(q)
      <3>1. /\ Column(p) - Column(q) \in 1 .. 7 /\ <<-1, -1>> \in Diagonals
            /\ Column(q) = Column(p) + (Column(p) - Column(q)) * <<-1, -1>>[1]
            /\ Row(q) = Row(p) + (Column(p) - Column(q)) * <<-1, -1>>[2]
        BY <1>1, <2>4 DEF Diagonals
      <3> QED BY <1>2, <3>1
    <2> QED
      BY <1>1, <1>4, <2>1, <2>2, <2>3, <2>4 DEF OnDiagonal, dCol, dRow, Dist
  <1> QED
    BY <1>3, <1>4

\* A ray of moves holds every square it leads to over clear squares, own men's apart.
LEMMA ClearIsOnRay ==
  ASSUME NEW bb \in Boards, NEW p \in Squares, NEW side \in Sides,
         NEW d \in Diagonals \union Straights, NEW q \in Rays[p][d],
         Between(p, q) \intersect All(bb) = {}, q \notin SideBoard(bb, side)
  PROVE  q \in calc_ray(bb, p, side, FALSE, d)
  <1> DEFINE b == Blocking(bb, p, d)
  <1>1. CASE Rays[p][d] \intersect All(bb) = {}
    BY <1>1 DEF calc_ray
  <1>2. CASE Rays[p][d] \intersect All(bb) # {}
    <2>1. b \in Rays[p][d] /\ b \in All(bb)
      BY <1>2, BlockingIsNearest
    <2>2. calc_ray(bb, p, side, FALSE, d) =
            IF b \in SideBoard(bb, inverse(side)) THEN (Rays[p][d] \ Rays[b][d]) \union {b}
            ELSE (Rays[p][d] \ Rays[b][d]) \ {b}
      BY <1>2 DEF calc_ray, Blocking
    <2> HIDE DEF b
    <2>3. q \notin Rays[b][d]
      BY <2>1, PassedIsBetween
    <2>4. b \notin SideBoard(bb, inverse(side)) => q # b
      BY <2>1, BoardFacts
    <2> QED
      BY <2>2, <2>3, <2>4
  <1> QED
    BY <1>1, <1>2

\* A ray of moves never ends on an own man.
LEMMA RayLands ==
  ASSUME NEW bb \in Boards, Apart(bb), NEW p \in Squares, NEW side \in Sides,
         NEW d \in Diagonals \union Straights
  PROVE  calc_ray(bb, p, side, FALSE, d) \subseteq Squares \ SideBoard(bb, side)
  <1>1. Rays[p][d] \subseteq Squares
    BY DEF Rays
  <1>2. SideBoard(bb, side) \subseteq All(bb)
    BY BoardFacts
  <1>3. CASE Rays[p][d] \intersect All(bb) = {}
    BY <1>1, <1>2, <1>3 DEF calc_ray
  <1>4. CASE Rays[p][d] \intersect All(bb) # {}
    <2> DEFINE b == Blocking(bb, p, d)
    <2>1. /\ b \in Rays[p][d]
          /\ \A q \in Rays[p][d] \intersect All(bb) : q = b \/ q \in Rays[b][d]
      BY <1>4, BlockingIsNearest
    <2>2. calc_ray(bb, p, side, FALSE, d) =
            IF b \in SideBoard(bb, inverse(side)) THEN (Rays[p][d] \ Rays[b][d]) \union {b}
            ELSE (Rays[p][d] \ Rays[b][d]) \ {b}
      BY <1>4 DEF calc_ray, Blocking
    <2>3. b \in SideBoard(bb, inverse(side)) => b \notin SideBoard(bb, side)
      BY SidesApart
    <2> HIDE DEF b
    <2>4. Rays[p][d] \ Rays[b][d] \subseteq Squares \ (SideBoard(bb, side) \ {b})
      BY <1>1, <1>2, <2>1
    <2>5. CASE b \in SideBoard(bb, inverse(side))
      <3>1. b \in Squares /\ b \notin SideBoard(bb, side)
        BY <1>1, <2>1, <2>3, <2>5
      <3>2. calc_ray(bb, p, side, FALSE, d) = (Rays[p][d] \ Rays[b][d]) \union {b}
        BY <2>2, <2>5
      <3> QED
        BY <2>4, <3>1, <3>2
    <2>6. CASE b \notin SideBoard(bb, inverse(side))
      BY <2>2, <2>4, <2>6
    <2> QED
      BY <2>5, <2>6
  <1> QED
    BY <1>3, <1>4

-----------------------------------------------------------------------------
(* What an attack depends on: never on a bishop, a rook or a queen.        *)

\* A ray that is_square_attacked asks for ends on a man of the attacked side, so
\* it never meets a bishop, rook or queen of the attacker.
LEMMA RayAsksForTheOthers ==
  ASSUME NEW bb, NEW p, NEW by_side, NEW d
  PROVE  calc_ray(bb, p, by_side, TRUE, d) \subseteq SideBoard(bb, inverse(by_side))
  BY DEF calc_ray

LEMMA MaskAsksForTheOthers ==
  ASSUME NEW bb, NEW p, NEW by_side, NEW directions
  PROVE  RayMask(bb, p, by_side, TRUE, directions) \subseteq SideBoard(bb, inverse(by_side))
  BY RayAsksForTheOthers DEF RayMask

\* An attack by a pawn, a knight or the king.
SteppersAttack(bb, p, by_side) ==
  \/ PawnAttacks(bb, p, by_side)
  \/ KnightMasks[p] \intersect bb[by_side]["knight"] # {}
  \/ KingMasks[p] \intersect bb[by_side]["king"] # {}

\* is_square_attacked sees no attack by a bishop, a rook or a queen.
LEMMA OnlySteppersAttack ==
  ASSUME NEW bb \in Boards, Apart(bb), NEW p, NEW by_side \in Sides
  PROVE  is_square_attacked(bb, p, by_side) <=> SteppersAttack(bb, p, by_side)
  <1>1. "bishop" \in Types /\ "rook" \in Types /\ "queen" \in Types
    BY DEF Types
  <1>2. \A t \in Types : bb[by_side][t] \intersect SideBoard(bb, inverse(by_side)) = {}
    BY BoardFacts, SidesApart
  <1>3. \A directions :
          RayMask(bb, p, by_side, TRUE, directions) \subseteq SideBoard(bb, inverse(by_side))
    BY MaskAsksForTheOthers
  <1>4. /\ RayMask(bb, p, by_side, TRUE, Diagonals)
             \intersect (bb[by_side]["bishop"] \union bb[by_side]["queen"]) = {}
        /\ RayMask(bb, p, by_side, TRUE, Straights)
             \intersect (bb[by_side]["rook"] \union bb[by_side]["queen"]) = {}
    BY <1>1, <1>2, <1>3
  <1> QED
    BY <1>4 DEF is_square_attacked, SteppersAttack

\* Two boards on which the attacker's pawns, knights and king stand alike have
\* the same attacks.
LEMMA SameAttacks ==
  ASSUME NEW b1 \in Boards, Apart(b1), NEW b2 \in Boards, Apart(b2), NEW by_side \in Sides,
         \A t \in {"pawn", "knight", "king"} : b1[by_side][t] = b2[by_side][t]
  PROVE  \A p : is_square_attacked(b1, p, by_side) <=> is_square_attacked(b2, p, by_side)
  <1> TAKE p
  <1>1. PawnAttacks(b1, p, by_side) <=> PawnAttacks(b2, p, by_side)
    BY DEF PawnAttacks, Sides
  <1>2. SteppersAttack(b1, p, by_side) <=> SteppersAttack(b2, p, by_side)
    BY <1>1 DEF SteppersAttack
  <1> QED
    BY <1>2, OnlySteppersAttack

-----------------------------------------------------------------------------
(* What the generator makes.                                               *)

\* Pieces[p] names the man on p, or 255 (none) where there is none of this side.
LEMMA TypeAtFacts ==
  ASSUME NEW bb, NEW side, NEW p
  PROVE  /\ p \in SideBoard(bb, side) =>
              TypeAt(bb, side, p) \in Types /\ p \in bb[side][TypeAt(bb, side, p)]
         /\ p \notin SideBoard(bb, side) => TypeAt(bb, side, p) = "none"
  <1>1. p \in SideBoard(bb, side) <=> \E t \in Types : p \in bb[side][t]
    BY DEF SideBoard
  <1> QED
    BY <1>1 DEF TypeAt

Up(side) == IF side = "white" THEN 8 ELSE -8

\* The en passant square lies behind the pawn the other side has just moved.
EpOK(ep, side) ==
  \/ ep = NoSquare
  \/ ep \in Squares /\ Row(ep) = IF side = "white" THEN 5 ELSE 2

\* A move of one man from its square to one that no own man stands on, taking
\* what stands there.
Step(bb, side, m) ==
  /\ m = Move(m.from, m.to, m.type, side, m.captured, m.flag)
  /\ m.type \in Types
  /\ m.from \in bb[side][m.type]
  /\ m.to \in Squares \ SideBoard(bb, side)
  /\ m.captured = TypeAt(bb, inverse(side), m.to)

\* A pawn goes straight ahead, one row or two,
LEMMA PawnAhead ==
  ASSUME NEW side \in Sides, NEW p \in Squares, NEW q \in Squares, NEW n \in 1 .. 2,
         q = p + n * Up(side)
  PROVE  /\ Column(q) = Column(p)
         /\ (Row(q) - Row(p)) * Forward(side) = n
         /\ Between(p, q) = IF n = 1 THEN {} ELSE {p + Up(side)}
  <1>1. /\ p \in Int /\ Column(p) \in 0 .. 7 /\ Row(p) \in 0 .. 7 /\ p = 8 * Row(p) + Column(p)
        /\ Column(q) \in 0 .. 7 /\ Row(q) \in 0 .. 7 /\ q = 8 * Row(q) + Column(q)
    BY SquareFacts
  <1>2. Up(side) = 8 * Forward(side) /\ Forward(side) \in {1, -1}
    BY DEF Up, Forward
  <1>3. Column(q) = Column(p) /\ Row(q) = Row(p) + n * Forward(side)
    <2>1. q = p + n * 8 * Forward(side)
      <3>1. CASE n = 1
        BY <1>1, <1>2, <3>1
      <3>2. CASE n = 2
        BY <1>1, <1>2, <3>2
      <3> QED
        BY <3>1, <3>2
    <2>2. CASE Forward(side) = 1
      BY <1>1, <2>1, <2>2
    <2>3. CASE Forward(side) = -1
      BY <1>1, <2>1, <2>3
    <2> QED
      BY <1>2, <2>2, <2>3
  <1>4. (Row(q) - Row(p)) * Forward(side) = n
    <2>1. CASE Forward(side) = 1
      BY <1>1, <1>3, <2>1
    <2>2. CASE Forward(side) = -1
      BY <1>1, <1>3, <2>2
    <2> QED
      BY <1>2, <2>1, <2>2
  <1>5. /\ dCol(p, q) = 0 /\ dRow(p, q) = n /\ Sign(Column(q) - Column(p)) = 0
        /\ Sign(Row(q) - Row(p)) = Forward(side)
    <2>1. CASE Forward(side) = 1
      BY <1>1, <1>3, <2>1 DEF dCol, dRow, Dist, Sign
    <2>2. CASE Forward(side) = -1
      BY <1>1, <1>3, <2>2 DEF dCol, dRow, Dist, Sign
    <2> QED
      BY <1>2, <2>1, <2>2
  <1>6. Between(p, q) = {p + k * (8 * Forward(side) + 0) : k \in 1 .. n - 1}
    BY <1>5 DEF Between
  <1>7. Between(p, q) = IF n = 1 THEN {} ELSE {p + Up(side)}
    <2>1. CASE n = 1
      BY <1>6, <2>1
    <2>2. CASE n = 2
      <3>1. 1 .. n - 1 = {1}
        BY <2>2
      <3>2. p + 1 * (8 * Forward(side) + 0) = p + Up(side)
        BY <1>1, <1>2
      <3> QED
        BY <1>6, <2>2, <3>1, <3>2
    <2> QED
      BY <2>1, <2>2
  <1> QED
    BY <1>3, <1>4, <1>7

\* and takes on the two squares beside the one ahead, but not around the edge.
LEMMA PawnBeside ==
  ASSUME NEW side \in Sides, NEW p \in Squares, NEW q \in Squares,
         \/ q = p + Up(side) - 1 /\ Column(q) # 7
         \/ q = p + Up(side) + 1 /\ Column(q) # 0
  PROVE  dCol(p, q) = 1 /\ Row(q) = Row(p) + Forward(side)
  <1>1. /\ p \in Int /\ Column(p) \in 0 .. 7 /\ Row(p) \in 0 .. 7 /\ p = 8 * Row(p) + Column(p)
        /\ Column(q) \in 0 .. 7 /\ Row(q) \in 0 .. 7 /\ q = 8 * Row(q) + Column(q)
    BY SquareFacts
  <1>2. CASE side = "white"
    BY <1>1, <1>2 DEF Up, Forward, dCol, Dist
  <1>3. CASE side = "black"
    BY <1>1, <1>3 DEF Up, Forward, dCol, Dist
  <1> QED
    BY <1>2, <1>3 DEF Sides

LEMMA PawnReaches ==
  ASSUME NEW bb \in Boards, NEW side \in Sides, NEW p \in Squares, NEW q \in Squares,
         q \notin SideBoard(bb, side),
         \/ q = p + Up(side) /\ q \notin All(bb)
         \/ /\ q = p + 2 * Up(side) /\ q \notin All(bb) /\ p + Up(side) \notin All(bb)
            /\ p + Up(side) \in Squares /\ Row(p + Up(side)) = IF side = "white" THEN 2 ELSE 5
         \/ /\ (q = p + Up(side) - 1 /\ Column(q) # 7) \/ (q = p + Up(side) + 1 /\ Column(q) # 0)
            /\ q \in SideBoard(bb, inverse(side))
  PROVE  Reaches(bb, side, "pawn", p, q)
  <1>1. Up(side) \in Int /\ p \in Int
    BY DEF Up, Squares
  <1>2. CASE q = p + Up(side) /\ q \notin All(bb)
    <2>1. q = p + 1 * Up(side)
      BY <1>1, <1>2
    <2>2. /\ Column(q) = Column(p) /\ (Row(q) - Row(p)) * Forward(side) = 1
          /\ Between(p, q) = {}
      BY <2>1, PawnAhead
    <2> QED
      BY <1>2, <2>2 DEF Reaches
  <1>3. CASE /\ q = p + 2 * Up(side) /\ q \notin All(bb) /\ p + Up(side) \notin All(bb)
             /\ p + Up(side) \in Squares /\ Row(p + Up(side)) = IF side = "white" THEN 2 ELSE 5
    <2>1. /\ Column(q) = Column(p) /\ (Row(q) - Row(p)) * Forward(side) = 2
          /\ Between(p, q) = {p + Up(side)}
      BY <1>3, PawnAhead
    <2>2. PICK r \in Squares : r = p + Up(side)
      BY <1>3
    <2>3. r = p + 1 * Up(side)
      BY <1>1, <2>2
    <2>4. (Row(r) - Row(p)) * Forward(side) = 1
      BY <2>3, PawnAhead
    <2>5. Row(p) = IF side = "white" THEN 1 ELSE 6
      <3>1. Row(p) \in Int /\ Row(r) = IF side = "white" THEN 2 ELSE 5
        BY <1>3, <2>2, SquareFacts
      <3> QED
        BY <2>4, <3>1 DEF Forward
    <2> QED
      BY <1>3, <2>1, <2>5 DEF Reaches
  <1>4. CASE /\ (q = p + Up(side) - 1 /\ Column(q) # 7) \/ (q = p + Up(side) + 1 /\ Column(q) # 0)
             /\ q \in SideBoard(bb, inverse(side))
    <2>1. dCol(p, q) = 1 /\ Row(q) = Row(p) + Forward(side)
      BY <1>4, PawnBeside
    <2>2. Attacks(bb, side, "pawn", p, q)
      BY <2>1, Zenon DEF Attacks
    <2>3. Column(p) # Column(q)
      <3>1. Column(p) \in Int /\ Column(q) \in Int
        BY SquareFacts
      <3> QED
        BY <2>1, <3>1 DEF dCol, Dist
    <2> QED
      BY <1>4, <2>2, <2>3 DEF Reaches
  <1> QED
    BY <1>2, <1>3, <1>4

\* A pawn's move before promotion: only the long one is flagged.
PawnStep(bb, side, m) ==
  /\ Step(bb, side, m)
  /\ Reaches(bb, side, m.type, m.from, m.to)
  /\ m.type = "pawn"
  /\ m.flag = IF m.to = m.from + 2 * Up(side) THEN "long" ELSE "default"
  /\ m.flag = "long" =>
       /\ Row(m.from + Up(side)) = IF side = "white" THEN 2 ELSE 5
       /\ m.from + Up(side) \in Squares

\* Another man's move: the king goes one square far.
PieceStep(bb, side, m) ==
  /\ Step(bb, side, m)
  /\ Reaches(bb, side, m.type, m.from, m.to)
  /\ m.type # "pawn"
  /\ m.flag = "default"
  /\ m.type = "king" => m.to \in KingMasks[m.from]

\* A shifted bitboard: the square each bit came from.
LEMMA ShiftFacts ==
  ASSUME NEW b, NEW n \in Int, b \subseteq Squares
  PROVE  /\ Shift(b, n) \subseteq Squares
         /\ \A p \in Shift(b, n) : p - n \in b
  BY DEF Shift, Squares

\* The en passant branch never fires: it looks for its square on the row that
\* the mover's own pawns pass, and there it never is.
LEMMA NoEnPassant ==
  ASSUME NEW ep, NEW side \in Sides, EpOK(ep, side)
  PROVE  Row(ep) # IF side = "white" THEN 2 ELSE 5
  BY DEF EpOK, NoSquare, Row, Squares, Sides

\* The four ways of PawnMoves: ahead, twice ahead, and the two captures.
LEMMA PawnMovesFacts ==
  ASSUME NEW bb \in Boards, Apart(bb), NEW side \in Sides,
         NEW ep, EpOK(ep, side), NEW m \in PawnMoves(bb, side, ep)
  PROVE  PawnStep(bb, side, m)
  <1> DEFINE pawns == bb[side]["pawn"]
             up == Up(side)
             default == Shift(pawns, up) \intersect Empty(bb)
             third == IF side = "white" THEN 2 ELSE 5
             long == Shift({p \in default : Row(p) = third}, up) \intersect Empty(bb)
             enemy == SideBoard(bb, inverse(side))
             left == {p \in Shift(pawns, up - 1) : Column(p) # 7 /\ p \in enemy}
             right == {p \in Shift(pawns, up + 1) : Column(p) # 0 /\ p \in enemy}
  <1>1. up \in {8, -8} /\ pawns \subseteq Squares /\ "pawn" \in Types
    BY DEF Up, Boards, Types
  <1>2. \/ \E p \in default : m = Move(p - up, p, "pawn", side, "none", "default")
        \/ \E p \in long : m = Move(p - 2 * up, p, "pawn", side, "none", "long")
        \/ \E p \in left : m = Capture(bb, p - up + 1, p, "pawn", side)
        \/ \E p \in right : m = Capture(bb, p - up - 1, p, "pawn", side)
    BY NoEnPassant DEF PawnMoves, Up
  <1>3. \A p \in Empty(bb) : p \in Squares \ SideBoard(bb, side)
                              /\ TypeAt(bb, inverse(side), p) = "none"
    BY BoardFacts, TypeAtFacts DEF Empty
  <1>4. \A p \in enemy : p \in Squares \ SideBoard(bb, side)
    BY BoardFacts, SidesApart, SideFacts
  <1> HIDE DEF pawns, up
  <1>5. \A n \in {up, up - 1, up + 1} : /\ n \in Int
                                        /\ Shift(pawns, n) \subseteq Squares
                                        /\ \A p \in Shift(pawns, n) : p - n \in pawns
    <2> SUFFICES ASSUME NEW n \in Int
                 PROVE  /\ Shift(pawns, n) \subseteq Squares
                        /\ \A p \in Shift(pawns, n) : p - n \in pawns
      BY <1>1
    <2> QED
      BY <1>1, ShiftFacts
  <1>6. CASE \E p \in default : m = Move(p - up, p, "pawn", side, "none", "default")
    <2>1. PICK p \in default : m = Move(p - up, p, "pawn", side, "none", "default")
      BY <1>6
    <2>2. p - up \in pawns /\ p \in Int
      BY <1>5 DEF Squares
    <2>3. p # p - up + 2 * up /\ p = p - up + up
      BY <1>1, <2>2
    <2>4. Reaches(bb, side, "pawn", p - up, p)
      <3>1. p - up \in Squares /\ p \in Squares \ SideBoard(bb, side) /\ p \notin All(bb)
        BY <1>1, <1>3, <2>2 DEF Empty
      <3> QED
        BY <2>3, <3>1, PawnReaches DEF up
    <2> QED
      BY <1>1, <1>3, <2>1, <2>2, <2>3, <2>4 DEF PawnStep, Step, Move, pawns, up
  <1>7. CASE \E p \in long : m = Move(p - 2 * up, p, "pawn", side, "none", "long")
    <2>1. PICK p \in long : m = Move(p - 2 * up, p, "pawn", side, "none", "long")
      BY <1>7
    <2>2. p - up \in {q \in default : Row(q) = third} /\ p \in Int
      BY <1>1, ShiftFacts DEF Squares, Empty
    <2>3. p - up - up \in pawns
      BY <1>1, <2>2, ShiftFacts
    <2>4. p - up - up = p - 2 * up /\ p = p - 2 * up + 2 * up /\ p - 2 * up + up = p - up
      BY <1>1, <2>2
    <2>5. Reaches(bb, side, "pawn", p - 2 * up, p)
      <3>1. /\ p - 2 * up \in Squares /\ p \in Squares \ SideBoard(bb, side)
            /\ p \notin All(bb) /\ p - 2 * up + up \notin All(bb)
            /\ p - 2 * up + up \in Squares /\ Row(p - 2 * up + up) = third
        BY <1>1, <1>3, <2>2, <2>3, <2>4 DEF Empty
      <3> QED
        BY <2>4, <3>1, PawnReaches DEF up
    <2> QED
      BY <1>1, <1>3, <2>1, <2>2, <2>3, <2>4, <2>5 DEF PawnStep, Step, Move, Empty, pawns, up
  <1>8. CASE \E p \in left : m = Capture(bb, p - up + 1, p, "pawn", side)
    <2>1. PICK p \in left : m = Capture(bb, p - up + 1, p, "pawn", side)
      BY <1>8
    <2>2. p - (up - 1) \in pawns /\ p \in Int
      BY <1>5 DEF Squares
    <2>3. p - (up - 1) = p - up + 1 /\ p # p - up + 1 + 2 * up /\ p = p - up + 1 + up - 1
      BY <1>1, <2>2
    <2>4. Reaches(bb, side, "pawn", p - up + 1, p)
      <3>1. /\ p - up + 1 \in Squares /\ p \in Squares \ SideBoard(bb, side)
            /\ Column(p) # 7 /\ p \in SideBoard(bb, inverse(side))
        BY <1>1, <1>4, <2>2, <2>3
      <3> QED
        BY <2>3, <3>1, PawnReaches DEF up
    <2> QED
      BY <1>1, <1>4, <2>1, <2>2, <2>3, <2>4 DEF PawnStep, Step, Move, Capture, pawns, up
  <1>9. CASE \E p \in right : m = Capture(bb, p - up - 1, p, "pawn", side)
    <2>1. PICK p \in right : m = Capture(bb, p - up - 1, p, "pawn", side)
      BY <1>9
    <2>2. p - (up + 1) \in pawns /\ p \in Int
      BY <1>5 DEF Squares
    <2>3. p - (up + 1) = p - up - 1 /\ p # p - up - 1 + 2 * up /\ p = p - up - 1 + up + 1
      BY <1>1, <2>2
    <2>4. Reaches(bb, side, "pawn", p - up - 1, p)
      <3>1. /\ p - up - 1 \in Squares /\ p \in Squares \ SideBoard(bb, side)
            /\ Column(p) # 0 /\ p \in SideBoard(bb, inverse(side))
        BY <1>1, <1>4, <2>2, <2>3
      <3> QED
        BY <2>3, <3>1, PawnReaches DEF up
    <2> QED
      BY <1>1, <1>4, <2>1, <2>2, <2>3, <2>4 DEF PawnStep, Step, Move, Capture, pawns, up
  <1> QED
    BY <1>2, <1>6, <1>7, <1>8, <1>9

\* No mask of another man holds an own man's square.
LEMMA PieceMaskFacts ==
  ASSUME NEW bb \in Boards, Apart(bb), NEW side \in Sides, NEW p \in Squares,
         NEW type \in Types \ {"pawn"}
  PROVE  /\ PieceMask(bb, p, type, side) \subseteq Squares \ SideBoard(bb, side)
         /\ type = "king" => PieceMask(bb, p, type, side) \subseteq KingMasks[p]
  <1>1. \A D \in {Diagonals, Straights, Diagonals \union Straights} :
          RayMask(bb, p, side, FALSE, D) \subseteq Squares \ SideBoard(bb, side)
    <2> SUFFICES ASSUME NEW D, D \subseteq Diagonals \union Straights
                 PROVE  RayMask(bb, p, side, FALSE, D) \subseteq Squares \ SideBoard(bb, side)
      OBVIOUS
    <2>1. \A d \in D : calc_ray(bb, p, side, FALSE, d) \subseteq Squares \ SideBoard(bb, side)
      BY RayLands
    <2> QED
      BY <2>1 DEF RayMask
  <1>2. KnightMasks[p] \subseteq Squares /\ KingMasks[p] \subseteq Squares
    BY DEF KnightMasks, KingMasks
  <1>3. CASE type = "knight"
    BY <1>2, <1>3, Zenon DEF PieceMask
  <1>4. CASE type = "king"
    BY <1>2, <1>4, Zenon DEF PieceMask
  <1>5. CASE type = "bishop"
    BY <1>1, <1>5, Zenon DEF PieceMask
  <1>6. CASE type = "rook"
    BY <1>1, <1>6, Zenon DEF PieceMask
  <1>7. CASE type = "queen"
    BY <1>1, <1>7, Zenon DEF PieceMask
  <1> QED
    BY <1>3, <1>4, <1>5, <1>6, <1>7 DEF Types

\* A mask's square is one the man attacks, over squares that are clear.
LEMMA PieceReaches ==
  ASSUME NEW bb \in Boards, Apart(bb), NEW side \in Sides, NEW p \in Squares,
         NEW type \in Types \ {"pawn"}, NEW q \in PieceMask(bb, p, type, side)
  PROVE  Reaches(bb, side, type, p, q)
  <1>1. q \in Squares \ SideBoard(bb, side)
    BY PieceMaskFacts
  <1>2. /\ Column(p) \in Int /\ Row(p) \in Int /\ Column(q) \in Int /\ Row(q) \in Int
        /\ dCol(p, q) = Dist(Column(q), Column(p)) /\ dRow(p, q) = Dist(Row(q), Row(p))
    BY <1>1, SquareFacts DEF dCol, dRow, Dist
  <1>3. ASSUME NEW D, D \subseteq Diagonals \union Straights,
               q \in RayMask(bb, p, side, FALSE, D)
        PROVE  /\ Between(p, q) \intersect All(bb) = {}
               /\ \/ OnDiagonal(p, q) /\ D # Straights
                  \/ OnStraight(p, q) /\ D # Diagonals
    <2>1. PICK d \in D : q \in calc_ray(bb, p, side, FALSE, d)
      BY <1>3 DEF RayMask
    <2>2. d \in Diagonals \union Straights
      BY <1>3
    <2>3. q \in Rays[p][d] /\ Between(p, q) \intersect All(bb) = {}
      BY <2>1, <2>2, RayIsClear
    <2>4. (d \in Straights => OnStraight(p, q)) /\ (d \in Diagonals => OnDiagonal(p, q))
      BY <2>2, <2>3, OnRay
    <2>5. ~(d \in Straights /\ d \in Diagonals)
      BY DEF Straights, Diagonals
    <2> QED
      BY <2>2, <2>3, <2>4, <2>5
  <1>4. Attacks(bb, side, type, p, q)
    <2>1. CASE type = "knight"
      <3>1. q \in KnightMasks[p]
        BY <2>1, Zenon DEF PieceMask
      <3>2. {dCol(p, q), dRow(p, q)} = {1, 2}
        BY <1>2, <3>1 DEF KnightMasks
      <3> QED
        BY <2>1, <3>2, Zenon DEF Attacks
    <2>2. CASE type = "king"
      <3>1. q \in KingMasks[p]
        BY <2>2, Zenon DEF PieceMask
      <3>2. dCol(p, q) <= 1 /\ dRow(p, q) <= 1 /\ p # q
        BY <1>2, <3>1 DEF KingMasks
      <3> QED
        BY <2>2, <3>2, Zenon DEF Attacks
    <2>3. CASE type = "bishop"
      <3>1. q \in RayMask(bb, p, side, FALSE, Diagonals)
        BY <2>3, Zenon DEF PieceMask
      <3>2. OnDiagonal(p, q) /\ Between(p, q) \intersect All(bb) = {}
        BY <1>3, <3>1
      <3> QED
        BY <2>3, <3>2, Zenon DEF Attacks
    <2>4. CASE type = "rook"
      <3>1. q \in RayMask(bb, p, side, FALSE, Straights)
        BY <2>4, Zenon DEF PieceMask
      <3>2. OnStraight(p, q) /\ Between(p, q) \intersect All(bb) = {}
        BY <1>3, <3>1
      <3> QED
        BY <2>4, <3>2, Zenon DEF Attacks
    <2>5. CASE type = "queen"
      <3>1. q \in RayMask(bb, p, side, FALSE, Diagonals \union Straights)
        BY <2>5, Zenon DEF PieceMask
      <3>2. /\ OnDiagonal(p, q) \/ OnStraight(p, q)
            /\ Between(p, q) \intersect All(bb) = {}
        BY <1>3, <3>1
      <3> QED
        BY <2>5, <3>2, Zenon DEF Attacks
    <2> QED
      BY <2>1, <2>2, <2>3, <2>4, <2>5 DEF Types
  <1> QED
    BY <1>1, <1>4 DEF Reaches

\* The moves of the other men are steps.
LEMMA PieceMovesFacts ==
  ASSUME NEW bb \in Boards, Apart(bb), NEW side \in Sides, NEW m \in PieceMoves(bb, side)
  PROVE  PieceStep(bb, side, m)
  <1>1. PICK type \in Types \ {"pawn"} : \E p \in bb[side][type] :
               m \in {Capture(bb, p, q, type, side) : q \in PieceMask(bb, p, type, side)}
    BY DEF PieceMoves
  <1>2. PICK p \in bb[side][type] :
               m \in {Capture(bb, p, q, type, side) : q \in PieceMask(bb, p, type, side)}
    BY <1>1
  <1>3. PICK q \in PieceMask(bb, p, type, side) : m = Capture(bb, p, q, type, side)
    BY <1>2
  <1>4. p \in Squares
    BY BoardFacts
  <1>5. q \in Squares \ SideBoard(bb, side) /\ (type = "king" => q \in KingMasks[p])
    BY <1>4, PieceMaskFacts
  <1>6. Reaches(bb, side, type, p, q)
    BY <1>4, PieceReaches
  <1> QED
    BY <1>3, <1>5, <1>6 DEF PieceStep, Step, Capture, Move

\* b is bb after the step.
Stepped(bb, b, side, m) ==
  /\ b \in Boards
  /\ \A t \in Types, q \in Squares :
       /\ q \in b[side][t] <=>
            (q \in bb[side][t] /\ ~(t = m.type /\ q = m.from)) \/ (t = m.type /\ q = m.to)
       /\ q \in b[inverse(side)][t] <=> q \in bb[inverse(side)][t] /\ q # m.to

\* A square is one man's at most, and the captured one is named.
LEMMA TakenFacts ==
  ASSUME NEW bb \in Boards, Apart(bb), NEW side \in Sides, NEW m, Step(bb, side, m)
  PROVE  /\ m.side = side /\ m.from \in Squares /\ m.to \in Squares /\ m.from # m.to
         /\ m.captured \in Types \union {"none"}
         /\ \A t \in Types : m.to \notin bb[side][t]
         /\ \A t \in Types : t # m.captured => m.to \notin bb[inverse(side)][t]
  <1>1. m.side = side
    BY DEF Step, Move
  <1>2. m.from \in bb[side][m.type] /\ m.type \in Types /\ m.to \in Squares
    BY DEF Step
  <1>3. m.from \in Squares
    BY <1>2, BoardFacts
  <1>4. \A t \in Types : m.to \notin bb[side][t]
    BY BoardFacts DEF Step
  <1>5. m.captured \in Types \union {"none"}
    BY TypeAtFacts DEF Step
  <1>6. ASSUME NEW t \in Types, t # m.captured, m.to \in bb[inverse(side)][t]
        PROVE  FALSE
    <2>1. m.to \in SideBoard(bb, inverse(side))
      BY <1>6 DEF SideBoard
    <2>2. m.captured \in Types /\ m.to \in bb[inverse(side)][m.captured]
      BY <2>1, TypeAtFacts DEF Step
    <2>3. <<inverse(side), t>> # <<inverse(side), m.captured>>
      BY <1>6
    <2> QED
      BY <1>6, <2>2, <2>3, SideFacts DEF Apart
  <1> QED
    BY <1>1, <1>2, <1>3, <1>4, <1>5, <1>6

\* A step leaves the twelve bitboards apart: what it takes is named.
LEMMA SteppedApart ==
  ASSUME NEW bb \in Boards, Apart(bb), NEW side \in Sides, NEW m, Step(bb, side, m),
         NEW b, Stepped(bb, b, side, m)
  PROVE  Apart(b)
  <1> SUFFICES ASSUME NEW s1 \in Sides, NEW s2 \in Sides, NEW t1 \in Types, NEW t2 \in Types,
                      <<s1, t1>> # <<s2, t2>>, NEW x, x \in b[s1][t1], x \in b[s2][t2]
               PROVE  FALSE
    BY DEF Apart
  <1>1. ~(x \in bb[s1][t1] /\ x \in bb[s2][t2])
    BY DEF Apart
  <1>2. s1 \in {side, inverse(side)} /\ s2 \in {side, inverse(side)} /\ side # inverse(side)
    BY DEF Sides, inverse
  <1>3. m.type \in Types /\ \A t \in Types : m.to \notin bb[side][t]
    BY TakenFacts DEF Step
  <1>4. x \in Squares
    BY DEF Stepped, Boards
  <1>5. \A t \in Types :
          /\ x \in b[side][t] <=>
               (x \in bb[side][t] /\ ~(t = m.type /\ x = m.from)) \/ (t = m.type /\ x = m.to)
          /\ x \in b[inverse(side)][t] <=> x \in bb[inverse(side)][t] /\ x # m.to
    BY <1>4 DEF Stepped
  <1>6. CASE s1 = side /\ s2 = side
    BY <1>1, <1>3, <1>5, <1>6
  <1>7. CASE s1 = side /\ s2 = inverse(side)
    BY <1>1, <1>3, <1>5, <1>7
  <1>8. CASE s1 = inverse(side) /\ s2 = side
    BY <1>1, <1>3, <1>5, <1>8
  <1>9. CASE s1 = inverse(side) /\ s2 = inverse(side)
    BY <1>1, <1>3, <1>5, <1>9
  <1> QED
    BY <1>2, <1>6, <1>7, <1>8, <1>9

\* The board that the legality of a step is judged by is the board after it.
LEMMA LegalFacts ==
  ASSUME NEW bb \in Boards, Apart(bb), NEW side \in Sides, NEW m, Step(bb, side, m),
         m.flag # "en_passant"
  PROVE  \E b : /\ Stepped(bb, b, side, m)
                /\ is_legal_after_move(bb, m) <=>
                     ~is_square_attacked(b, bsf(b[side]["king"]), inverse(side))
  <1> DEFINE cleared == Clear(bb, side, m.type, m.from)
             moved == Set(cleared, side, m.type, m.to)
             taken == IF m.captured = "none" THEN moved
                      ELSE Clear(moved, inverse(side), m.captured, m.to)
  <1>1. /\ m.side = side /\ m.from \in Squares /\ m.to \in Squares /\ m.type \in Types
        /\ m.captured \in Types \union {"none"} /\ inverse(side) \in Sides /\ inverse(side) # side
        /\ \A t \in Types : m.to \notin bb[side][t]
        /\ \A t \in Types : t # m.captured => m.to \notin bb[inverse(side)][t]
    BY TakenFacts, SideFacts DEF Step
  <1>2. /\ cleared \in Boards
        /\ \A s \in Sides, t \in Types, q \in Squares :
             q \in cleared[s][t] <=> q \in bb[s][t] /\ ~(s = side /\ t = m.type /\ q = m.from)
    <2>1. m.type \in Types /\ m.from \in Squares /\ cleared = Clear(bb, side, m.type, m.from)
      BY <1>1
    <2> HIDE DEF cleared
    <2> QED
      BY <2>1, ClearFacts
  <1>3. /\ moved \in Boards
        /\ \A s \in Sides, t \in Types, q \in Squares :
             q \in moved[s][t] <=> q \in cleared[s][t] \/ (s = side /\ t = m.type /\ q = m.to)
    <2>1. moved = Set(cleared, side, m.type, m.to) /\ cleared \in Boards
      BY <1>2
    <2>2. m.to \in Squares /\ m.type \in Types
      BY <1>1
    <2> HIDE DEF cleared, moved
    <2> QED
      BY <2>1, <2>2, SetFacts
  <1>4. /\ taken \in Boards
        /\ \A s \in Sides, t \in Types, q \in Squares :
             q \in taken[s][t] <=>
               q \in moved[s][t] /\ ~(s = inverse(side) /\ t = m.captured /\ q = m.to)
    <2> HIDE DEF moved
    <2>1. CASE m.captured = "none"
      BY <1>3, <2>1 DEF Types
    <2>2. CASE m.captured \in Types
      <3>1. taken = Clear(moved, inverse(side), m.captured, m.to) /\ moved \in Boards
        BY <1>3, <2>2 DEF Types
      <3>2. PICK s2 \in Sides, man \in Types, p \in Squares :
              s2 = inverse(side) /\ man = m.captured /\ p = m.to
        BY <1>1, <2>2
      <3>3. taken = Clear(moved, s2, man, p) /\ moved \in Boards
        BY <3>1, <3>2
      <3> HIDE DEF taken
      <3>4. /\ taken \in Boards
            /\ \A s \in Sides, t \in Types, q \in Squares :
                 q \in taken[s][t] <=> q \in moved[s][t] /\ ~(s = s2 /\ t = man /\ q = p)
        BY <3>3, ClearFacts
      <3> QED
        BY <3>2, <3>4
    <2> QED
      BY <1>1, <2>1, <2>2
  <1>5. is_legal_after_move(bb, m) <=>
          ~is_square_attacked(taken, bsf(taken[side]["king"]), inverse(side))
    BY <1>1 DEF is_legal_after_move
  <1> HIDE DEF cleared, moved, taken
  <1>6. Stepped(bb, taken, side, m)
    BY <1>1, <1>2, <1>3, <1>4 DEF Stepped
  <1> QED
    BY <1>5, <1>6

\* What generate_all_moves makes, castling apart.
Ordinary(bb, side, m) ==
  /\ Step(bb, side, m)
  /\ Reaches(bb, side, m.type, m.from, m.to)
  /\ \E b : Stepped(bb, b, side, m) /\ ~is_square_attacked(b, bsf(b[side]["king"]), inverse(side))
  /\ IF m.type = "pawn" /\ m.to \notin 8 .. 55
       THEN m.flag \in Promotions
       ELSE m.flag = IF m.type = "pawn" /\ m.to = m.from + 2 * Up(side) THEN "long" ELSE "default"
  /\ m.flag = "long" =>
       /\ Row(m.from + Up(side)) = IF side = "white" THEN 2 ELSE 5
       /\ m.from + Up(side) \in Squares
  /\ m.type = "king" => m.to \in KingMasks[m.from]

\* A castling that generate_all_moves makes.
Castled(bb, side, rights, m) ==
  \E c \in Castlings :
    /\ m = Move(c.from, c.to, "king", side, "none", c.right)
    /\ c.side = side /\ c.right \in rights
    /\ c.empty \subseteq Empty(bb)
    /\ \A p \in c.safe : ~is_square_attacked(bb, p, inverse(side))

\* Every generated move is one of the two.
LEMMA GeneratedMoves ==
  ASSUME NEW bb \in Boards, Apart(bb), NEW side \in Sides, NEW ep, EpOK(ep, side), NEW rights,
         NEW m \in generate_all_moves(bb, side, ep, rights)
  PROVE  Ordinary(bb, side, m) \/ Castled(bb, side, rights, m)
  <1>1. \/ \E n \in PawnMoves(bb, side, ep) : is_legal_after_move(bb, n) /\ m \in Promoted(n)
        \/ m \in PieceMoves(bb, side) /\ is_legal_after_move(bb, m)
        \/ m \in CastlingMoves(bb, side, rights)
    BY DEF generate_all_moves
  <1>2. ASSUME NEW n \in PawnMoves(bb, side, ep), is_legal_after_move(bb, n), m \in Promoted(n)
        PROVE  Ordinary(bb, side, m)
    <2>1. PawnStep(bb, side, n)
      BY PawnMovesFacts
    <2>2. Step(bb, side, n) /\ n.flag # "en_passant" /\ n.to \in Squares
      BY <2>1 DEF PawnStep, Step
    <2>3. PICK b : /\ Stepped(bb, b, side, n)
                   /\ ~is_square_attacked(b, bsf(b[side]["king"]), inverse(side))
      BY <1>2, <2>2, LegalFacts
    <2>4. CASE n.to \in 8 .. 55
      <3>1. m = n
        BY <1>2, <2>4 DEF Promoted
      <3> QED
        BY <2>1, <2>3, <2>4, <3>1 DEF PawnStep, Ordinary
    <2>5. CASE n.to \notin 8 .. 55
      <3>1. PICK t \in Promotions : m = Become(n, t)
        BY <1>2, <2>2, <2>5 DEF Promoted, Squares
      <3>2. /\ m.from = n.from /\ m.to = n.to /\ m.type = n.type /\ m.captured = n.captured
            /\ m.side = n.side /\ m.flag = t
        BY <3>1 DEF Become, Move
      <3>3. Step(bb, side, m) /\ Reaches(bb, side, m.type, m.from, m.to)
        <4>1. Reaches(bb, side, m.type, m.from, m.to)
          BY <2>1, <3>2 DEF PawnStep
        <4> QED
          BY <2>2, <3>1, <3>2, <4>1 DEF Step, Become, Move
      <3>4. Stepped(bb, b, side, m)
        BY <2>3, <3>2 DEF Stepped
      <3>5. m.type = "pawn" /\ m.to \notin 8 .. 55 /\ m.flag \in Promotions /\ m.flag # "long"
        BY <2>1, <2>5, <3>2 DEF PawnStep, Promotions
      <3> QED
        BY <2>3, <3>3, <3>4, <3>5 DEF Ordinary
    <2> QED
      BY <2>4, <2>5
  <1>3. ASSUME m \in PieceMoves(bb, side), is_legal_after_move(bb, m)
        PROVE  Ordinary(bb, side, m)
    <2>1. PieceStep(bb, side, m)
      BY <1>3, PieceMovesFacts
    <2>2. Step(bb, side, m) /\ m.flag # "en_passant"
      BY <2>1 DEF PieceStep
    <2>3. \E b : /\ Stepped(bb, b, side, m)
                 /\ ~is_square_attacked(b, bsf(b[side]["king"]), inverse(side))
      BY <1>3, <2>2, LegalFacts
    <2> QED
      BY <2>1, <2>3 DEF PieceStep, Ordinary
  <1>4. ASSUME m \in CastlingMoves(bb, side, rights)
        PROVE  Castled(bb, side, rights, m)
    BY <1>4 DEF CastlingMoves, Castled
  <1> QED
    BY <1>1, <1>2, <1>3, <1>4

-----------------------------------------------------------------------------
(* Every move of the rules is generated, captures in passing apart.        *)

\* What is_square_attacked sees is an attack by the rules,
LEMMA SteppersReallyAttack ==
  ASSUME NEW bb \in Boards, NEW p \in Squares, NEW by_side \in Sides,
         SteppersAttack(bb, p, by_side)
  PROVE  Attacked(bb, p, by_side)
  <1>1. \A t \in Types : bb[by_side][t] \subseteq Squares
    BY DEF Boards
  <1>2. /\ p \in Int /\ Row(p) \in 0 .. 7 /\ Column(p) \in 0 .. 7 /\ p = 8 * Row(p) + Column(p)
    BY SquareFacts
  <1>3. ASSUME PawnAttacks(bb, p, by_side)
        PROVE  \E x \in bb[by_side]["pawn"] : dCol(x, p) = 1 /\ Row(p) = Row(x) + Forward(by_side)
    <2>1. \A x \in bb[by_side]["pawn"] :
            /\ x \in Int /\ Row(x) \in 0 .. 7 /\ Column(x) \in 0 .. 7
            /\ x = 8 * Row(x) + Column(x)
      BY <1>1, SquareFacts DEF Types
    <2>2. \A x \in bb[by_side]["pawn"] :
            dCol(x, p) = 1 /\ Row(p) = Row(x) + Forward(by_side) <=>
              /\ Row(p) = Row(x) + (IF by_side = "white" THEN 1 ELSE -1)
              /\ Column(p) = Column(x) + 1 \/ Column(p) = Column(x) - 1
      BY <1>2, <2>1 DEF dCol, Dist, Forward
    <2>3. CASE by_side = "white"
      <3>1. CASE Column(p) # 0 /\ p - 9 \in bb[by_side]["pawn"]
        <4>1. Row(p) = Row(p - 9) + 1 /\ Column(p) = Column(p - 9) + 1
          BY <1>2, <2>1, <3>1
        <4> QED BY <2>2, <2>3, <3>1, <4>1
      <3>2. CASE Column(p) # 7 /\ p - 7 \in bb[by_side]["pawn"]
        <4>1. Row(p) = Row(p - 7) + 1 /\ Column(p) = Column(p - 7) - 1
          BY <1>2, <2>1, <3>2
        <4> QED BY <2>2, <2>3, <3>2, <4>1
      <3> QED BY <1>3, <2>3, <3>1, <3>2 DEF PawnAttacks
    <2>4. CASE by_side = "black"
      <3>1. CASE Column(p) # 0 /\ p + 7 \in bb[by_side]["pawn"]
        <4>1. Row(p) = Row(p + 7) - 1 /\ Column(p) = Column(p + 7) + 1
          BY <1>2, <2>1, <3>1
        <4> QED BY <2>2, <2>4, <3>1, <4>1
      <3>2. CASE Column(p) # 7 /\ p + 9 \in bb[by_side]["pawn"]
        <4>1. Row(p) = Row(p + 9) - 1 /\ Column(p) = Column(p + 9) - 1
          BY <1>2, <2>1, <3>2
        <4> QED BY <2>2, <2>4, <3>2, <4>1
      <3> QED BY <1>3, <2>4, <3>1, <3>2 DEF PawnAttacks
    <2> QED
      BY <2>3, <2>4 DEF Sides
  <1>4. CASE PawnAttacks(bb, p, by_side)
    <2>1. PICK x \in bb[by_side]["pawn"] : dCol(x, p) = 1 /\ Row(p) = Row(x) + Forward(by_side)
      BY <1>3, <1>4
    <2>2. Attacks(bb, by_side, "pawn", x, p)
      BY <2>1, Zenon DEF Attacks
    <2> QED
      BY <2>2 DEF Attacked, Types
  <1>5. CASE KnightMasks[p] \intersect bb[by_side]["knight"] # {}
    <2>1. PICK x \in bb[by_side]["knight"] : x \in KnightMasks[p]
      BY <1>5
    <2>2. {dCol(x, p), dRow(x, p)} = {1, 2}
      BY <2>1 DEF KnightMasks, dCol, dRow
    <2>3. Attacks(bb, by_side, "knight", x, p)
      BY <2>2, Zenon DEF Attacks
    <2> QED
      BY <2>3 DEF Attacked, Types
  <1>6. CASE KingMasks[p] \intersect bb[by_side]["king"] # {}
    <2>1. PICK x \in bb[by_side]["king"] : x \in KingMasks[p]
      BY <1>6
    <2>2. dCol(x, p) <= 1 /\ dRow(x, p) <= 1 /\ x # p
      BY <2>1 DEF KingMasks, dCol, dRow
    <2>3. Attacks(bb, by_side, "king", x, p)
      BY <2>2, Zenon DEF Attacks
    <2> QED
      BY <2>3 DEF Attacked, Types
  <1> QED
    BY <1>4, <1>5, <1>6 DEF SteppersAttack

\* so the check it sees is one.
LEMMA CheckIsReal ==
  ASSUME NEW bb \in Boards, Apart(bb), NEW side \in Sides, bb[side]["king"] # {},
         is_square_attacked(bb, bsf(bb[side]["king"]), inverse(side))
  PROVE  InCheck(bb, side)
  <1>1. bb[side]["king"] \subseteq Squares
    BY DEF Boards, Types
  <1>2. bsf(bb[side]["king"]) \in bb[side]["king"]
    BY <1>1, MinFacts DEF bsf
  <1>3. Attacked(bb, bsf(bb[side]["king"]), inverse(side))
    BY <1>1, <1>2, SideFacts, OnlySteppersAttack, SteppersReallyAttack
  <1> QED
    BY <1>2, <1>3 DEF InCheck

\* A mask holds every square the man may go to.
LEMMA MaskIsComplete ==
  ASSUME NEW bb \in Boards, NEW side \in Sides, NEW p \in Squares, NEW q \in Squares,
         NEW type \in Types \ {"pawn"}, Reaches(bb, side, type, p, q)
  PROVE  q \in PieceMask(bb, p, type, side)
  <1>1. q \notin SideBoard(bb, side) /\ Attacks(bb, side, type, p, q)
    BY DEF Reaches
  <1>2. /\ Column(p) \in Int /\ Row(p) \in Int /\ Column(q) \in Int /\ Row(q) \in Int
        /\ dCol(p, q) = Dist(Column(q), Column(p)) /\ dRow(p, q) = Dist(Row(q), Row(p))
    BY SquareFacts DEF dCol, dRow, Dist
  <1>3. ASSUME NEW D, D \subseteq Diagonals \union Straights, NEW d \in D, q \in Rays[p][d],
               Between(p, q) \intersect All(bb) = {}
        PROVE  q \in RayMask(bb, p, side, FALSE, D)
    <2>1. d \in Diagonals \union Straights
      BY <1>3
    <2>2. q \in calc_ray(bb, p, side, FALSE, d)
      BY <1>1, <1>3, <2>1, ClearIsOnRay
    <2> QED
      BY <2>2 DEF RayMask
  <1>4. CASE type = "knight"
    <2>1. {dCol(p, q), dRow(p, q)} = {1, 2}
      BY <1>1, <1>4, Zenon DEF Attacks
    <2>2. q \in KnightMasks[p]
      BY <1>2, <2>1 DEF KnightMasks
    <2> QED
      BY <1>1, <1>4, <2>2, Zenon DEF PieceMask
  <1>5. CASE type = "king"
    <2>1. dCol(p, q) <= 1 /\ dRow(p, q) <= 1 /\ p # q
      BY <1>1, <1>5, Zenon DEF Attacks
    <2>2. q \in KingMasks[p]
      BY <1>2, <2>1 DEF KingMasks
    <2> QED
      BY <1>1, <1>5, <2>2, Zenon DEF PieceMask
  <1>6. CASE type = "bishop"
    <2>1. OnDiagonal(p, q) /\ Between(p, q) \intersect All(bb) = {}
      BY <1>1, <1>6, Zenon DEF Attacks
    <2>2. q \in RayMask(bb, p, side, FALSE, Diagonals)
      BY <1>3, <2>1, LineIsRay
    <2> QED
      BY <1>6, <2>2, Zenon DEF PieceMask
  <1>7. CASE type = "rook"
    <2>1. OnStraight(p, q) /\ Between(p, q) \intersect All(bb) = {}
      BY <1>1, <1>7, Zenon DEF Attacks
    <2>2. q \in RayMask(bb, p, side, FALSE, Straights)
      BY <1>3, <2>1, LineIsRay
    <2> QED
      BY <1>7, <2>2, Zenon DEF PieceMask
  <1>8. CASE type = "queen"
    <2>1. (OnDiagonal(p, q) \/ OnStraight(p, q)) /\ Between(p, q) \intersect All(bb) = {}
      BY <1>1, <1>8, Zenon DEF Attacks
    <2>2. PICK d \in Diagonals \union Straights : q \in Rays[p][d]
      BY <2>1, LineIsRay
    <2>3. q \in RayMask(bb, p, side, FALSE, Diagonals \union Straights)
      BY <1>3, <2>1, <2>2
    <2> QED
      BY <1>8, <2>3, Zenon DEF PieceMask
  <1> QED
    BY <1>4, <1>5, <1>6, <1>7, <1>8 DEF Types

\* m is a step of side's man of the given type from p to q.
StepFor(bb, side, type, p, q, m) ==
  Step(bb, side, m) /\ m.type = type /\ m.from = p /\ m.to = q /\ m.flag # "en_passant"

\* A pawn has a move to every square it may go to,
LEMMA PawnMovesAreComplete ==
  ASSUME NEW bb \in Boards, Apart(bb), NEW side \in Sides, NEW ep,
         NEW p \in bb[side]["pawn"], NEW q \in Squares, Reaches(bb, side, "pawn", p, q)
  PROVE  \E m \in PawnMoves(bb, side, ep) : StepFor(bb, side, "pawn", p, q, m)
  <1> DEFINE pawns == bb[side]["pawn"]
             up == Up(side)
             default == Shift(pawns, up) \intersect Empty(bb)
             third == IF side = "white" THEN 2 ELSE 5
             long == Shift({x \in default : Row(x) = third}, up) \intersect Empty(bb)
             enemy == SideBoard(bb, inverse(side))
             left == {x \in Shift(pawns, up - 1) : Column(x) # 7 /\ x \in enemy}
             right == {x \in Shift(pawns, up + 1) : Column(x) # 0 /\ x \in enemy}
  <1>1. p \in Squares /\ "pawn" \in Types /\ q \notin SideBoard(bb, side)
    BY DEF Boards, Types, Reaches
  <1>2. /\ p \in Int /\ Column(p) \in 0 .. 7 /\ Row(p) \in 0 .. 7 /\ p = 8 * Row(p) + Column(p)
        /\ q \in Int /\ Column(q) \in 0 .. 7 /\ Row(q) \in 0 .. 7 /\ q = 8 * Row(q) + Column(q)
    BY <1>1, SquareFacts
  <1>3. up = 8 * Forward(side) /\ Forward(side) \in {1, -1} /\ up \in Int
    BY DEF Up, Forward
  <1>4. /\ \A x \in default : Move(x - up, x, "pawn", side, "none", "default")
                                 \in PawnMoves(bb, side, ep)
        /\ \A x \in long : Move(x - 2 * up, x, "pawn", side, "none", "long")
                              \in PawnMoves(bb, side, ep)
        /\ \A x \in left : Capture(bb, x - up + 1, x, "pawn", side) \in PawnMoves(bb, side, ep)
        /\ \A x \in right : Capture(bb, x - up - 1, x, "pawn", side) \in PawnMoves(bb, side, ep)
    BY DEF PawnMoves, Up
  <1>5. /\ \A x \in Empty(bb) : TypeAt(bb, inverse(side), x) = "none"
        /\ \A x \in Squares : x \notin All(bb) => x \in Empty(bb)
    BY BoardFacts, TypeAtFacts DEF Empty
  <1> HIDE DEF up
  <1>6. \A n \in Int, x \in Squares, y \in Squares :
          x \in pawns /\ y = x + n => y \in Shift(pawns, n)
    BY DEF Shift
  <1>7. CASE Column(p) = Column(q)
    <2>1. /\ \/ (Row(q) - Row(p)) * Forward(side) = 1
             \/ /\ (Row(q) - Row(p)) * Forward(side) = 2
                /\ Row(p) = IF side = "white" THEN 1 ELSE 6
          /\ q \notin All(bb) /\ Between(p, q) \intersect All(bb) = {}
      BY <1>7 DEF Reaches
    <2>2. CASE (Row(q) - Row(p)) * Forward(side) = 1
      <3>1. q = p + up
        BY <1>2, <1>3, <1>7, <2>2
      <3>2. q \in default /\ q - up = p
        BY <1>1, <1>2, <1>3, <1>5, <1>6, <2>1, <3>1
      <3>3. Move(p, q, "pawn", side, "none", "default") \in PawnMoves(bb, side, ep)
        BY <1>4, <3>2
      <3>4. StepFor(bb, side, "pawn", p, q, Move(p, q, "pawn", side, "none", "default"))
        BY <1>1, <1>5, <3>2 DEF StepFor, Step, Move
      <3> QED
        BY <3>3, <3>4
    <2>3. CASE /\ (Row(q) - Row(p)) * Forward(side) = 2
               /\ Row(p) = IF side = "white" THEN 1 ELSE 6
      <3>1. /\ q = p + 2 * up /\ p + up \in Squares /\ Row(p + up) = third
            /\ q = p + up + up /\ q - 2 * up = p
        <4>1. CASE side = "white"
          BY <1>2, <1>3, <1>7, <2>3, <4>1 DEF Forward, Squares, Row
        <4>2. CASE side = "black"
          BY <1>2, <1>3, <1>7, <2>3, <4>2 DEF Forward, Squares, Row
        <4> QED
          BY <4>1, <4>2 DEF Sides
      <3>2. Between(p, q) = {p + up}
        BY <1>1, <3>1, PawnAhead DEF up
      <3>3. p + up \in default
        BY <1>1, <1>3, <1>5, <1>6, <2>1, <3>1, <3>2
      <3>4. q \in long
        BY <1>3, <1>5, <2>1, <3>1, <3>3 DEF Shift
      <3>5. Move(p, q, "pawn", side, "none", "long") \in PawnMoves(bb, side, ep)
        BY <1>4, <3>1, <3>4
      <3>6. StepFor(bb, side, "pawn", p, q, Move(p, q, "pawn", side, "none", "long"))
        BY <1>1, <1>5, <3>4 DEF StepFor, Step, Move
      <3> QED
        BY <3>5, <3>6
    <2> QED
      BY <2>1, <2>2, <2>3
  <1>8. CASE Column(p) # Column(q)
    <2>1. Attacks(bb, side, "pawn", p, q) /\ q \in enemy
      BY <1>8 DEF Reaches
    <2>2. dCol(p, q) = 1 /\ Row(q) = Row(p) + Forward(side)
      BY <2>1, Zenon DEF Attacks
    <2>3. StepFor(bb, side, "pawn", p, q, Capture(bb, p, q, "pawn", side))
      BY <1>1 DEF StepFor, Step, Capture, Move
    <2>4. CASE Column(q) = Column(p) - 1
      <3>1. q = p + (up - 1) /\ Column(q) # 7 /\ q - up + 1 = p /\ up - 1 \in Int
        BY <1>2, <1>3, <2>2, <2>4
      <3>2. q \in left
        BY <1>1, <1>6, <2>1, <3>1
      <3> QED
        BY <1>4, <2>3, <3>1, <3>2
    <2>5. CASE Column(q) = Column(p) + 1
      <3>1. q = p + (up + 1) /\ Column(q) # 0 /\ q - up - 1 = p /\ up + 1 \in Int
        <4>1. Column(q) # 0
          BY <1>2, <2>5
        <4>2. q = p + up + 1
          BY <1>2, <1>3, <2>2, <2>5
        <4> QED
          BY <1>2, <1>3, <4>1, <4>2
      <3>2. q \in right
        BY <1>1, <1>6, <2>1, <3>1
      <3> QED
        BY <1>4, <2>3, <3>1, <3>2
    <2> QED
      BY <1>2, <2>2, <2>4, <2>5 DEF dCol, Dist
  <1> QED
    BY <1>7, <1>8

\* and so has every other man.
LEMMA PieceMovesAreComplete ==
  ASSUME NEW bb \in Boards, NEW side \in Sides, NEW type \in Types \ {"pawn"},
         NEW p \in bb[side][type], NEW q \in Squares, Reaches(bb, side, type, p, q)
  PROVE  \E m \in PieceMoves(bb, side) : StepFor(bb, side, type, p, q, m)
  <1>1. p \in Squares
    BY DEF Boards
  <1>2. q \in PieceMask(bb, p, type, side) /\ q \notin SideBoard(bb, side)
    BY <1>1, MaskIsComplete DEF Reaches
  <1>3. Capture(bb, p, q, type, side) \in PieceMoves(bb, side)
    BY <1>2 DEF PieceMoves
  <1>4. StepFor(bb, side, type, p, q, Capture(bb, p, q, type, side))
    BY <1>2 DEF StepFor, Step, Capture, Move
  <1> QED
    BY <1>3, <1>4

\* The filter keeps a step that leaves the own king safe by the rules.
LEMMA SafeStepsAreLegal ==
  ASSUME NEW bb \in Boards, Apart(bb), NEW side \in Sides, bb[side]["king"] # {},
         NEW type, NEW p, NEW q, NEW m, StepFor(bb, side, type, p, q, m),
         ~InCheck(AfterMove(bb, side, type, p, q), side)
  PROVE  is_legal_after_move(bb, m)
  <1>1. Step(bb, side, m) /\ m.type = type /\ m.from = p /\ m.to = q /\ m.flag # "en_passant"
    BY DEF StepFor
  <1>2. PICK b : /\ Stepped(bb, b, side, m)
                 /\ is_legal_after_move(bb, m) <=>
                      ~is_square_attacked(b, bsf(b[side]["king"]), inverse(side))
    BY <1>1, LegalFacts
  <1>3. b \in Boards /\ Apart(b)
    BY <1>1, <1>2, SteppedApart DEF Stepped
  <1>4. type \in Types /\ p \in Squares /\ q \in Squares /\ p # q
    BY <1>1, TakenFacts DEF Step
  <1>5. b = AfterMove(bb, side, type, p, q)
    <2> DEFINE a == AfterMove(bb, side, type, p, q)
    <2>1. a = [s \in Sides |-> [t \in Types |-> a[s][t]]]
      BY DEF AfterMove
    <2>2. b = [s \in Sides |-> [t \in Types |-> b[s][t]]]
      BY <1>3 DEF Boards
    <2>3. \A s \in Sides : s = side \/ s = inverse(side)
      BY DEF Sides, inverse
    <2>4. \A t \in Types : a[side][t] = IF t = type THEN (bb[side][t] \ {p}) \union {q}
                                        ELSE bb[side][t]
      BY DEF AfterMove
    <2>5. \A t \in Types : a[inverse(side)][t] = bb[inverse(side)][t] \ {q}
      BY SideFacts DEF AfterMove
    <2> HIDE DEF a
    <2>6. \A s \in Sides, t \in Types : b[s][t] \subseteq Squares /\ bb[s][t] \subseteq Squares
      BY <1>3 DEF Boards
    <2>7. ASSUME NEW t \in Types
          PROVE  b[side][t] = a[side][t] /\ b[inverse(side)][t] = a[inverse(side)][t]
      <3>1. /\ b[side][t] \subseteq Squares /\ bb[side][t] \subseteq Squares
            /\ b[inverse(side)][t] \subseteq Squares /\ bb[inverse(side)][t] \subseteq Squares
        BY <2>6, SideFacts
      <3>2. \A x \in Squares :
              /\ x \in b[side][t] <=>
                   (x \in bb[side][t] /\ ~(t = type /\ x = p)) \/ (t = type /\ x = q)
              /\ x \in b[inverse(side)][t] <=> x \in bb[inverse(side)][t] /\ x # q
        BY <1>1, <1>2 DEF Stepped
      <3>3. b[side][t] = a[side][t]
        BY <1>4, <2>4, <3>1, <3>2
      <3>4. b[inverse(side)][t] = a[inverse(side)][t]
        BY <2>5, <3>1, <3>2
      <3> QED
        BY <3>3, <3>4
    <2>8. \A s \in Sides, t \in Types : b[s][t] = a[s][t]
      BY <2>3, <2>7
    <2>9. a = b
      BY <2>1, <2>2, <2>8, Zenon
    <2> QED
      BY <2>9 DEF a
  <1>6. b[side]["king"] # {}
    <2>1. "king" \in Types
      BY DEF Types
    <2>2. PICK k \in bb[side]["king"] : k \in Squares
      BY <2>1 DEF Boards
    <2>3. k \in b[side]["king"] \/ q \in b[side]["king"]
      BY <1>1, <1>2, <1>4, <2>1, <2>2 DEF Stepped
    <2> QED
      BY <2>3
  <1> QED
    BY <1>2, <1>3, <1>5, <1>6, CheckIsReal

LEMMA RuleMovesAreGenerated ==
  ASSUME NEW bb \in Boards, Apart(bb), NEW side \in Sides, bb[side]["king"] # {},
         NEW ep, NEW rights, NEW r \in RuleMoves(bb, side)
  PROVE  \E m \in generate_all_moves(bb, side, ep, rights) :
           m.type = r.type /\ m.from = r.from /\ m.to = r.to
  <1>1. PICK p \in SideBoard(bb, side), type \in Types, q \in Squares :
          /\ r = [type |-> type, from |-> p, to |-> q]
          /\ p \in bb[side][type]
          /\ Reaches(bb, side, type, p, q)
          /\ ~InCheck(AfterMove(bb, side, type, p, q), side)
    BY DEF RuleMoves
  <1>2. CASE type = "pawn"
    <2>1. PICK n \in PawnMoves(bb, side, ep) : StepFor(bb, side, type, p, q, n)
      BY <1>1, <1>2, PawnMovesAreComplete
    <2>2. is_legal_after_move(bb, n)
      BY <1>1, <2>1, SafeStepsAreLegal
    <2>3. \E m \in Promoted(n) : m.type = n.type /\ m.from = n.from /\ m.to = n.to
      <3>1. Promoted(n) = {n} \/ Become(n, "queen") \in Promoted(n)
        BY DEF Promoted, Promotions
      <3>2. LET m == Become(n, "queen")
            IN  m.type = n.type /\ m.from = n.from /\ m.to = n.to
        BY DEF Become, Move
      <3> QED
        BY <3>1, <3>2
    <2>4. Promoted(n) \subseteq generate_all_moves(bb, side, ep, rights)
      BY <2>2 DEF generate_all_moves
    <2> QED
      BY <1>1, <2>1, <2>3, <2>4 DEF StepFor
  <1>3. CASE type # "pawn"
    <2>1. PICK m \in PieceMoves(bb, side) : StepFor(bb, side, type, p, q, m)
      BY <1>1, <1>3, PieceMovesAreComplete
    <2>2. is_legal_after_move(bb, m)
      BY <1>1, <2>1, SafeStepsAreLegal
    <2>3. m \in generate_all_moves(bb, side, ep, rights)
      BY <2>1, <2>2 DEF generate_all_moves
    <2> QED
      BY <1>1, <2>1, <2>3 DEF StepFor
  <1> QED
    BY <1>2, <1>3

\* The squares the generator wants empty and unattacked are those of the rules.
LEMMA CastlingSquares ==
  \A c \in Castlings : /\ c.empty = Between(c.from, c.rook)
                       /\ c.safe = Between(c.from, c.to) \union {c.to}
                       /\ c.empty \subseteq Squares /\ c.safe \subseteq Squares
  <1>1. /\ Between(4, 7) = 5 .. 6 /\ Between(4, 6) = {5}
        /\ Between(4, 0) = 1 .. 3 /\ Between(4, 2) = {3}
    BY DEF Between, Sign, dCol, dRow, Dist, Column, Row
  <1>2. /\ Between(60, 63) = 61 .. 62 /\ Between(60, 62) = {61}
        /\ Between(60, 56) = 57 .. 59 /\ Between(60, 58) = {59}
    BY DEF Between, Sign, dCol, dRow, Dist, Column, Row
  <1> QED
    BY <1>1, <1>2 DEF Castlings, Squares

\* A castling the rules allow is generated: the generator sees no more attacks than
\* there are, and does not look for the rook.
LEMMA RuleCastlingsAreGenerated ==
  ASSUME NEW bb \in Boards, Apart(bb), NEW side \in Sides,
         NEW ep, NEW rights, NEW r \in RuleCastlings(bb, side, rights)
  PROVE  \E m \in generate_all_moves(bb, side, ep, rights) :
           m.type = r.type /\ m.from = r.from /\ m.to = r.to
  <1>1. PICK c \in Castlings :
          /\ r = [type |-> "king", from |-> c.from, to |-> c.to]
          /\ c.side = side /\ c.right \in rights
          /\ Between(c.from, c.rook) \intersect All(bb) = {}
          /\ ~InCheck(bb, side)
          /\ \A q \in Between(c.from, c.to) \union {c.to} : ~Attacked(bb, q, inverse(side))
    BY DEF RuleCastlings
  <1>2. c.empty \subseteq Empty(bb)
    BY <1>1, CastlingSquares DEF Empty
  <1>3. ~is_check(bb, side)
    BY <1>1, CheckIsReal DEF is_check
  <1>4. \A q \in c.safe : ~is_square_attacked(bb, q, inverse(side))
    <2> SUFFICES ASSUME NEW q \in c.safe, is_square_attacked(bb, q, inverse(side))
                 PROVE  FALSE
      OBVIOUS
    <2>1. q \in Squares /\ ~Attacked(bb, q, inverse(side))
      BY <1>1, CastlingSquares
    <2> QED
      BY <2>1, SideFacts, OnlySteppersAttack, SteppersReallyAttack
  <1>5. Move(c.from, c.to, "king", side, "none", c.right) \in CastlingMoves(bb, side, rights)
    BY <1>1, <1>2, <1>3, <1>4 DEF CastlingMoves
  <1> QED
    BY <1>1, <1>5 DEF generate_all_moves, Move

-----------------------------------------------------------------------------
(* Two moves of one request.                                               *)

\* A castling right says that the king, if there is one, is at home.
KingHome(bb, rights) ==
  \A c \in Castlings : c.right \in rights => bb[c.side]["king"] \subseteq {c.from}

\* Two steps of one request are the same: the squares decide the man, the man
\* taken and the flag.
LEMMA OrdinaryUnique ==
  ASSUME NEW bb, Apart(bb), NEW side \in Sides,
         NEW m, Ordinary(bb, side, m), NEW n, Ordinary(bb, side, n),
         m.from = n.from, m.to = n.to, n.flag \in Promotions => m.flag = n.flag
  PROVE  m = n
  <1>1. m.type = n.type
    BY DEF Ordinary, Step, Apart
  <1>2. m.captured = n.captured
    BY DEF Ordinary, Step
  <1>3. m.flag = n.flag
    BY <1>1 DEF Ordinary
  <1> QED
    BY <1>1, <1>2, <1>3 DEF Ordinary, Step

\* No king's step is as long as a castling,
LEMMA CastlingIsFar ==
  \A c \in Castlings : /\ c.from \in Squares /\ c.to \notin KingMasks[c.from]
                       /\ c.right \notin Promotions /\ c.side \in Sides
  BY DEF Castlings, Squares, KingMasks, Column, Row, Dist, Promotions, Sides

\* so no step shares a castling's squares while there is a king,
LEMMA CastledIsNotOrdinary ==
  ASSUME NEW bb, Apart(bb), NEW side \in Sides, NEW rights, KingHome(bb, rights),
         bb[side]["king"] # {},
         NEW m, Ordinary(bb, side, m), NEW n, Castled(bb, side, rights, n),
         m.from = n.from, m.to = n.to
  PROVE  FALSE
  <1>1. PICK c \in Castlings : /\ n = Move(c.from, c.to, "king", side, "none", c.right)
                               /\ c.side = side /\ c.right \in rights
    BY DEF Castled
  <1>2. n.from = c.from /\ n.to = c.to
    BY <1>1 DEF Move
  <1>3. c.from \in bb[side]["king"]
    BY <1>1 DEF KingHome
  <1>4. m.type = "king"
    BY <1>2, <1>3 DEF Ordinary, Step, Apart, Types
  <1> QED
    BY <1>2, <1>4, CastlingIsFar DEF Ordinary

\* and two castlings with the same squares are one.
LEMMA CastledUnique ==
  ASSUME NEW bb, NEW side, NEW rights, NEW m, Castled(bb, side, rights, m),
         NEW n, Castled(bb, side, rights, n), m.from = n.from, m.to = n.to
  PROVE  m = n
  <1>1. PICK c \in Castlings : m = Move(c.from, c.to, "king", side, "none", c.right)
    BY DEF Castled
  <1>2. PICK d \in Castlings : n = Move(d.from, d.to, "king", side, "none", d.right)
    BY DEF Castled
  <1>3. c.to = d.to
    BY <1>1, <1>2 DEF Move
  <1>4. c.from = d.from /\ c.right = d.right
    BY <1>3 DEF Castlings
  <1> QED
    BY <1>1, <1>2, <1>3, <1>4
=============================================================================

-------------------------- MODULE ChessGameProofs --------------------------
(***************************************************************************)
(* Proofs about a game of the engine, from every position to begin with    *)
(* that StartOK allows: no two men share a square, no pawn reaches its     *)
(* last row, a generated move is never taken back, a request means one     *)
(* move, a repetition is one, no man comes or goes but by a capture, and a *)
(* FEN text is read back as the position it was written from.              *)
(***************************************************************************)
EXTENDS ChessGame, FenProofs, FiniteSetTheorems

Positions ==
  [bb : Boards, ep : Squares \union {NoSquare}, rights : SUBSET Rights, turn : Sides,
   key : [men : SUBSET (Squares \X Types \X Sides), black : BOOLEAN, rights : SUBSET Rights]]

\* All but the board and the key.
SameFrame(p, q) == p.ep = q.ep /\ p.rights = q.rights /\ p.turn = q.turn

-----------------------------------------------------------------------------
(* The steps of apply_move, one by one.                                    *)

\* The key changes, nothing else.
LEMMA InvertPieceFacts ==
  ASSUME NEW p \in Positions, NEW square \in Squares, NEW type \in Types, NEW side \in Sides
  PROVE  LET r == InvertPiece(p, square, type, side)
         IN  r \in Positions /\ r.bb = p.bb /\ SameFrame(r, p)
  <1>1. Toggle(p.key.men, <<square, type, side>>) \subseteq Squares \X Types \X Sides
    BY DEF Toggle, Positions
  <1> QED
    BY <1>1 DEF InvertPiece, Positions, SameFrame

\* r is p without, and with, the man on square.
IsRemoved(p, r, square, type, side) ==
  /\ r \in Positions /\ SameFrame(r, p)
  /\ \A s \in Sides, t \in Types, q \in Squares :
       q \in r.bb[s][t] <=> q \in p.bb[s][t] /\ ~(s = side /\ t = type /\ q = square)

IsAdded(p, r, square, type, side) ==
  /\ r \in Positions /\ SameFrame(r, p)
  /\ \A s \in Sides, t \in Types, q \in Squares :
       q \in r.bb[s][t] <=> q \in p.bb[s][t] \/ (s = side /\ t = type /\ q = square)

\* Pieces and key change together in remove_piece and add_piece, which do nothing
\* when the man is not there, or is there already.
LEMMA RemoveFacts ==
  ASSUME NEW p \in Positions, NEW square \in Squares, NEW type \in Types, NEW side \in Sides
  PROVE  IsRemoved(p, remove_piece(p, square, type, side), square, type, side)
  <1>1. CASE square \notin p.bb[side][type]
    BY <1>1 DEF remove_piece, SameFrame, IsRemoved
  <1>2. CASE square \in p.bb[side][type]
    <2> DEFINE n == [p EXCEPT !.bb = Clear(p.bb, side, type, square)]
    <2>1. p.bb \in Boards
      BY DEF Positions
    <2>2. /\ Clear(p.bb, side, type, square) \in Boards
          /\ \A s \in Sides, t \in Types, q \in Squares :
               q \in Clear(p.bb, side, type, square)[s][t] <=>
                 q \in p.bb[s][t] /\ ~(s = side /\ t = type /\ q = square)
      BY <2>1, ClearFacts
    <2>3. n \in Positions /\ n.bb = Clear(p.bb, side, type, square) /\ SameFrame(n, p)
      BY <2>2 DEF Positions, SameFrame
    <2>4. remove_piece(p, square, type, side) = InvertPiece(n, square, type, side)
      BY <1>2 DEF remove_piece
    <2> HIDE DEF n
    <2> QED
      BY <2>2, <2>3, <2>4, InvertPieceFacts DEF SameFrame, IsRemoved
  <1> QED
    BY <1>1, <1>2

LEMMA AddFacts ==
  ASSUME NEW p \in Positions, NEW square \in Squares, NEW type \in Types, NEW side \in Sides
  PROVE  IsAdded(p, add_piece(p, square, type, side), square, type, side)
  <1>1. CASE square \in p.bb[side][type]
    BY <1>1 DEF add_piece, SameFrame, IsAdded
  <1>2. CASE square \notin p.bb[side][type]
    <2> DEFINE n == [p EXCEPT !.bb = Set(p.bb, side, type, square)]
    <2>1. p.bb \in Boards
      BY DEF Positions
    <2>2. /\ Set(p.bb, side, type, square) \in Boards
          /\ \A s \in Sides, t \in Types, q \in Squares :
               q \in Set(p.bb, side, type, square)[s][t] <=>
                 q \in p.bb[s][t] \/ (s = side /\ t = type /\ q = square)
      BY <2>1, SetFacts
    <2>3. n \in Positions /\ n.bb = Set(p.bb, side, type, square) /\ SameFrame(n, p)
      BY <2>2 DEF Positions, SameFrame
    <2>4. add_piece(p, square, type, side) = InvertPiece(n, square, type, side)
      BY <1>2 DEF add_piece
    <2> HIDE DEF n
    <2> QED
      BY <2>2, <2>3, <2>4, InvertPieceFacts DEF SameFrame, IsAdded
  <1> QED
    BY <1>1, <1>2

\* The rights that a departure from this square ends.
Lost(from) == {c.right : c \in {d \in Castlings : from \in {d.from, d.rook}}}

\* update_castling_rights ends the rights of the square that was left.
LEMMA RightsFacts ==
  ASSUME NEW p \in Positions, NEW from
  PROVE  LET r == update_castling_rights(p, from)
         IN  /\ r \in Positions /\ r.bb = p.bb /\ r.ep = p.ep /\ r.turn = p.turn
             /\ r.rights = p.rights \ Lost(from)
  <1>1. Lost(from) \subseteq Rights
    BY DEF Lost, Rights
  <1>2. SymDiff(p.key.rights, Lost(from)) \subseteq Rights
    BY <1>1 DEF SymDiff, Positions
  <1> QED
    BY <1>1, <1>2 DEF update_castling_rights, Lost, Positions

\* update_en_passant sets the square after a long move and clears it otherwise.
LEMMA EnPassantFacts ==
  ASSUME NEW p \in Positions, NEW m, m.side \in Sides,
         m.flag = "long" => (m.from + m.to) \div 2 \in Squares
  PROVE  LET r == update_en_passant(p, m)
         IN  /\ r \in Positions /\ r.bb = p.bb /\ r.rights = p.rights /\ r.turn = p.turn
             /\ r.ep = IF m.flag = "long" THEN (m.from + m.to) \div 2 ELSE NoSquare
  <1>1. "pawn" \in Types /\ inverse(m.side) \in Sides
    BY SideFacts DEF Types
  <1>2. CASE m.flag = "long"
    <2> DEFINE ep == (m.from + m.to) \div 2
               n == [p EXCEPT !.ep = ep]
    <2>1. ep \in Squares
      BY <1>2
    <2>2. update_en_passant(p, m) = InvertPiece(n, ep, "pawn", inverse(m.side))
      BY <1>2 DEF update_en_passant
    <2> HIDE DEF ep
    <2>3. n \in Positions /\ n.bb = p.bb /\ n.rights = p.rights /\ n.turn = p.turn /\ n.ep = ep
      BY <2>1 DEF Positions
    <2> HIDE DEF n
    <2>4. LET r == InvertPiece(n, ep, "pawn", inverse(m.side))
          IN  r \in Positions /\ r.bb = n.bb /\ SameFrame(r, n)
      BY <1>1, <2>1, <2>3, InvertPieceFacts
    <2> QED
      BY <1>2, <2>2, <2>3, <2>4 DEF SameFrame, ep
  <1>3. CASE m.flag # "long" /\ p.ep # NoSquare
    <2> DEFINE n == [p EXCEPT !.ep = NoSquare]
    <2>1. p.ep \in Squares
      BY <1>3 DEF Positions
    <2>2. update_en_passant(p, m) = InvertPiece(n, p.ep, "pawn", inverse(m.side))
      BY <1>3 DEF update_en_passant
    <2>3. n \in Positions /\ n.bb = p.bb /\ n.rights = p.rights /\ n.turn = p.turn /\ n.ep = NoSquare
      BY DEF Positions
    <2> HIDE DEF n
    <2>4. LET r == InvertPiece(n, p.ep, "pawn", inverse(m.side))
          IN  r \in Positions /\ r.bb = n.bb /\ SameFrame(r, n)
      BY <1>1, <2>1, <2>3, InvertPieceFacts
    <2> QED
      BY <1>3, <2>2, <2>3, <2>4 DEF SameFrame
  <1>4. CASE m.flag # "long" /\ p.ep = NoSquare
    BY <1>4 DEF update_en_passant
  <1> QED
    BY <1>2, <1>3, <1>4

\* The last step of apply_move.
LEMMA InvertSideFacts ==
  ASSUME NEW p \in Positions
  PROVE  LET r == InvertSide(p)
         IN  /\ r \in Positions /\ r.bb = p.bb /\ r.rights = p.rights /\ r.ep = p.ep
             /\ r.turn = inverse(p.turn)
  BY SideFacts DEF InvertSide, Positions

-----------------------------------------------------------------------------
(* The board after a move of the generator.                                *)

\* The position before the switch over the flags.
Taken(p, m) ==
  LET placed == add_piece(remove_piece(p, m.from, m.type, m.side), m.to, m.type, m.side)
  IN  IF m.captured = "none" THEN placed
      ELSE remove_piece(placed, m.to, m.captured, inverse(m.side))

\* r is p with the man of m moved and the captured one taken away.
IsTaken(p, r, m) ==
  /\ r \in Positions /\ SameFrame(r, p)
  /\ \A t \in Types, q \in Squares :
       /\ q \in r.bb[m.side][t] <=>
            \/ q \in p.bb[m.side][t] /\ ~(t = m.type /\ q = m.from)
            \/ t = m.type /\ q = m.to
       /\ q \in r.bb[inverse(m.side)][t] <=>
            q \in p.bb[inverse(m.side)][t] /\ ~(t = m.captured /\ q = m.to)

\* The move and the capture, before the switch over the flags.
LEMMA TakenPosition ==
  ASSUME NEW p \in Positions, NEW m, m.from \in Squares, m.to \in Squares, m.type \in Types,
         m.side \in Sides, m.captured \in Types \union {"none"}
  PROVE  IsTaken(p, Taken(p, m), m)
  <1> DEFINE side == m.side
             gone == remove_piece(p, m.from, m.type, side)
             placed == add_piece(gone, m.to, m.type, side)
             r == Taken(p, m)
  <1>1. inverse(side) \in Sides /\ inverse(side) # side
    BY SideFacts
  <1>2. IsRemoved(p, gone, m.from, m.type, side)
    BY RemoveFacts
  <1> HIDE DEF gone
  <1>3. IsAdded(gone, placed, m.to, m.type, side)
    <2>1. gone \in Positions
      BY <1>2 DEF IsRemoved
    <2> QED
      BY <2>1, AddFacts
  <1>4. r = IF m.captured = "none" THEN placed
            ELSE remove_piece(placed, m.to, m.captured, inverse(side))
    BY DEF Taken, gone
  <1> HIDE DEF placed, r
  <1>5. /\ r \in Positions /\ SameFrame(r, placed)
        /\ \A s \in Sides, t \in Types, q \in Squares :
             q \in r.bb[s][t] <=>
               q \in placed.bb[s][t] /\ ~(s = inverse(side) /\ t = m.captured /\ q = m.to)
    <2>1. CASE m.captured = "none"
      BY <1>3, <1>4, <2>1 DEF Types, SameFrame, IsAdded
    <2>2. CASE m.captured \in Types
      <3>1. r = remove_piece(placed, m.to, m.captured, inverse(side))
        BY <1>4, <2>2 DEF Types
      <3>2. placed \in Positions
        BY <1>3 DEF IsAdded
      <3>3. IsRemoved(placed, r, m.to, m.captured, inverse(side))
        BY <1>1, <2>2, <3>1, <3>2, RemoveFacts
      <3> QED
        BY <3>3 DEF IsRemoved
    <2> QED
      BY <2>1, <2>2
  <1>6. r \in Positions /\ SameFrame(r, p)
    BY <1>2, <1>3, <1>5 DEF SameFrame, IsRemoved, IsAdded
  <1>7. ASSUME NEW t \in Types, NEW q \in Squares
        PROVE  /\ q \in r.bb[side][t] <=>
                    \/ q \in p.bb[side][t] /\ ~(t = m.type /\ q = m.from)
                    \/ t = m.type /\ q = m.to
               /\ q \in r.bb[inverse(side)][t] <=>
                    q \in p.bb[inverse(side)][t] /\ ~(t = m.captured /\ q = m.to)
    BY <1>1, <1>2, <1>3, <1>5 DEF IsRemoved, IsAdded
  <1> QED
    BY <1>6, <1>7 DEF IsTaken, r

\* What follows the switch leaves the board alone.
LEMMA MovedFacts ==
  ASSUME NEW p \in Positions, NEW m, m.side \in Sides,
         m.flag = "long" => (m.from + m.to) \div 2 \in Squares,
         Special(Taken(p, m), m) \in Positions, SameFrame(Special(Taken(p, m), m), p)
  PROVE  /\ Moved(p, m) \in Positions
         /\ Moved(p, m).bb = Special(Taken(p, m), m).bb
         /\ Moved(p, m).turn = inverse(p.turn)
         /\ Moved(p, m).rights = p.rights \ Lost(m.from)
         /\ Moved(p, m).ep = IF m.flag = "long" THEN (m.from + m.to) \div 2 ELSE NoSquare
  <1> DEFINE a == Special(Taken(p, m), m)
             b == update_castling_rights(a, m.from)
             c == update_en_passant(b, m)
  <1>1. Moved(p, m) = InvertSide(c)
    BY DEF Moved, Taken
  <1>2. a \in Positions /\ SameFrame(a, p)
    OBVIOUS
  <1> HIDE DEF a
  <1>3. /\ b \in Positions /\ b.bb = a.bb /\ b.ep = a.ep /\ b.turn = a.turn
        /\ b.rights = a.rights \ Lost(m.from)
    BY <1>2, RightsFacts
  <1> HIDE DEF b
  <1>4. /\ c \in Positions /\ c.bb = b.bb /\ c.rights = b.rights /\ c.turn = b.turn
        /\ c.ep = IF m.flag = "long" THEN (m.from + m.to) \div 2 ELSE NoSquare
    BY <1>3, EnPassantFacts
  <1> HIDE DEF c
  <1>5. /\ Moved(p, m) \in Positions /\ Moved(p, m).bb = c.bb /\ Moved(p, m).rights = c.rights
        /\ Moved(p, m).ep = c.ep /\ Moved(p, m).turn = inverse(c.turn)
    BY <1>1, <1>4, InvertSideFacts
  <1> QED
    BY <1>2, <1>3, <1>4, <1>5 DEF SameFrame, a

\* The type a man has after a move.
Landed(m) == IF m.flag \in Promotions THEN m.flag ELSE m.type

\* The position after a step or a promotion.
LEMMA OrdinaryMoved ==
  ASSUME NEW p \in Positions, Apart(p.bb), NEW m, Ordinary(p.bb, p.turn, m)
  PROVE  /\ Moved(p, m) \in Positions
         /\ \A t \in Types, q \in Squares :
              /\ q \in Moved(p, m).bb[p.turn][t] <=>
                   \/ q \in p.bb[p.turn][t] /\ ~(t = m.type /\ q = m.from)
                   \/ t = Landed(m) /\ q = m.to
              /\ q \in Moved(p, m).bb[inverse(p.turn)][t] <=>
                   q \in p.bb[inverse(p.turn)][t] /\ q # m.to
         /\ Moved(p, m).turn = inverse(p.turn)
         /\ Moved(p, m).rights = p.rights \ Lost(m.from)
         /\ Moved(p, m).ep = IF m.flag = "long" THEN m.from + Up(p.turn) ELSE NoSquare
  <1> DEFINE side == p.turn
             r == Taken(p, m)
             s == Special(r, m)
  <1>1. p.bb \in Boards /\ side \in Sides /\ Step(p.bb, side, m) /\ m.type \in Types
    BY DEF Positions, Ordinary, Step
  <1>2. /\ m.side = side /\ m.from \in Squares /\ m.to \in Squares
        /\ m.captured \in Types \union {"none"}
        /\ \A t \in Types : m.to \notin p.bb[side][t]
        /\ \A t \in Types : t # m.captured => m.to \notin p.bb[inverse(side)][t]
    BY <1>1, TakenFacts
  <1>3. inverse(side) \in Sides /\ inverse(side) # side
    BY <1>1, SideFacts
  <1>4. /\ r \in Positions /\ SameFrame(r, p)
        /\ \A t \in Types, q \in Squares :
             /\ q \in r.bb[side][t] <=>
                  \/ q \in p.bb[side][t] /\ ~(t = m.type /\ q = m.from)
                  \/ t = m.type /\ q = m.to
             /\ q \in r.bb[inverse(side)][t] <=>
                  q \in p.bb[inverse(side)][t] /\ ~(t = m.captured /\ q = m.to)
    <2>1. IsTaken(p, r, m)
      BY <1>1, <1>2, TakenPosition
    <2> HIDE DEF r
    <2> QED
      BY <1>2, <2>1 DEF IsTaken
  <1>5. /\ m.flag \in {"default", "long"} \union Promotions
        /\ m.flag \in Promotions => m.type = "pawn" /\ m.flag # "long"
        /\ m.flag = "long" => m.to = m.from + 2 * Up(side) /\ m.from + Up(side) \in Squares
    BY DEF Ordinary, Promotions
  <1>6. m.flag = "long" => (m.from + m.to) \div 2 = m.from + Up(side)
    <2>1. Up(side) \in {8, -8} /\ m.from \in Int
      BY <1>2 DEF Up, Squares
    <2> QED
      BY <1>5, <2>1
  <1> HIDE DEF r
  <1>7. /\ s \in Positions /\ SameFrame(s, p)
        /\ \A t \in Types, q \in Squares :
             /\ q \in s.bb[side][t] <=>
                  \/ q \in p.bb[side][t] /\ ~(t = m.type /\ q = m.from)
                  \/ t = Landed(m) /\ q = m.to
             /\ q \in s.bb[inverse(side)][t] <=> q \in p.bb[inverse(side)][t] /\ q # m.to
    <2>1. CASE m.flag \notin Promotions
      <3>1. m.flag \in {"default", "long"}
        BY <1>5, <2>1
      <3>2. m.flag # "en_passant" /\ m.flag \notin Rights
        BY <3>1 DEF Rights, Castlings
      <3>3. s = r
        BY <2>1, <3>2, Zenon DEF Special
      <3> QED
        BY <1>2, <1>4, <2>1, <3>3 DEF Landed
    <2>2. CASE m.flag \in Promotions
      <3>1. m.flag # "en_passant" /\ m.flag \notin Rights /\ m.flag \in Types /\ "pawn" \in Types
            /\ m.flag # "pawn"
        BY <2>2 DEF Rights, Castlings, Promotions, Types
      <3> DEFINE u == remove_piece(r, m.to, "pawn", side)
      <3>2. s = add_piece(u, m.to, m.flag, side)
        BY <1>2, <2>2, <3>1, Zenon DEF Special
      <3>3. IsRemoved(r, u, m.to, "pawn", side)
        BY <1>1, <1>2, <1>4, <3>1, RemoveFacts
      <3> HIDE DEF u
      <3>4. IsAdded(u, s, m.to, m.flag, side)
        <4>1. u \in Positions
          BY <3>3 DEF IsRemoved
        <4> QED
          BY <1>1, <1>2, <3>1, <3>2, <4>1, AddFacts
      <3> HIDE DEF s
      <3>5. s \in Positions /\ SameFrame(s, p)
        BY <1>4, <3>3, <3>4 DEF SameFrame, IsRemoved, IsAdded
      <3>6. ASSUME NEW t \in Types, NEW q \in Squares
            PROVE  q \in s.bb[side][t] <=>
                     \/ q \in p.bb[side][t] /\ ~(t = m.type /\ q = m.from)
                     \/ t = Landed(m) /\ q = m.to
        BY <1>1, <1>2, <1>4, <1>5, <2>2, <3>1, <3>3, <3>4 DEF Landed, IsRemoved, IsAdded
      <3>7. ASSUME NEW t \in Types, NEW q \in Squares
            PROVE  q \in s.bb[inverse(side)][t] <=> q \in p.bb[inverse(side)][t] /\ q # m.to
        BY <1>2, <1>3, <1>4, <3>3, <3>4 DEF IsRemoved, IsAdded
      <3> QED
        BY <3>5, <3>6, <3>7
    <2> QED
      BY <2>1, <2>2
  <1>8. /\ Moved(p, m) \in Positions /\ Moved(p, m).bb = s.bb /\ Moved(p, m).turn = inverse(p.turn)
        /\ Moved(p, m).rights = p.rights \ Lost(m.from)
        /\ Moved(p, m).ep = IF m.flag = "long" THEN (m.from + m.to) \div 2 ELSE NoSquare
    BY <1>1, <1>2, <1>5, <1>6, <1>7, MovedFacts DEF r
  <1> QED
    BY <1>6, <1>7, <1>8

\* The table of castlings: one per right, the king and the rook end on two of the
\* squares that must be empty, the king on one that must not be attacked.
LEMMA CastlingFacts ==
  \A c \in Castlings :
    /\ c.side \in Sides /\ c.right \in Rights
    /\ {c.from, c.to, c.rook, c.rookTo} \subseteq Squares
    /\ c.to \in c.empty /\ c.rookTo \in c.empty /\ c.to \in c.safe
    /\ c.to # c.rookTo /\ c.to # c.rook /\ c.to # c.from
    /\ c.right \notin Promotions \union {"en_passant", "long"}
    /\ c = CHOOSE d \in Castlings : d.right = c.right
    /\ \A d \in Castlings : d.side = c.side => d.from = c.from
  <1>1. \A c, d \in Castlings : d.right = c.right => d = c
    BY DEF Castlings
  <1>2. \A c \in Castlings : c = CHOOSE d \in Castlings : d.right = c.right
    BY <1>1
  <1>3. \A c \in Castlings :
          /\ c.side \in Sides /\ c.right \in Rights
          /\ {c.from, c.to, c.rook, c.rookTo} \subseteq Squares
          /\ c.to \in c.empty /\ c.rookTo \in c.empty /\ c.to \in c.safe
          /\ c.to # c.rookTo /\ c.to # c.rook /\ c.to # c.from
          /\ c.right \notin Promotions \union {"en_passant", "long"}
    BY DEF Castlings, Rights, Sides, Squares, Promotions
  <1>4. \A c, d \in Castlings : d.side = c.side => d.from = c.from
    BY DEF Castlings
  <1> QED
    BY <1>2, <1>3, <1>4

\* The position after a castling; the king or the rook may be missing.
LEMMA CastledMoved ==
  ASSUME NEW p \in Positions, NEW c \in Castlings, c.side = p.turn,
         NEW m, m = Move(c.from, c.to, "king", p.turn, "none", c.right)
  PROVE  /\ Moved(p, m) \in Positions
         /\ \A t \in Types, q \in Squares :
              /\ q \in Moved(p, m).bb[p.turn][t] <=>
                   \/ /\ q \in p.bb[p.turn][t]
                      /\ ~(t = "king" /\ q = c.from) /\ ~(t = "rook" /\ q = c.rook)
                   \/ t = "king" /\ q = c.to
                   \/ t = "rook" /\ q = c.rookTo
              /\ q \in Moved(p, m).bb[inverse(p.turn)][t] <=> q \in p.bb[inverse(p.turn)][t]
         /\ Moved(p, m).turn = inverse(p.turn)
         /\ Moved(p, m).rights = p.rights \ Lost(c.from)
         /\ Moved(p, m).ep = NoSquare
  <1> DEFINE side == p.turn
             r == Taken(p, m)
             u == remove_piece(r, c.rook, "rook", side)
             s == Special(r, m)
  <1>1. /\ m.from = c.from /\ m.to = c.to /\ m.type = "king" /\ m.side = side
        /\ m.captured = "none" /\ m.flag = c.right
    BY DEF Move
  <1>2. /\ side \in Sides /\ inverse(side) \in Sides /\ inverse(side) # side
        /\ "king" \in Types /\ "rook" \in Types /\ "none" \notin Types
    BY SideFacts DEF Positions, Types
  <1>3. /\ c.from \in Squares /\ c.to \in Squares /\ c.rook \in Squares /\ c.rookTo \in Squares
        /\ c.right \in Rights /\ c.right # "en_passant" /\ c.right # "long"
        /\ c = CHOOSE d \in Castlings : d.right = c.right
        /\ c.rookTo # c.rook
    <2>1. \A d \in Castlings : d.rookTo # d.rook
      BY DEF Castlings
    <2> QED
      BY <2>1, CastlingFacts
  <1>4. /\ r \in Positions /\ SameFrame(r, p)
        /\ \A t \in Types, q \in Squares :
             /\ q \in r.bb[side][t] <=>
                  \/ q \in p.bb[side][t] /\ ~(t = "king" /\ q = c.from)
                  \/ t = "king" /\ q = c.to
             /\ q \in r.bb[inverse(side)][t] <=> q \in p.bb[inverse(side)][t]
    <2>1. IsTaken(p, r, m)
      BY <1>1, <1>2, <1>3, TakenPosition
    <2> HIDE DEF r
    <2> QED
      BY <1>1, <1>2, <2>1 DEF IsTaken
  <1>5. s = add_piece(u, c.rookTo, "rook", side)
    <2> DEFINE d == CHOOSE e \in Castlings : e.right = m.flag
    <2>1. m.flag \in Rights /\ m.flag # "en_passant" /\ m.flag \notin Promotions
      BY <1>1, <1>3, CastlingFacts
    <2>2. s = add_piece(remove_piece(r, d.rook, "rook", m.side), d.rookTo, "rook", m.side)
      BY <2>1, Zenon DEF Special
    <2>3. c = d
      BY <1>1, <1>3
    <2> HIDE DEF d, r, s
    <2> QED
      BY <1>1, <2>2, <2>3
  <1> HIDE DEF r
  <1>6. IsRemoved(r, u, c.rook, "rook", side)
    BY <1>2, <1>3, <1>4, RemoveFacts
  <1> HIDE DEF u
  <1>7. IsAdded(u, s, c.rookTo, "rook", side)
    <2>1. u \in Positions
      BY <1>6 DEF IsRemoved
    <2> QED
      BY <1>2, <1>3, <1>5, <2>1, AddFacts
  <1> HIDE DEF s
  <1>8. s \in Positions /\ SameFrame(s, p)
    BY <1>4, <1>6, <1>7 DEF SameFrame, IsRemoved, IsAdded
  <1>9. ASSUME NEW t \in Types, NEW q \in Squares
        PROVE  /\ q \in s.bb[side][t] <=>
                    \/ /\ q \in p.bb[side][t]
                       /\ ~(t = "king" /\ q = c.from) /\ ~(t = "rook" /\ q = c.rook)
                    \/ t = "king" /\ q = c.to
                    \/ t = "rook" /\ q = c.rookTo
               /\ q \in s.bb[inverse(side)][t] <=> q \in p.bb[inverse(side)][t]
    BY <1>2, <1>3, <1>4, <1>6, <1>7 DEF IsRemoved, IsAdded
  <1>10. /\ Moved(p, m) \in Positions /\ Moved(p, m).bb = s.bb /\ Moved(p, m).turn = inverse(p.turn)
         /\ Moved(p, m).rights = p.rights \ Lost(m.from)
         /\ Moved(p, m).ep = NoSquare
    BY <1>1, <1>2, <1>3, <1>8, MovedFacts DEF r, s
  <1> QED
    BY <1>1, <1>9, <1>10

-----------------------------------------------------------------------------
(* The invariant of positions.                                             *)

\* The pawns stand between their last rows.
PawnRows(bb) == \A side \in Sides : \A p \in bb[side]["pawn"] : Row(p) \in 1 .. 6

\* Inductive: the promotions keep the rows, the home of the king keeps castlings
\* apart, the en passant square never opens its branch.
PositionInv(p) ==
  /\ p \in Positions
  /\ Apart(p.bb)
  /\ PawnRows(p.bb)
  /\ EpOK(p.ep, p.turn)
  /\ KingHome(p.bb, p.rights)

\* It holds of the positions to begin with,
LEMMA NewPositionInv ==
  ASSUME NEW s, StartOK(s)
  PROVE  PositionInv(NewPosition(s))
  <1>1. KeyOf(s.bb, s.turn = "black", s.rights) \in
          [men : SUBSET (Squares \X Types \X Sides), black : BOOLEAN, rights : SUBSET Rights]
    BY DEF KeyOf, StartOK
  <1>2. NewPosition(s) \in Positions
    BY <1>1 DEF NewPosition, Positions, Boards, StartOK
  <1>3. /\ NewPosition(s).bb = s.bb /\ NewPosition(s).rights = s.rights
        /\ NewPosition(s).ep = NoSquare
    BY DEF NewPosition
  <1>4. Apart(s.bb) /\ PawnRows(s.bb) /\ KingHome(s.bb, s.rights)
    BY DEF StartOK, Apart, PawnRows, KingHome
  <1> QED
    BY <1>2, <1>3, <1>4 DEF PositionInv, EpOK

\* What the generator makes of a position.
LEMMA GeneratedHere ==
  ASSUME NEW p, PositionInv(p), NEW m \in generate_moves(p)
  PROVE  Ordinary(p.bb, p.turn, m) \/ Castled(p.bb, p.turn, p.rights, m)
  <1>1. p.bb \in Boards /\ p.turn \in Sides /\ Apart(p.bb) /\ EpOK(p.ep, p.turn)
    BY DEF PositionInv, Positions
  <1>2. m \in generate_all_moves(p.bb, p.turn, p.ep, p.rights)
    BY DEF generate_moves
  <1> QED
    BY <1>1, <1>2, GeneratedMoves

\* Both sides of a board after a step, whatever the man has become, are apart.
LEMMA OrdinaryApart ==
  ASSUME NEW p, PositionInv(p), NEW m, Ordinary(p.bb, p.turn, m)
  PROVE  Apart(Moved(p, m).bb)
  <1> DEFINE b == Moved(p, m).bb
             side == p.turn
  <1>1. p \in Positions /\ p.bb \in Boards /\ side \in Sides /\ Apart(p.bb) /\ Step(p.bb, side, m)
    BY DEF PositionInv, Positions, Ordinary
  <1>2. b \in Boards
    BY <1>1, OrdinaryMoved DEF Positions
  <1>3. \A t \in Types, q \in Squares :
          /\ q \in b[side][t] <=>
               \/ q \in p.bb[side][t] /\ ~(t = m.type /\ q = m.from)
               \/ t = Landed(m) /\ q = m.to
          /\ q \in b[inverse(side)][t] <=> q \in p.bb[inverse(side)][t] /\ q # m.to
    BY <1>1, OrdinaryMoved
  <1>4. \A t \in Types : m.to \notin p.bb[side][t]
    BY <1>1, TakenFacts
  <1> HIDE DEF b
  <1> SUFFICES ASSUME NEW s1 \in Sides, NEW s2 \in Sides, NEW t1 \in Types, NEW t2 \in Types,
                      <<s1, t1>> # <<s2, t2>>, NEW x, x \in b[s1][t1], x \in b[s2][t2]
               PROVE  FALSE
    BY DEF Apart, b
  <1>5. x \in Squares
    BY <1>2 DEF Boards
  <1>6. ~(x \in p.bb[s1][t1] /\ x \in p.bb[s2][t2])
    BY <1>1 DEF Apart
  <1>7. s1 \in {side, inverse(side)} /\ s2 \in {side, inverse(side)}
    BY <1>1 DEF Sides, inverse
  <1>8. CASE s1 = side /\ s2 = side
    BY <1>3, <1>4, <1>5, <1>6, <1>8
  <1>9. CASE s1 = side /\ s2 = inverse(side)
    BY <1>3, <1>4, <1>5, <1>6, <1>9
  <1>10. CASE s1 = inverse(side) /\ s2 = side
    BY <1>3, <1>4, <1>5, <1>6, <1>10
  <1>11. CASE s1 = inverse(side) /\ s2 = inverse(side)
    BY <1>3, <1>5, <1>6, <1>11
  <1> QED
    BY <1>7, <1>8, <1>9, <1>10, <1>11

\* it is kept by a step or a promotion,
LEMMA OrdinaryInv ==
  ASSUME NEW p, PositionInv(p), NEW m, Ordinary(p.bb, p.turn, m)
  PROVE  PositionInv(Moved(p, m))
  <1> DEFINE r == Moved(p, m)
             side == p.turn
  <1>1. p \in Positions /\ p.bb \in Boards /\ side \in Sides /\ Apart(p.bb) /\ Step(p.bb, side, m)
    BY DEF PositionInv, Positions, Ordinary
  <1>2. r \in Positions
    BY <1>1, OrdinaryMoved
  <1>3. \A t \in Types, q \in Squares :
          /\ q \in r.bb[side][t] <=>
               \/ q \in p.bb[side][t] /\ ~(t = m.type /\ q = m.from)
               \/ t = Landed(m) /\ q = m.to
          /\ q \in r.bb[inverse(side)][t] <=> q \in p.bb[inverse(side)][t] /\ q # m.to
    BY <1>1, OrdinaryMoved
  <1>4. /\ r.turn = inverse(side) /\ r.rights = p.rights \ Lost(m.from)
        /\ r.ep = IF m.flag = "long" THEN m.from + Up(side) ELSE NoSquare
    BY <1>1, OrdinaryMoved
  <1>5. Apart(r.bb)
    BY OrdinaryApart
  <1> HIDE DEF r
  <1>6. \A s \in Sides, t \in Types : r.bb[s][t] \subseteq Squares
    BY <1>2 DEF Positions, Boards
  <1>7. \A s \in Sides : s \in {side, inverse(side)}
    BY <1>1 DEF Sides, inverse
  <1>8. "pawn" \in Types /\ "king" \in Types /\ m.to \in Squares
    BY <1>1 DEF Types, Step
  <1>9. PawnRows(r.bb)
    <2> SUFFICES ASSUME NEW s \in Sides, NEW q \in r.bb[s]["pawn"] PROVE Row(q) \in 1 .. 6
      BY DEF PawnRows
    <2>1. q \in Squares
      BY <1>6, <1>8
    <2>2. CASE q \in p.bb[s]["pawn"]
      BY <2>2 DEF PositionInv, PawnRows
    <2>3. CASE q \notin p.bb[s]["pawn"]
      <3>1. Landed(m) = "pawn" /\ q = m.to
        BY <1>3, <1>7, <1>8, <2>1, <2>3
      <3>2. m.type = "pawn" /\ m.flag \notin Promotions
        BY <3>1 DEF Landed, Promotions
      <3>3. q \in 8 .. 55
        BY <3>1, <3>2 DEF Ordinary
      <3> QED
        BY <3>3 DEF Row
    <2> QED
      BY <2>2, <2>3
  <1>10. EpOK(r.ep, r.turn)
    <2>1. CASE m.flag = "long"
      BY <1>1, <1>4, <2>1 DEF EpOK, Ordinary, inverse, Sides
    <2>2. CASE m.flag # "long"
      BY <1>4, <2>2 DEF EpOK
    <2> QED
      BY <2>1, <2>2
  <1>11. KingHome(r.bb, r.rights)
    <2> SUFFICES ASSUME NEW c \in Castlings, c.right \in p.rights, c.right \notin Lost(m.from),
                        NEW q \in r.bb[c.side]["king"]
                 PROVE  q = c.from
      BY <1>4 DEF KingHome
    <2>1. c.side \in Sides
      BY CastlingFacts
    <2>2. q \in Squares
      BY <1>6, <1>8, <2>1
    <2>3. p.bb[c.side]["king"] \subseteq {c.from}
      BY DEF PositionInv, KingHome
    <2>4. q \in p.bb[c.side]["king"]
      <3> SUFFICES ASSUME q \notin p.bb[c.side]["king"] PROVE FALSE
        OBVIOUS
      <3>1. c.side = side /\ Landed(m) = "king"
        BY <1>3, <1>7, <1>8, <2>1, <2>2
      <3>2. m.type = "king"
        BY <3>1 DEF Landed, Promotions
      <3>3. m.from = c.from
        BY <1>1, <2>3, <3>1, <3>2 DEF Step
      <3> QED
        BY <3>3 DEF Lost
    <2> QED
      BY <2>3, <2>4
  <1> QED
    BY <1>2, <1>5, <1>9, <1>10, <1>11 DEF PositionInv, r

\* and it is kept by a castling.
LEMMA CastledInv ==
  ASSUME NEW p, PositionInv(p), NEW m, Castled(p.bb, p.turn, p.rights, m)
  PROVE  PositionInv(Moved(p, m))
  <1> DEFINE r == Moved(p, m)
             side == p.turn
  <1>1. p \in Positions /\ p.bb \in Boards /\ side \in Sides /\ Apart(p.bb)
    BY DEF PositionInv, Positions
  <1>2. PICK c \in Castlings : /\ m = Move(c.from, c.to, "king", side, "none", c.right)
                               /\ c.side = side /\ c.right \in p.rights
                               /\ c.empty \subseteq Empty(p.bb)
    BY DEF Castled
  <1>3. /\ r \in Positions
        /\ \A t \in Types, q \in Squares :
             /\ q \in r.bb[side][t] <=>
                  \/ /\ q \in p.bb[side][t]
                     /\ ~(t = "king" /\ q = c.from) /\ ~(t = "rook" /\ q = c.rook)
                  \/ t = "king" /\ q = c.to
                  \/ t = "rook" /\ q = c.rookTo
             /\ q \in r.bb[inverse(side)][t] <=> q \in p.bb[inverse(side)][t]
        /\ r.turn = inverse(side) /\ r.rights = p.rights \ Lost(c.from) /\ r.ep = NoSquare
    BY <1>1, <1>2, CastledMoved
  <1> HIDE DEF r
  <1>4. \A s \in Sides, t \in Types : r.bb[s][t] \subseteq Squares
    BY <1>3 DEF Positions, Boards
  <1>5. \A s \in Sides : s \in {side, inverse(side)}
    BY <1>1 DEF Sides, inverse
  <1>6. "pawn" \in Types /\ "king" \in Types /\ "pawn" # "king" /\ "pawn" # "rook" /\ "king" # "rook"
    BY DEF Types
  <1>7. c.to # c.rookTo
    BY CastlingFacts
  <1>8. \A s \in Sides, t \in Types : c.to \notin p.bb[s][t] /\ c.rookTo \notin p.bb[s][t]
    <2>1. c.to \in Empty(p.bb) /\ c.rookTo \in Empty(p.bb)
      BY <1>2, CastlingFacts
    <2>2. \A s \in Sides, t \in Types : p.bb[s][t] \subseteq All(p.bb)
      BY <1>1, BoardFacts
    <2> QED
      BY <2>1, <2>2 DEF Empty
  <1>9. Apart(r.bb)
    <2> SUFFICES ASSUME NEW s1 \in Sides, NEW s2 \in Sides, NEW t1 \in Types, NEW t2 \in Types,
                        <<s1, t1>> # <<s2, t2>>, NEW x, x \in r.bb[s1][t1], x \in r.bb[s2][t2]
                 PROVE  FALSE
      BY DEF Apart
    <2>1. x \in Squares
      BY <1>4
    <2>2. ~(x \in p.bb[s1][t1] /\ x \in p.bb[s2][t2])
      BY <1>1 DEF Apart
    <2>3. CASE s1 = side /\ s2 = side
      BY <1>3, <1>7, <1>8, <2>1, <2>2, <2>3
    <2>4. CASE s1 = side /\ s2 = inverse(side)
      BY <1>3, <1>8, <2>1, <2>2, <2>4
    <2>5. CASE s1 = inverse(side) /\ s2 = side
      BY <1>3, <1>8, <2>1, <2>2, <2>5
    <2>6. CASE s1 = inverse(side) /\ s2 = inverse(side)
      BY <1>3, <2>1, <2>2, <2>6
    <2> QED
      BY <1>5, <2>3, <2>4, <2>5, <2>6
  <1>10. PawnRows(r.bb)
    <2> SUFFICES ASSUME NEW s \in Sides, NEW q \in r.bb[s]["pawn"] PROVE Row(q) \in 1 .. 6
      BY DEF PawnRows
    <2>1. q \in Squares
      BY <1>4, <1>6
    <2>2. q \in p.bb[s]["pawn"]
      BY <1>3, <1>5, <1>6, <2>1
    <2> QED
      BY <2>2 DEF PositionInv, PawnRows
  <1>11. KingHome(r.bb, r.rights)
    <2> SUFFICES ASSUME NEW d \in Castlings, d.right \in p.rights, d.right \notin Lost(c.from),
                        NEW q \in r.bb[d.side]["king"]
                 PROVE  q = d.from
      BY <1>3 DEF KingHome
    <2>1. d.side # side
      <3>1. d.from # c.from
        BY DEF Lost
      <3> QED
        BY <1>2, <3>1, CastlingFacts
    <2>2. d.side = inverse(side) /\ d.side \in Sides
      BY <1>5, <2>1, CastlingFacts
    <2>3. q \in p.bb[d.side]["king"]
      BY <1>3, <1>4, <1>6, <2>2
    <2> QED
      BY <2>3 DEF PositionInv, KingHome
  <1> QED
    BY <1>3, <1>9, <1>10, <1>11 DEF PositionInv, EpOK, r

LEMMA MovedInv ==
  ASSUME NEW p, PositionInv(p), NEW m \in generate_moves(p)
  PROVE  PositionInv(Moved(p, m))
  BY GeneratedHere, OrdinaryInv, CastledInv

-----------------------------------------------------------------------------
(* The check of apply_move finds nothing that the generator let through.   *)

\* The bit scan of a board with one king.
LEMMA OneKing ==
  ASSUME NEW k \in Squares
  PROVE  bsf({k}) = k
  BY MinFacts DEF bsf

\* The board the filter judged has the same king and the same pawns, knights and
\* king against it as the board of the move, promotions included.
LEMMA OrdinaryStays ==
  ASSUME NEW p, PositionInv(p), NEW m, Ordinary(p.bb, p.turn, m)
  PROVE  ~RolledBack(p, m)
  <1> DEFINE r == Moved(p, m).bb
             side == p.turn
  <1>1. /\ p \in Positions /\ p.bb \in Boards /\ side \in Sides /\ Apart(p.bb)
        /\ Step(p.bb, side, m) /\ m.side = side /\ inverse(side) \in Sides
    BY SideFacts, TakenFacts DEF PositionInv, Positions, Ordinary
  <1>2. PICK b : /\ Stepped(p.bb, b, side, m)
                 /\ ~is_square_attacked(b, bsf(b[side]["king"]), inverse(side))
    BY DEF Ordinary
  <1>3. b \in Boards /\ Apart(b)
    BY <1>1, <1>2, SteppedApart DEF Stepped
  <1>4. r \in Boards /\ Apart(r)
    BY <1>1, OrdinaryMoved, OrdinaryApart DEF Positions
  <1>5. \A t \in Types, q \in Squares :
          /\ q \in r[side][t] <=>
               \/ q \in p.bb[side][t] /\ ~(t = m.type /\ q = m.from)
               \/ t = Landed(m) /\ q = m.to
          /\ q \in r[inverse(side)][t] <=> q \in p.bb[inverse(side)][t] /\ q # m.to
    BY <1>1, OrdinaryMoved
  <1> HIDE DEF r
  <1>6. \A t \in Types : b[inverse(side)][t] = r[inverse(side)][t]
    <2> SUFFICES ASSUME NEW t \in Types PROVE b[inverse(side)][t] = r[inverse(side)][t]
      OBVIOUS
    <2>1. b[inverse(side)][t] \subseteq Squares /\ r[inverse(side)][t] \subseteq Squares
      BY <1>1, <1>3, <1>4 DEF Boards
    <2>2. \A q \in Squares : q \in b[inverse(side)][t] <=> q \in r[inverse(side)][t]
      BY <1>2, <1>5 DEF Stepped
    <2> QED
      BY <2>1, <2>2
  <1>7. b[side]["king"] = r[side]["king"]
    <2>1. "king" \in Types /\ (Landed(m) = "king" <=> m.type = "king")
      BY DEF Ordinary, Landed, Promotions, Types
    <2>2. b[side]["king"] \subseteq Squares /\ r[side]["king"] \subseteq Squares
      BY <1>1, <1>3, <1>4, <2>1 DEF Boards
    <2>3. \A q \in Squares : q \in b[side]["king"] <=> q \in r[side]["king"]
      BY <1>2, <1>5, <2>1 DEF Stepped
    <2> QED
      BY <2>2, <2>3
  <1>8. \A t \in {"pawn", "knight", "king"} : b[inverse(side)][t] = r[inverse(side)][t]
    BY <1>6 DEF Types
  <1>9. ~is_square_attacked(r, bsf(r[side]["king"]), inverse(side))
    BY <1>1, <1>2, <1>3, <1>4, <1>7, <1>8, SameAttacks
  <1> QED
    BY <1>1, <1>9 DEF RolledBack, is_check, r

\* The square a castling takes the king to was not attacked before, and the rook
\* does not matter.
LEMMA CastledStays ==
  ASSUME NEW p, PositionInv(p), NEW m, Castled(p.bb, p.turn, p.rights, m)
  PROVE  ~RolledBack(p, m)
  <1> DEFINE r == Moved(p, m).bb
             side == p.turn
  <1>1. /\ p \in Positions /\ p.bb \in Boards /\ side \in Sides /\ Apart(p.bb)
        /\ inverse(side) \in Sides
    BY SideFacts DEF PositionInv, Positions
  <1>2. PICK c \in Castlings : /\ m = Move(c.from, c.to, "king", side, "none", c.right)
                               /\ c.side = side /\ c.right \in p.rights
                               /\ \A q \in c.safe : ~is_square_attacked(p.bb, q, inverse(side))
    BY DEF Castled
  <1>3. /\ Moved(p, m) \in Positions
        /\ \A t \in Types, q \in Squares :
             /\ q \in r[side][t] <=>
                  \/ /\ q \in p.bb[side][t]
                     /\ ~(t = "king" /\ q = c.from) /\ ~(t = "rook" /\ q = c.rook)
                  \/ t = "king" /\ q = c.to
                  \/ t = "rook" /\ q = c.rookTo
             /\ q \in r[inverse(side)][t] <=> q \in p.bb[inverse(side)][t]
    BY <1>1, <1>2, CastledMoved
  <1>4. r \in Boards /\ Apart(r)
    BY <1>3, CastledInv DEF PositionInv, Positions
  <1> HIDE DEF r
  <1>5. \A t \in Types : p.bb[inverse(side)][t] = r[inverse(side)][t]
    <2> SUFFICES ASSUME NEW t \in Types PROVE p.bb[inverse(side)][t] = r[inverse(side)][t]
      OBVIOUS
    <2>1. p.bb[inverse(side)][t] \subseteq Squares /\ r[inverse(side)][t] \subseteq Squares
      BY <1>1, <1>4 DEF Boards
    <2> QED
      BY <1>3, <2>1
  <1>6. c.to \in Squares /\ c.to \in c.safe
    BY CastlingFacts
  <1>7. r[side]["king"] = {c.to}
    <2>1. p.bb[side]["king"] \subseteq {c.from}
      BY <1>2 DEF PositionInv, KingHome
    <2>2. "king" \in Types /\ "king" # "rook"
      BY DEF Types
    <2>3. r[side]["king"] \subseteq Squares
      BY <1>1, <1>4, <2>2 DEF Boards
    <2> QED
      BY <1>3, <1>6, <2>1, <2>2, <2>3
  <1>8. \A t \in {"pawn", "knight", "king"} : p.bb[inverse(side)][t] = r[inverse(side)][t]
    BY <1>5 DEF Types
  <1>9. ~is_square_attacked(r, c.to, inverse(side))
    BY <1>1, <1>2, <1>4, <1>6, <1>8, SameAttacks
  <1>10. m.side = side
    BY <1>2 DEF Move
  <1> QED
    BY <1>6, <1>7, <1>9, <1>10, OneKing DEF RolledBack, is_check, r

LEMMA NeverUndone ==
  ASSUME NEW p, PositionInv(p), NEW m \in generate_moves(p)
  PROVE  ~RolledBack(p, m)
  BY GeneratedHere, OrdinaryStays, CastledStays

-----------------------------------------------------------------------------
(* Keys and repetition.                                                    *)

\* The key of a position knows the side to move and every man but the pawns: an
\* en passant square enters it as a pawn and may leave it as another one.
KeyFollows(p) ==
  /\ p.key.black <=> p.turn = "black"
  /\ \A q \in Squares, t \in Types \ {"pawn"}, s \in Sides :
       <<q, t, s>> \in p.key.men <=> q \in p.bb[s][t]

\* r differs from p by steps of apply_move that keep the key true.
KeyKept(p, r) == r \in Positions /\ r.turn = p.turn /\ (KeyFollows(p) => KeyFollows(r))

\* InvertPiece changes the one constant.
LEMMA InvertPieceKey ==
  ASSUME NEW p \in Positions, NEW square \in Squares, NEW type \in Types, NEW side \in Sides
  PROVE  LET r == InvertPiece(p, square, type, side)
         IN  /\ r.key.black = p.key.black
             /\ \A q \in Squares, t \in Types, s \in Sides :
                  <<q, t, s>> \in r.key.men <=>
                    IF q = square /\ t = type /\ s = side THEN <<q, t, s>> \notin p.key.men
                    ELSE <<q, t, s>> \in p.key.men
  <1> DEFINE e == <<square, type, side>>
             men == Toggle(p.key.men, e)
             k == [p.key EXCEPT !.men = men]
  <1>1. k.men = men /\ k.black = p.key.black
    BY DEF Positions
  <1>2. InvertPiece(p, square, type, side).key = k
    BY DEF InvertPiece, Positions
  <1>3. \A q \in Squares, t \in Types, s \in Sides :
          <<q, t, s>> \in men <=>
            IF q = square /\ t = type /\ s = side THEN <<q, t, s>> \notin p.key.men
            ELSE <<q, t, s>> \in p.key.men
    BY DEF Toggle
  <1> QED
    BY <1>1, <1>2, <1>3

LEMMA RemoveKey ==
  ASSUME NEW p \in Positions, NEW square \in Squares, NEW type \in Types, NEW side \in Sides
  PROVE  KeyKept(p, remove_piece(p, square, type, side))
  <1>1. CASE square \notin p.bb[side][type]
    BY <1>1 DEF remove_piece, KeyKept
  <1>2. CASE square \in p.bb[side][type]
    <2> DEFINE n == [p EXCEPT !.bb = Clear(p.bb, side, type, square)]
               r == remove_piece(p, square, type, side)
    <2>1. p.bb \in Boards
      BY DEF Positions
    <2>2. n \in Positions /\ n.key = p.key /\ n.turn = p.turn
      BY <2>1, ClearFacts DEF Positions
    <2>3. r = InvertPiece(n, square, type, side)
      BY <1>2 DEF remove_piece
    <2>4. IsRemoved(p, r, square, type, side)
      BY RemoveFacts
    <2> HIDE DEF n
    <2>5. /\ r.key.black = n.key.black
          /\ \A q \in Squares, t \in Types, s \in Sides :
               <<q, t, s>> \in r.key.men <=>
                 IF q = square /\ t = type /\ s = side THEN <<q, t, s>> \notin n.key.men
                 ELSE <<q, t, s>> \in n.key.men
      BY <2>2, <2>3, InvertPieceKey
    <2> HIDE DEF r
    <2> QED
      BY <1>2, <2>2, <2>4, <2>5 DEF IsRemoved, SameFrame, KeyKept, KeyFollows, r
  <1> QED
    BY <1>1, <1>2

LEMMA AddKey ==
  ASSUME NEW p \in Positions, NEW square \in Squares, NEW type \in Types, NEW side \in Sides
  PROVE  KeyKept(p, add_piece(p, square, type, side))
  <1>1. CASE square \in p.bb[side][type]
    BY <1>1 DEF add_piece, KeyKept
  <1>2. CASE square \notin p.bb[side][type]
    <2> DEFINE n == [p EXCEPT !.bb = Set(p.bb, side, type, square)]
               r == add_piece(p, square, type, side)
    <2>1. p.bb \in Boards
      BY DEF Positions
    <2>2. n \in Positions /\ n.key = p.key /\ n.turn = p.turn
      BY <2>1, SetFacts DEF Positions
    <2>3. r = InvertPiece(n, square, type, side)
      BY <1>2 DEF add_piece
    <2>4. IsAdded(p, r, square, type, side)
      BY AddFacts
    <2> HIDE DEF n
    <2>5. /\ r.key.black = n.key.black
          /\ \A q \in Squares, t \in Types, s \in Sides :
               <<q, t, s>> \in r.key.men <=>
                 IF q = square /\ t = type /\ s = side THEN <<q, t, s>> \notin n.key.men
                 ELSE <<q, t, s>> \in n.key.men
      BY <2>2, <2>3, InvertPieceKey
    <2> HIDE DEF r
    <2> QED
      BY <1>2, <2>2, <2>4, <2>5 DEF IsAdded, SameFrame, KeyKept, KeyFollows, r
  <1> QED
    BY <1>1, <1>2

\* The castling rights are kept apart from the men.
LEMMA RightsKey ==
  ASSUME NEW p \in Positions, NEW from
  PROVE  KeyKept(p, update_castling_rights(p, from))
  <1> DEFINE r == update_castling_rights(p, from)
  <1>1. r \in Positions /\ r.bb = p.bb /\ r.turn = p.turn
    BY RightsFacts
  <1>2. r.key.men = p.key.men /\ r.key.black = p.key.black
    BY DEF update_castling_rights, Positions
  <1> HIDE DEF r
  <1> QED
    BY <1>1, <1>2 DEF KeyKept, KeyFollows, r

\* The en passant square only touches the constants of pawns.
LEMMA EnPassantKey ==
  ASSUME NEW p \in Positions, NEW m, m.side \in Sides,
         m.flag = "long" => (m.from + m.to) \div 2 \in Squares
  PROVE  KeyKept(p, update_en_passant(p, m))
  <1> DEFINE r == update_en_passant(p, m)
  <1>1. "pawn" \in Types /\ inverse(m.side) \in Sides
    BY SideFacts DEF Types
  <1>2. r \in Positions /\ r.bb = p.bb /\ r.turn = p.turn
    BY EnPassantFacts
  <1>3. ASSUME NEW ep \in Squares \union {NoSquare}, NEW square \in Squares,
               r = InvertPiece([p EXCEPT !.ep = ep], square, "pawn", inverse(m.side))
        PROVE  KeyKept(p, r)
    <2> DEFINE n == [p EXCEPT !.ep = ep]
    <2>1. n \in Positions /\ n.key = p.key
      BY DEF Positions
    <2> HIDE DEF n, r
    <2>2. r = InvertPiece(n, square, "pawn", inverse(m.side))
      BY <1>3 DEF n
    <2>3. /\ r.key.black = n.key.black
          /\ \A q \in Squares, t \in Types, s \in Sides :
               <<q, t, s>> \in r.key.men <=>
                 IF q = square /\ t = "pawn" /\ s = inverse(m.side) THEN <<q, t, s>> \notin n.key.men
                 ELSE <<q, t, s>> \in n.key.men
      BY <1>1, <2>1, <2>2, InvertPieceKey
    <2> QED
      BY <1>2, <2>1, <2>3 DEF KeyKept, KeyFollows
  <1>4. CASE m.flag = "long"
    BY <1>3, <1>4 DEF update_en_passant
  <1>5. CASE m.flag # "long" /\ p.ep # NoSquare
    <2>1. p.ep \in Squares
      BY <1>5 DEF Positions
    <2> QED
      BY <1>3, <1>5, <2>1 DEF update_en_passant
  <1>6. CASE m.flag # "long" /\ p.ep = NoSquare
    BY <1>6 DEF update_en_passant, KeyKept
  <1> QED
    BY <1>4, <1>5, <1>6

\* The switch over the flags, the en passant capture apart.
LEMMA SpecialKey ==
  ASSUME NEW p \in Positions, NEW m, m.to \in Squares, m.side \in Sides, m.flag # "en_passant"
  PROVE  KeyKept(p, Special(p, m))
  <1>1. CASE m.flag \in Rights
    <2> DEFINE c == CHOOSE d \in Castlings : d.right = m.flag
               u == remove_piece(p, c.rook, "rook", m.side)
    <2>1. c \in Castlings
      BY <1>1 DEF Rights
    <2>2. c.rook \in Squares /\ c.rookTo \in Squares /\ "rook" \in Types
      BY <2>1, CastlingFacts DEF Types
    <2>3. m.flag \notin Promotions
      BY <1>1 DEF Rights, Castlings, Promotions
    <2>4. Special(p, m) = add_piece(u, c.rookTo, "rook", m.side)
      BY <1>1, <2>3, Zenon DEF Special
    <2> HIDE DEF c
    <2>5. KeyKept(p, u)
      BY <2>2, RemoveKey
    <2> HIDE DEF u
    <2>6. KeyKept(u, Special(p, m))
      BY <2>2, <2>4, <2>5, AddKey DEF KeyKept
    <2> QED
      BY <2>5, <2>6 DEF KeyKept
  <1>2. CASE m.flag \in Promotions
    <2> DEFINE u == remove_piece(p, m.to, "pawn", m.side)
    <2>1. m.flag \notin Rights /\ m.flag \in Types /\ "pawn" \in Types
      BY <1>2 DEF Rights, Castlings, Promotions, Types
    <2>2. Special(p, m) = add_piece(u, m.to, m.flag, m.side)
      BY <1>2, <2>1, Zenon DEF Special
    <2>3. KeyKept(p, u)
      BY <2>1, RemoveKey
    <2> HIDE DEF u
    <2>4. KeyKept(u, Special(p, m))
      BY <2>1, <2>2, <2>3, AddKey DEF KeyKept
    <2> QED
      BY <2>3, <2>4 DEF KeyKept
  <1>3. CASE m.flag \notin Rights \union Promotions
    <2>1. Special(p, m) = p
      BY <1>3, Zenon DEF Special
    <2> QED
      BY <2>1 DEF KeyKept
  <1> QED
    BY <1>1, <1>2, <1>3

\* So does a whole move.
LEMMA MovedKey ==
  ASSUME NEW p \in Positions, KeyFollows(p), NEW m, m.from \in Squares, m.to \in Squares,
         m.type \in Types, m.side \in Sides, m.captured \in Types \union {"none"},
         m.flag # "en_passant", m.flag = "long" => (m.from + m.to) \div 2 \in Squares
  PROVE  KeyFollows(Moved(p, m))
  <1> DEFINE gone == remove_piece(p, m.from, m.type, m.side)
             placed == add_piece(gone, m.to, m.type, m.side)
             taken == Taken(p, m)
             a == Special(taken, m)
             b == update_castling_rights(a, m.from)
             c == update_en_passant(b, m)
  <1>1. KeyKept(p, gone)
    BY RemoveKey
  <1>2. taken = IF m.captured = "none" THEN placed
                ELSE remove_piece(placed, m.to, m.captured, inverse(m.side))
    BY DEF Taken
  <1>3. Moved(p, m) = InvertSide(c)
    BY DEF Moved, Taken
  <1> HIDE DEF gone
  <1>4. KeyKept(gone, placed)
    BY <1>1, AddKey DEF KeyKept
  <1> HIDE DEF placed, taken
  <1>5. KeyKept(placed, taken)
    <2>1. CASE m.captured = "none"
      BY <1>2, <1>4, <2>1 DEF KeyKept
    <2>2. CASE m.captured # "none"
      BY <1>2, <1>4, <2>2, RemoveKey, SideFacts DEF KeyKept
    <2> QED
      BY <2>1, <2>2
  <1>6. KeyKept(taken, a)
    BY <1>5, SpecialKey DEF KeyKept
  <1> HIDE DEF a
  <1>7. KeyKept(a, b)
    BY <1>6, RightsKey DEF KeyKept
  <1> HIDE DEF b
  <1>8. KeyKept(b, c)
    BY <1>7, EnPassantKey DEF KeyKept
  <1> HIDE DEF c
  <1>9. c \in Positions /\ KeyFollows(c)
    BY <1>1, <1>4, <1>5, <1>6, <1>7, <1>8 DEF KeyKept
  <1>10. /\ InvertSide(c).bb = c.bb /\ InvertSide(c).turn = inverse(c.turn)
         /\ InvertSide(c).key.men = c.key.men /\ InvertSide(c).key.black = ~c.key.black
    BY <1>9 DEF InvertSide, Positions
  <1>11. c.turn \in Sides
    BY <1>9 DEF Positions
  <1> QED
    BY <1>3, <1>9, <1>10, <1>11 DEF KeyFollows, inverse, Sides

-----------------------------------------------------------------------------
(* Games.                                                                  *)

\* The inductive invariant of games.
EngineInv ==
  /\ PositionInv(pos)
  /\ clock \in Nat
  /\ result \in Results

LEMMA OutcomeIsResult ==
  ASSUME NEW p, NEW c, NEW h
  PROVE  Outcome(p, c, h) \in Results
  BY DEF Outcome, Results

LEMMA EngineInvInit == Init => EngineInv
  <1> SUFFICES ASSUME Init PROVE EngineInv
    OBVIOUS
  <1>1. PICK s \in Start : pos = NewPosition(s) /\ clock = s.clock
    BY DEF Init
  <1>2. StartOK(s)
    BY StartAssumption
  <1>3. PositionInv(pos)
    BY <1>1, <1>2, NewPositionInv
  <1>4. clock \in Nat
    BY <1>1, <1>2 DEF StartOK
  <1>5. result \in Results
    BY DEF Init, Results
  <1> QED
    BY <1>3, <1>4, <1>5 DEF EngineInv

LEMMA EngineInvNext == EngineInv /\ [Next]_vars => EngineInv'
  <1> SUFFICES ASSUME EngineInv, [Next]_vars PROVE EngineInv'
    OBVIOUS
  <1>1. CASE Next
    <2>1. PICK rq : on_move(generate_moves(pos), rq)
      BY <1>1 DEF Next
    <2>2. PICK m \in Named(generate_moves(pos), rq) : apply_move(m)
      BY <2>1 DEF on_move
    <2>3. m \in generate_moves(pos)
      BY DEF Named
    <2>4. PositionInv(pos')
      BY <2>2, <2>3, MovedInv DEF apply_move, EngineInv
    <2>5. clock' \in Nat
      BY <2>2 DEF apply_move, EngineInv
    <2>6. result' \in Results
      BY <2>1, OutcomeIsResult DEF on_move
    <2> QED
      BY <2>4, <2>5, <2>6 DEF EngineInv
  <1>2. CASE UNCHANGED vars
    BY <1>2 DEF vars, EngineInv
  <1> QED
    BY <1>1, <1>2

\* The positions a game of on_move goes through keep the invariant.
THEOREM EngineInvariant == Spec => []EngineInv
  BY EngineInvInit, EngineInvNext, PTL DEF Spec

\* The type invariant: the key stays a set of constants of the table, the en
\* passant square a square or none.
THEOREM EngineTyped == Spec => []TypeOK
  <1>1. EngineInv => TypeOK
    BY DEF EngineInv, PositionInv, Positions, Boards, TypeOK
  <1> QED
    BY <1>1, EngineInvariant, PTL

\* Whatever is moved, captured, castled and promoted, the twelve bitboards of
\* Pieces never overlap.
THEOREM MenStandApart == Spec => []OneManPerSquare
  <1>1. EngineInv => OneManPerSquare
    BY DEF EngineInv, PositionInv, Apart, OneManPerSquare
  <1> QED
    BY <1>1, EngineInvariant, PTL

\* No pawn of either side ever stands on the first or the last row.
THEOREM PawnsPromote == Spec => []NoPawnOnLastRow
  <1>1. EngineInv => NoPawnOnLastRow
    BY DEF EngineInv, PositionInv, PawnRows, NoPawnOnLastRow
  <1> QED
    BY <1>1, EngineInvariant, PTL

\* apply_move never takes back a generated move: "Move failed" is never sent.
THEOREM MovesStand == Spec => []NeverRolledBack
  <1>1. EngineInv => NeverRolledBack
    BY NeverUndone DEF EngineInv, NeverRolledBack
  <1> QED
    BY <1>1, EngineInvariant, PTL

\* A generated move, castling apart, is one that the rules know of for that man
\* on that board, and the man it takes is named right: the masks never jump a man,
\* wrap around the edge or end on an own one.
THEOREM MovesFollowRules == Spec => []MovesObeyRules
  <1>1. EngineInv => MovesObeyRules
    <2> SUFFICES ASSUME EngineInv, BothKings, NEW m \in generate_moves(pos)
                 PROVE  /\ m.from \in pos.bb[pos.turn][m.type]
                        /\ m.flag \notin Rights =>
                             /\ Reaches(pos.bb, pos.turn, m.type, m.from, m.to)
                             /\ m.captured = TypeAt(pos.bb, inverse(pos.turn), m.to)
      BY Zenon DEF MovesObeyRules
    <2>1. PositionInv(pos) /\ pos.bb[pos.turn]["king"] # {}
      BY DEF EngineInv, PositionInv, Positions, BothKings
    <2>2. CASE Ordinary(pos.bb, pos.turn, m)
      BY <2>2 DEF Ordinary, Step
    <2>3. CASE Castled(pos.bb, pos.turn, pos.rights, m)
      <3>1. PICK c \in Castlings : /\ m = Move(c.from, c.to, "king", pos.turn, "none", c.right)
                                   /\ c.side = pos.turn /\ c.right \in pos.rights
        BY <2>3 DEF Castled
      <3>2. m.from = c.from /\ m.type = "king" /\ m.flag = c.right
        BY <3>1 DEF Move
      <3>3. m.flag \in Rights
        BY <3>2 DEF Rights
      <3>4. c.from \in pos.bb[pos.turn]["king"]
        BY <2>1, <3>1 DEF PositionInv, KingHome
      <3> QED
        BY <3>2, <3>3, <3>4
    <2> QED
      BY <2>1, <2>2, <2>3, GeneratedHere
  <1> QED
    BY <1>1, EngineInvariant, PTL

\* A game that is over by checkmate ended on a position is_checkmate holds in.
MateStands == result = "checkmate" => is_checkmate(pos)

LEMMA MateStandsAlways == Spec => []MateStands
  <1>1. Init => MateStands
    BY DEF Init, MateStands
  <1>2. MateStands /\ [Next]_vars => MateStands'
    <2> SUFFICES ASSUME MateStands, [Next]_vars PROVE MateStands'
      OBVIOUS
    <2>1. CASE Next
      <3>1. result' = Outcome(pos', clock', history')
        BY <2>1 DEF Next, on_move
      <3>2. result' = "checkmate" => is_checkmate(pos')
        BY <3>1 DEF Outcome
      <3> QED
        BY <3>2 DEF MateStands, is_checkmate, generate_moves
    <2>2. CASE UNCHANGED vars
      BY <2>2 DEF vars, MateStands, is_checkmate, generate_moves
    <2> QED
      BY <2>1, <2>2
  <1> QED
    BY <1>1, <1>2, PTL DEF Spec

\* Nobody is declared mated whose king is not attacked, or whom a move by the rules
\* would save that is no capture in passing: those are never generated, so a long
\* pawn step that only such a capture answers is declared mate.
THEOREM MatesAreMates == Spec => []MateIsMate
  <1>1. EngineInv /\ MateStands => MateIsMate
    <2> SUFFICES ASSUME EngineInv, is_checkmate(pos)
                 PROVE  InCheck(pos.bb, pos.turn) /\ RuleMoves(pos.bb, pos.turn) = {}
      BY DEF MateStands, MateIsMate
    <2>1. pos.bb \in Boards /\ Apart(pos.bb) /\ pos.turn \in Sides
      BY DEF EngineInv, PositionInv, Positions
    <2>2. /\ pos.bb[pos.turn]["king"] # {} /\ generate_moves(pos) = {}
          /\ is_square_attacked(pos.bb, bsf(pos.bb[pos.turn]["king"]), inverse(pos.turn))
      BY DEF is_checkmate, is_check
    <2>3. InCheck(pos.bb, pos.turn)
      BY <2>1, <2>2, CheckIsReal
    <2>4. RuleMoves(pos.bb, pos.turn) = {}
      BY <2>1, <2>2, RuleMovesAreGenerated DEF generate_moves
    <2> QED
      BY <2>3, <2>4
  <1> QED
    BY <1>1, EngineInvariant, MateStandsAlways, PTL

\* A move is the only one that its own request means.
LEMMA RequestUnique ==
  ASSUME NEW p, PositionInv(p), p.bb[p.turn]["king"] # {}, NEW m \in generate_moves(p)
  PROVE  Named(generate_moves(p), Request(m)) = {m}
  <1>1. p.bb \in Boards /\ p.turn \in Sides /\ Apart(p.bb) /\ KingHome(p.bb, p.rights)
    BY DEF PositionInv, Positions
  <1>2. m \in Named(generate_moves(p), Request(m))
    BY DEF Named, Request
  <1>3. ASSUME NEW n \in Named(generate_moves(p), Request(m))
        PROVE  n = m
    <2>1. n \in generate_moves(p) /\ m.from = n.from /\ m.to = n.to
      BY DEF Named, Request
    <2>2. n.flag \in Promotions => m.flag = n.flag
      BY DEF Named, Request, Promotions
    <2>3. Ordinary(p.bb, p.turn, n) \/ Castled(p.bb, p.turn, p.rights, n)
      BY <2>1, GeneratedHere
    <2>4. Ordinary(p.bb, p.turn, m) \/ Castled(p.bb, p.turn, p.rights, m)
      BY GeneratedHere
    <2>5. CASE Ordinary(p.bb, p.turn, n) /\ Ordinary(p.bb, p.turn, m)
      BY <1>1, <2>1, <2>2, <2>5, OrdinaryUnique
    <2>6. CASE Ordinary(p.bb, p.turn, n) /\ Castled(p.bb, p.turn, p.rights, m)
      BY <1>1, <2>1, <2>6, CastledIsNotOrdinary
    <2>7. CASE Castled(p.bb, p.turn, p.rights, n) /\ Ordinary(p.bb, p.turn, m)
      BY <1>1, <2>1, <2>7, CastledIsNotOrdinary
    <2>8. CASE Castled(p.bb, p.turn, p.rights, n) /\ Castled(p.bb, p.turn, p.rights, m)
      BY <2>1, <2>8, CastledUnique
    <2> QED
      BY <2>3, <2>4, <2>5, <2>6, <2>7, <2>8
  <1> QED
    BY <1>2, <1>3

\* Where a pawn may promote it may become a queen.
LEMMA QueenIsOffered ==
  ASSUME NEW p, PositionInv(p), NEW m \in generate_moves(p), m.flag \in Promotions
  PROVE  \E n \in generate_moves(p) :
           n.flag = "queen" /\ n.type = m.type /\ n.from = m.from /\ n.to = m.to
  <1>1. /\ p.bb \in Boards /\ p.turn \in Sides /\ Apart(p.bb) /\ EpOK(p.ep, p.turn)
        /\ m \in generate_all_moves(p.bb, p.turn, p.ep, p.rights)
    BY DEF PositionInv, Positions, generate_moves
  <1>2. \/ \E k \in PawnMoves(p.bb, p.turn, p.ep) :
             is_legal_after_move(p.bb, k) /\ m \in Promoted(k)
        \/ m \in PieceMoves(p.bb, p.turn)
        \/ m \in CastlingMoves(p.bb, p.turn, p.rights)
    BY <1>1 DEF generate_all_moves
  <1>3. m \notin PieceMoves(p.bb, p.turn)
    <2>1. m.flag # "default"
      BY DEF Promotions
    <2> QED
      BY <1>1, <2>1, PieceMovesFacts DEF PieceStep
  <1>4. m \notin CastlingMoves(p.bb, p.turn, p.rights)
    <2> SUFFICES ASSUME m \in CastlingMoves(p.bb, p.turn, p.rights)
                 PROVE  FALSE
      OBVIOUS
    <2>1. PICK c \in Castlings : m = Move(c.from, c.to, "king", p.turn, "none", c.right)
      BY DEF CastlingMoves
    <2> QED
      BY <2>1, CastlingIsFar DEF Move
  <1>5. PICK k \in PawnMoves(p.bb, p.turn, p.ep) :
          is_legal_after_move(p.bb, k) /\ m \in Promoted(k)
    BY <1>2, <1>3, <1>4
  <1>6. k.flag \in {"default", "long"}
    <2>1. PawnStep(p.bb, p.turn, k)
      BY <1>1, PawnMovesFacts
    <2> QED
      BY <2>1 DEF PawnStep
  <1>7. PICK t \in Promotions : m = Become(k, t)
    BY <1>5, <1>6 DEF Promoted, Promotions
  <1>8. PICK n : n = Become(k, "queen")
    OBVIOUS
  <1>9. n \in Promoted(k)
    <2>1. k.to < 8 \/ k.to > 55
      BY <1>5, <1>6 DEF Promoted, Promotions
    <2> QED
      BY <1>8, <2>1 DEF Promoted, Promotions
  <1>10. n \in generate_moves(p)
    BY <1>5, <1>9 DEF generate_moves, generate_all_moves
  <1>11. n.flag = "queen" /\ n.type = m.type /\ n.from = m.from /\ n.to = m.to
    BY <1>7, <1>8 DEF Become, Move
  <1> QED
    BY <1>10, <1>11

\* The queen that the browser names decides between promotions only.
LEMMA BrowserNames ==
  ASSUME NEW p, PositionInv(p), p.bb[p.turn]["king"] # {}, NEW m \in generate_moves(p)
  PROVE  \E n \in generate_moves(p) :
           n.type = m.type /\ Named(generate_moves(p), BrowserRequest(m)) = {n}
  <1>1. CASE m.flag \in Promotions
    <2>1. PICK n \in generate_moves(p) :
            n.flag = "queen" /\ n.type = m.type /\ n.from = m.from /\ n.to = m.to
      BY <1>1, QueenIsOffered
    <2>2. Request(n) = BrowserRequest(m)
      BY <2>1 DEF Request, BrowserRequest, Promotions
    <2>3. Named(generate_moves(p), Request(n)) = {n}
      BY RequestUnique
    <2> QED
      BY <2>1, <2>2, <2>3
  <1>2. CASE m.flag \notin Promotions
    <2>1. m \in Named(generate_moves(p), BrowserRequest(m))
      BY <1>2 DEF Named, BrowserRequest
    <2>2. ASSUME NEW n \in Named(generate_moves(p), BrowserRequest(m))
          PROVE  n = m
      <3>1. n \in generate_moves(p) /\ n.from = m.from /\ n.to = m.to
        BY DEF Named, BrowserRequest
      <3>2. m \in Named(generate_moves(p), Request(n))
        BY <1>2, <3>1 DEF Named, Request
      <3>3. Named(generate_moves(p), Request(n)) = {n}
        BY <3>1, RequestUnique
      <3> QED
        BY <3>2, <3>3
    <2> QED
      BY <2>1, <2>2
  <1> QED
    BY <1>1, <1>2

\* Every move the rules allow, castlings included and captures in passing apart, and
\* every castling that is generated, is played when a browser asks for it, as long as
\* no king has been taken.
THEOREM BrowserIsServed == Spec => []BrowserMovesArePlayed
  <1>1. EngineInv => BrowserMovesArePlayed
    <2> SUFFICES ASSUME EngineInv, BothKings,
                        NEW r \in RuleMoves(pos.bb, pos.turn)
                                    \union RuleCastlings(pos.bb, pos.turn, pos.rights)
                                    \union generate_moves(pos)
                 PROVE  \E n \in generate_moves(pos) :
                          n.type = r.type /\ Named(generate_moves(pos), BrowserRequest(r)) = {n}
      BY DEF BrowserMovesArePlayed
    <2>1. /\ PositionInv(pos) /\ pos.bb[pos.turn]["king"] # {}
          /\ pos.bb \in Boards /\ Apart(pos.bb) /\ pos.turn \in Sides
      BY DEF EngineInv, PositionInv, Positions, BothKings
    <2>2. PICK m \in generate_moves(pos) : m.type = r.type /\ m.from = r.from /\ m.to = r.to
      BY <2>1, RuleMovesAreGenerated, RuleCastlingsAreGenerated DEF generate_moves
    <2>3. BrowserRequest(m) = BrowserRequest(r)
      BY <2>2 DEF BrowserRequest
    <2> QED
      BY <2>1, <2>2, <2>3, BrowserNames
  <1> QED
    BY <1>1, EngineInvariant, PTL

\* The generated move with the squares and the promotion of a request is the only
\* one, as long as no king has been taken; the console client's request without a
\* piece means the move it looks like, and none if that is a promotion.
THEOREM RequestsMeanOneMove == Spec => []RequestMeansOneMove
  <1>1. EngineInv => RequestMeansOneMove
    <2> SUFFICES ASSUME EngineInv, BothKings, NEW m \in generate_moves(pos)
                 PROVE  /\ Named(generate_moves(pos), Request(m)) = {m}
                        /\ Named(generate_moves(pos), ConsoleRequest(m))
                             = IF m.flag \in Promotions THEN {} ELSE {m}
      BY DEF RequestMeansOneMove
    <2>1. PositionInv(pos) /\ pos.bb[pos.turn]["king"] # {}
      BY DEF EngineInv, PositionInv, Positions, BothKings
    <2>2. Named(generate_moves(pos), Request(m)) = {m}
      BY <2>1, RequestUnique
    <2>3. CASE m.flag \in Promotions
      <3>1. ASSUME NEW n \in Named(generate_moves(pos), ConsoleRequest(m))
            PROVE  n \in Named(generate_moves(pos), Request(m)) /\ n.flag \notin Promotions
        BY DEF Named, Request, ConsoleRequest, Promotions
      <3> QED
        BY <2>2, <2>3, <3>1
    <2>4. CASE m.flag \notin Promotions
      <3>1. ConsoleRequest(m) = Request(m)
        BY <2>4 DEF Request, ConsoleRequest
      <3> QED
        BY <2>2, <2>4, <3>1
    <2> QED
      BY <2>2, <2>3, <2>4
  <1> QED
    BY <1>1, EngineInvariant, PTL

\* No position of a game has the en passant branch of the generator open, so no
\* such capture is ever generated.
THEOREM EnPassantNeverGenerated ==
  Spec => [](\A m \in generate_moves(pos) : m.flag # "en_passant")
  <1>1. EngineInv => \A m \in generate_moves(pos) : m.flag # "en_passant"
    <2> SUFFICES ASSUME EngineInv, NEW m \in generate_moves(pos) PROVE m.flag # "en_passant"
      OBVIOUS
    <2>1. CASE Ordinary(pos.bb, pos.turn, m)
      BY <2>1 DEF Ordinary, Promotions
    <2>2. CASE Castled(pos.bb, pos.turn, pos.rights, m)
      BY <2>2, CastlingFacts DEF Castled, Move
    <2> QED
      BY <2>1, <2>2, GeneratedHere DEF EngineInv
  <1> QED
    BY <1>1, EngineInvariant, PTL

\* In no position of a game does is_square_attacked see an attack by a bishop, a
\* rook or a queen, so neither check nor the filter of legal moves knows of them.
THEOREM SlidersNeverAttack ==
  Spec => [](\A p \in Squares, side \in Sides :
               is_square_attacked(pos.bb, p, side) <=> SteppersAttack(pos.bb, p, side))
  <1>1. EngineInv => \A p \in Squares, side \in Sides :
          is_square_attacked(pos.bb, p, side) <=> SteppersAttack(pos.bb, p, side)
    BY OnlySteppersAttack DEF EngineInv, PositionInv, Positions
  <1> QED
    BY <1>1, EngineInvariant, PTL
-----------------------------------------------------------------------------
(* Draws by repetition.                                                    *)

\* A move that is not Irreversible leaves every pawn where it is.
LEMMA PawnsStay ==
  ASSUME NEW p, PositionInv(p), NEW m \in generate_moves(p), ~Irreversible(m), NEW s \in Sides
  PROVE  Moved(p, m).bb[s]["pawn"] = p.bb[s]["pawn"]
  <1> DEFINE r == Moved(p, m)
             side == p.turn
  <1>1. p \in Positions /\ p.bb \in Boards /\ side \in Sides /\ Apart(p.bb)
    BY DEF PositionInv, Positions
  <1>2. r \in Positions
    BY MovedInv DEF PositionInv
  <1>3. r.bb[s]["pawn"] \subseteq Squares /\ p.bb[s]["pawn"] \subseteq Squares /\ "pawn" \in Types
    BY <1>1, <1>2 DEF Positions, Boards, Types
  <1>4. m.type # "pawn" /\ m.captured = "none"
    BY DEF Irreversible
  <1>5. s = side \/ s = inverse(side)
    BY <1>1 DEF Sides, inverse
  <1>6. ASSUME \A q \in Squares :
                 /\ q \in r.bb[side]["pawn"] <=> q \in p.bb[side]["pawn"]
                 /\ q \in r.bb[inverse(side)]["pawn"] <=> q \in p.bb[inverse(side)]["pawn"]
        PROVE  r.bb[s]["pawn"] = p.bb[s]["pawn"]
    <2>1. \A q \in Squares : q \in r.bb[s]["pawn"] <=> q \in p.bb[s]["pawn"]
      BY <1>5, <1>6
    <2> HIDE DEF r
    <2> QED
      BY <1>3, <2>1
  <1>7. CASE Ordinary(p.bb, side, m)
    <2>1. Landed(m) # "pawn"
      BY <1>4 DEF Landed, Promotions
    <2>2. m.to \notin p.bb[inverse(side)]["pawn"]
      BY <1>1, <1>3, <1>4, <1>7, TakenFacts DEF Ordinary, Types
    <2>3. \A q \in Squares :
            /\ q \in r.bb[side]["pawn"] <=> q \in p.bb[side]["pawn"]
            /\ q \in r.bb[inverse(side)]["pawn"] <=> q \in p.bb[inverse(side)]["pawn"]
      BY <1>1, <1>3, <1>4, <1>7, <2>1, <2>2, OrdinaryMoved
    <2> QED
      BY <1>6, <2>3
  <1>8. CASE Castled(p.bb, side, p.rights, m)
    <2>1. PICK c \in Castlings : m = Move(c.from, c.to, "king", side, "none", c.right) /\ c.side = side
      BY <1>8 DEF Castled
    <2>2. \A q \in Squares :
            /\ q \in r.bb[side]["pawn"] <=> q \in p.bb[side]["pawn"]
            /\ q \in r.bb[inverse(side)]["pawn"] <=> q \in p.bb[inverse(side)]["pawn"]
      BY <1>1, <1>3, <2>1, CastledMoved
    <2> QED
      BY <1>6, <2>2
  <1> QED
    BY <1>7, <1>8, GeneratedHere

\* A move of the generator keeps the key true.
LEMMA GeneratedKey ==
  ASSUME NEW p, PositionInv(p), KeyFollows(p), NEW m \in generate_moves(p)
  PROVE  KeyFollows(Moved(p, m))
  <1>1. p \in Positions /\ p.bb \in Boards /\ p.turn \in Sides /\ Apart(p.bb)
    BY DEF PositionInv, Positions
  <1>2. CASE Ordinary(p.bb, p.turn, m)
    <2>1. /\ m.side = p.turn /\ m.from \in Squares /\ m.to \in Squares /\ m.type \in Types
          /\ m.captured \in Types \union {"none"}
      BY <1>1, <1>2, TakenFacts DEF Ordinary, Step
    <2>2. m.flag # "en_passant"
      BY <1>2 DEF Ordinary, Promotions
    <2>3. m.flag = "long" => (m.from + m.to) \div 2 \in Squares
      <3>1. m.flag = "long" => m.to = m.from + 2 * Up(p.turn) /\ m.from + Up(p.turn) \in Squares
        BY <1>2 DEF Ordinary, Promotions
      <3>2. Up(p.turn) \in {8, -8} /\ m.from \in Int
        BY <2>1 DEF Up, Squares
      <3>3. m.flag = "long" => (m.from + m.to) \div 2 = m.from + Up(p.turn)
        BY <3>1, <3>2
      <3> QED
        BY <3>1, <3>3
    <2> QED
      BY <1>1, <2>1, <2>2, <2>3, MovedKey
  <1>3. CASE Castled(p.bb, p.turn, p.rights, m)
    <2>1. PICK c \in Castlings : m = Move(c.from, c.to, "king", p.turn, "none", c.right)
      BY <1>3 DEF Castled
    <2>2. /\ m.from = c.from /\ m.to = c.to /\ m.type = "king" /\ m.side = p.turn
          /\ m.captured = "none" /\ m.flag = c.right
      BY <2>1 DEF Move
    <2>3. c.from \in Squares /\ c.to \in Squares /\ c.right \notin {"en_passant", "long"}
      BY CastlingFacts
    <2>4. "king" \in Types
      BY DEF Types
    <2> QED
      BY <1>1, <2>2, <2>3, <2>4, MovedKey
  <1> QED
    BY <1>2, <1>3, GeneratedHere

Entries ==
  [key : [men : SUBSET (Squares \X Types \X Sides), black : BOOLEAN, rights : SUBSET Rights],
   bb : Boards, turn : Sides, rights : SUBSET Rights]

\* The history ends with the position of the game; the key of each entry knows
\* all but the pawns, and those have not moved since the first of them.
HistoryInv ==
  /\ KeyFollows(pos)
  /\ history \in Seq(Entries) /\ history # <<>>
  /\ history[Len(history)] = Entry(pos)
  /\ \A i \in 1 .. Len(history) :
       /\ KeyFollows(history[i])
       /\ \A s \in Sides : history[i].bb[s]["pawn"] = pos.bb[s]["pawn"]

\* What a position leaves in the history.
LEMMA EntryFacts ==
  ASSUME NEW p \in Positions
  PROVE  /\ Entry(p) \in Entries /\ Entry(p).bb = p.bb /\ Entry(p).turn = p.turn
         /\ Entry(p).key = p.key
         /\ KeyFollows(Entry(p)) <=> KeyFollows(p)
  <1>1. Entry(p) \in Entries /\ Entry(p).bb = p.bb /\ Entry(p).turn = p.turn /\ Entry(p).key = p.key
    BY DEF Entry, Entries, Positions
  <1> QED
    BY <1>1 DEF KeyFollows

LEMMA HistoryInvInit == Init => HistoryInv
  <1> SUFFICES ASSUME Init PROVE HistoryInv
    OBVIOUS
  <1>1. PICK s \in Start : pos = NewPosition(s) /\ history = <<Entry(NewPosition(s))>>
    BY DEF Init
  <1>2. StartOK(s) /\ PositionInv(pos)
    BY <1>1, StartAssumption, NewPositionInv
  <1>3. KeyFollows(pos)
    BY <1>1 DEF NewPosition, KeyOf, KeyFollows
  <1>4. pos \in Positions
    BY <1>2 DEF PositionInv
  <1>5. history = <<Entry(pos)>>
    BY <1>1
  <1> QED
    BY <1>3, <1>4, <1>5, EntryFacts DEF HistoryInv

LEMMA HistoryInvNext == EngineInv /\ HistoryInv /\ [Next]_vars => HistoryInv'
  <1> SUFFICES ASSUME EngineInv, HistoryInv, [Next]_vars PROVE HistoryInv'
    OBVIOUS
  <1>1. CASE Next
    <2>1. PICK rq : on_move(generate_moves(pos), rq)
      BY <1>1 DEF Next
    <2>2. PICK m \in Named(generate_moves(pos), rq) : apply_move(m)
      BY <2>1 DEF on_move
    <2>3. m \in generate_moves(pos)
      BY DEF Named
    <2>4. PositionInv(pos) /\ PositionInv(pos') /\ pos' = Moved(pos, m)
      BY <2>2, <2>3, MovedInv DEF apply_move, EngineInv
    <2>5. KeyFollows(pos')
      BY <2>3, <2>4, GeneratedKey DEF HistoryInv
    <2>6. /\ Entry(pos') \in Entries /\ Entry(pos').bb = pos'.bb /\ KeyFollows(Entry(pos'))
      BY <2>4, <2>5, EntryFacts DEF PositionInv
    <2>7. history' = Append(IF Irreversible(m) THEN <<>> ELSE history, Entry(pos'))
      BY <2>2, <2>4 DEF apply_move
    <2>8. CASE Irreversible(m)
      <3>1. history' = <<Entry(pos')>>
        BY <2>7, <2>8
      <3> QED
        BY <2>5, <2>6, <3>1 DEF HistoryInv
    <2>9. CASE ~Irreversible(m)
      <3>1. \A s \in Sides : pos'.bb[s]["pawn"] = pos.bb[s]["pawn"]
        BY <2>3, <2>4, <2>9, PawnsStay
      <3>2. history' = Append(history, Entry(pos')) /\ history \in Seq(Entries)
        BY <2>7, <2>9 DEF HistoryInv
      <3>3. history' \in Seq(Entries) /\ Len(history') = Len(history) + 1 /\ Len(history) \in Nat
        BY <2>6, <3>2
      <3>4. /\ history'[Len(history')] = Entry(pos')
            /\ \A i \in 1 .. Len(history) : history'[i] = history[i]
        BY <2>6, <3>2, <3>3
      <3>5. ASSUME NEW i \in 1 .. Len(history')
            PROVE  /\ KeyFollows(history'[i])
                   /\ \A s \in Sides : history'[i].bb[s]["pawn"] = pos'.bb[s]["pawn"]
        <4>1. CASE i = Len(history')
          BY <2>6, <3>4, <4>1
        <4>2. CASE i # Len(history')
          <5>1. i \in 1 .. Len(history)
            BY <3>3, <4>2
          <5> QED
            BY <3>1, <3>4, <5>1 DEF HistoryInv
        <4> QED
          BY <4>1, <4>2
      <3>6. history' # <<>>
        BY <3>3
      <3> QED
        BY <2>5, <3>3, <3>4, <3>5, <3>6 DEF HistoryInv, KeyFollows
    <2> QED
      BY <2>8, <2>9
  <1>2. CASE UNCHANGED vars
    BY <1>2 DEF vars, HistoryInv, KeyFollows
  <1> QED
    BY <1>1, <1>2

\* Two entries with one key stand for the same men and the same side to move.
LEMMA KeyDecides ==
  ASSUME EngineInv, HistoryInv, NEW i \in 1 .. Len(history), history[i].key = pos.key
  PROVE  history[i].bb = pos.bb /\ history[i].turn = pos.turn
  <1> DEFINE h == history[i]
  <1>1. h \in Entries /\ KeyFollows(h) /\ \A s \in Sides : h.bb[s]["pawn"] = pos.bb[s]["pawn"]
    BY DEF HistoryInv
  <1>2. pos \in Positions /\ KeyFollows(pos) /\ h.key = pos.key
    BY DEF EngineInv, PositionInv, HistoryInv
  <1> HIDE DEF h
  <1>3. h.bb \in Boards /\ pos.bb \in Boards /\ h.turn \in Sides /\ pos.turn \in Sides
    BY <1>1, <1>2 DEF Entries, Positions
  <1>4. h.turn = pos.turn
    BY <1>1, <1>2, <1>3 DEF KeyFollows, Sides
  <1>5. ASSUME NEW s \in Sides, NEW t \in Types PROVE h.bb[s][t] = pos.bb[s][t]
    <2>1. h.bb[s][t] \subseteq Squares /\ pos.bb[s][t] \subseteq Squares
      BY <1>3 DEF Boards
    <2>2. CASE t = "pawn"
      BY <1>1, <2>2
    <2>3. CASE t # "pawn"
      <3>1. \A q \in Squares : q \in h.bb[s][t] <=> q \in pos.bb[s][t]
        BY <1>1, <1>2, <2>3 DEF KeyFollows
      <3> QED
        BY <2>1, <3>1
    <2> QED
      BY <2>2, <2>3
  <1>6. \A s \in Sides : h.bb[s] = pos.bb[s]
    BY <1>3, <1>5 DEF Boards
  <1>7. h.bb = pos.bb
    BY <1>3, <1>6 DEF Boards
  <1> QED
    BY <1>4, <1>7 DEF h

\* A game drawn by repetition ended on a history is_threefold_repetition holds in.
DrawStands == result = "threefold_repetition" => is_threefold_repetition(history)

LEMMA DrawStandsAlways == Spec => []DrawStands
  <1>1. Init => DrawStands
    BY DEF Init, DrawStands
  <1>2. DrawStands /\ [Next]_vars => DrawStands'
    <2> SUFFICES ASSUME DrawStands, [Next]_vars PROVE DrawStands'
      OBVIOUS
    <2>1. CASE Next
      <3>1. result' = Outcome(pos', clock', history')
        BY <2>1 DEF Next, on_move
      <3>2. result' = "threefold_repetition" => is_threefold_repetition(history')
        BY <3>1 DEF Outcome
      <3> QED
        BY <3>2 DEF DrawStands, is_threefold_repetition
    <2>2. CASE UNCHANGED vars
      BY <2>2 DEF vars, DrawStands, is_threefold_repetition
    <2> QED
      BY <2>1, <2>2
  <1> QED
    BY <1>1, <1>2, PTL DEF Spec

\* A draw by repetition is one: the same men stood on the same squares with the
\* same side to move three times, whatever was taken, promoted or castled before,
\* although the en passant squares leave constants of pawns behind in the key.
THEOREM RepetitionsAreReal == Spec => []RepetitionIsRepetition
  <1>1. EngineInv /\ HistoryInv /\ DrawStands => RepetitionIsRepetition
    <2> SUFFICES ASSUME EngineInv, HistoryInv, is_threefold_repetition(history)
                 PROVE  Cardinality({i \in 1 .. Len(history) :
                          history[i].bb = pos.bb /\ history[i].turn = pos.turn}) >= 3
      BY DEF DrawStands, RepetitionIsRepetition
    <2> DEFINE keys == {i \in 1 .. Len(history) : history[i].key = pos.key}
               same == {i \in 1 .. Len(history) :
                          history[i].bb = pos.bb /\ history[i].turn = pos.turn}
    <2>1. Last(history).key = pos.key
      BY EntryFacts DEF EngineInv, PositionInv, HistoryInv, Last
    <2>2. Cardinality(keys) >= 3
      BY <2>1 DEF is_threefold_repetition
    <2>3. keys \subseteq same
      BY KeyDecides
    <2>4. IsFiniteSet(same)
      <3>1. Len(history) \in Int /\ 1 \in Int
        BY DEF HistoryInv
      <3>2. IsFiniteSet(1 .. Len(history))
        BY <3>1, FS_Interval
      <3> QED
        BY <3>2, FS_Subset
    <2>5. /\ Cardinality(keys) <= Cardinality(same)
          /\ Cardinality(keys) \in Nat /\ Cardinality(same) \in Nat
      BY <2>3, <2>4, FS_Subset, FS_CardinalityType
    <2> QED
      BY <2>2, <2>5
  <1> QED
    BY <1>1, EngineInvariant, HistoryInvInit, HistoryInvNext, DrawStandsAlways, PTL DEF Spec
-----------------------------------------------------------------------------
(* The number of men.                                                      *)

MenOn(p, side) == {e \in Men(p) : e[3] = side}

\* One man to a square, so there are finitely many.
LEMMA MenOnFacts ==
  ASSUME NEW p \in Positions, Apart(p.bb), NEW side \in Sides
  PROVE  /\ IsFiniteSet(MenOn(p, side)) /\ MenOf(p, side) = Cardinality(MenOn(p, side))
         /\ Cardinality(MenOn(p, side)) \in Nat
         /\ \A e \in MenOn(p, side) :
              \E q \in Squares, t \in Types : e = <<q, t, side>> /\ q \in p.bb[side][t]
         /\ \A q \in Squares, t \in Types :
              <<q, t, side>> \in MenOn(p, side) <=> q \in p.bb[side][t]
  <1> DEFINE men == MenOn(p, side)
             f == [e \in men |-> e[1]]
  <1>1. \A e \in men : \E q \in Squares, t \in Types : e = <<q, t, side>> /\ q \in p.bb[side][t]
    BY DEF MenOn, Men
  <1>2. \A q \in Squares, t \in Types : <<q, t, side>> \in men <=> q \in p.bb[side][t]
    BY DEF MenOn, Men
  <1>3. MenOf(p, side) = Cardinality(men)
    BY DEF MenOf, MenOn
  <1> HIDE DEF men
  <1>4. f \in [men -> Squares]
    BY <1>1
  <1>5. ASSUME NEW d \in men, NEW e \in men, d[1] = e[1] PROVE d = e
    <2>1. PICK q \in Squares, t \in Types : d = <<q, t, side>> /\ q \in p.bb[side][t]
      BY <1>1
    <2>2. PICK r \in Squares, u \in Types : e = <<r, u, side>> /\ r \in p.bb[side][u]
      BY <1>1
    <2>3. q = r
      BY <1>5, <2>1, <2>2
    <2>4. t = u
      BY <2>1, <2>2, <2>3 DEF Apart
    <2> QED
      BY <2>1, <2>2, <2>3, <2>4
  <1>6. f \in Injection(men, Squares)
    BY <1>4, <1>5 DEF Injection, IsInjective
  <1>7. IsFiniteSet(Squares)
    <2>1. 0 \in Int /\ 63 \in Int
      OBVIOUS
    <2> QED
      BY <2>1, FS_Interval DEF Squares
  <1>8. IsFiniteSet(men)
    BY <1>6, <1>7, FS_Injection
  <1> QED
    BY <1>1, <1>2, <1>3, <1>8, FS_CardinalityType DEF men

\* A step or a promotion moves one man of the mover,
LEMMA MoverCounts ==
  ASSUME NEW p, PositionInv(p), NEW m, Ordinary(p.bb, p.turn, m)
  PROVE  MenOf(Moved(p, m), p.turn) = MenOf(p, p.turn)
  <1> DEFINE r == Moved(p, m)
             side == p.turn
             old == MenOn(p, side)
             new == MenOn(r, side)
             from == <<m.from, m.type, side>>
             to == <<m.to, Landed(m), side>>
  <1>1. p \in Positions /\ p.bb \in Boards /\ side \in Sides /\ Apart(p.bb) /\ Step(p.bb, side, m)
    BY DEF PositionInv, Positions, Ordinary
  <1>2. r \in Positions /\ Apart(r.bb)
    BY OrdinaryInv DEF PositionInv
  <1>3. \A t \in Types, q \in Squares :
          q \in r.bb[side][t] <=>
            \/ q \in p.bb[side][t] /\ ~(t = m.type /\ q = m.from)
            \/ t = Landed(m) /\ q = m.to
    BY <1>1, OrdinaryMoved
  <1>4. /\ m.from \in Squares /\ m.to \in Squares /\ m.from \in p.bb[side][m.type]
        /\ m.type \in Types /\ \A t \in Types : m.to \notin p.bb[side][t]
    BY <1>1, TakenFacts DEF Step
  <1>5. Landed(m) \in Types
    BY <1>4 DEF Landed, Promotions, Types
  <1> HIDE DEF r
  <1>6. /\ \A e \in old : \E q \in Squares, t \in Types : e = <<q, t, side>>
        /\ \A q \in Squares, t \in Types : <<q, t, side>> \in old <=> q \in p.bb[side][t]
        /\ IsFiniteSet(old) /\ Cardinality(old) \in Nat /\ MenOf(p, side) = Cardinality(old)
    BY <1>1, MenOnFacts
  <1>7. /\ \A e \in new : \E q \in Squares, t \in Types : e = <<q, t, side>>
        /\ \A q \in Squares, t \in Types : <<q, t, side>> \in new <=> q \in r.bb[side][t]
        /\ MenOf(r, side) = Cardinality(new)
    BY <1>1, <1>2, MenOnFacts
  <1> HIDE DEF old, new
  <1>8. from \in old /\ to \notin old
    BY <1>4, <1>5, <1>6
  <1>9. new = (old \ {from}) \union {to}
    <2>1. ASSUME NEW q \in Squares, NEW t \in Types
          PROVE  <<q, t, side>> \in new <=> <<q, t, side>> \in (old \ {from}) \union {to}
      BY <1>3, <1>6, <1>7
    <2>2. \A e \in (old \ {from}) \union {to} :
            \E q \in Squares, t \in Types : e = <<q, t, side>>
      BY <1>4, <1>5, <1>6
    <2> QED
      BY <1>7, <2>1, <2>2
  <1> HIDE DEF from, to
  <1>10. IsFiniteSet(old \ {from}) /\ Cardinality(old \ {from}) = Cardinality(old) - 1
    BY <1>6, <1>8, FS_RemoveElement
  <1>11. Cardinality(new) = Cardinality(old \ {from}) + 1
    BY <1>8, <1>9, <1>10, FS_AddElement
  <1> QED
    BY <1>6, <1>7, <1>10, <1>11 DEF r

\* and takes at most one of the other side.
LEMMA OtherCounts ==
  ASSUME NEW p, PositionInv(p), NEW m, Ordinary(p.bb, p.turn, m)
  PROVE  MenOf(p, inverse(p.turn)) - MenOf(Moved(p, m), inverse(p.turn)) \in {0, 1}
  <1> DEFINE r == Moved(p, m)
             other == inverse(p.turn)
             old == MenOn(p, other)
             new == MenOn(r, other)
             at == <<m.to, m.captured, other>>
  <1>1. /\ p \in Positions /\ p.bb \in Boards /\ p.turn \in Sides /\ Apart(p.bb)
        /\ Step(p.bb, p.turn, m)
    BY DEF PositionInv, Positions, Ordinary
  <1>2. r \in Positions /\ Apart(r.bb) /\ other \in Sides
    BY <1>1, OrdinaryInv, SideFacts DEF PositionInv
  <1>3. \A t \in Types, q \in Squares : q \in r.bb[other][t] <=> q \in p.bb[other][t] /\ q # m.to
    BY <1>1, OrdinaryMoved
  <1>4. \A t \in Types : t # m.captured => m.to \notin p.bb[other][t]
    BY <1>1, TakenFacts
  <1> HIDE DEF r, other
  <1>5. /\ \A e \in old : \E q \in Squares, t \in Types : e = <<q, t, other>>
        /\ \A q \in Squares, t \in Types : <<q, t, other>> \in old <=> q \in p.bb[other][t]
        /\ IsFiniteSet(old) /\ Cardinality(old) \in Nat /\ MenOf(p, other) = Cardinality(old)
    BY <1>1, <1>2, MenOnFacts
  <1>6. /\ \A e \in new : \E q \in Squares, t \in Types : e = <<q, t, other>>
        /\ \A q \in Squares, t \in Types : <<q, t, other>> \in new <=> q \in r.bb[other][t]
        /\ MenOf(r, other) = Cardinality(new)
    BY <1>2, MenOnFacts
  <1> HIDE DEF old, new
  <1>7. new = old \ {at}
    <2>1. ASSUME NEW q \in Squares, NEW t \in Types
          PROVE  <<q, t, other>> \in new <=> <<q, t, other>> \in old \ {at}
      BY <1>3, <1>4, <1>5, <1>6
    <2> QED
      BY <1>5, <1>6, <2>1
  <1> HIDE DEF at
  <1>8. Cardinality(new) = IF at \in old THEN Cardinality(old) - 1 ELSE Cardinality(old)
    BY <1>5, <1>7, FS_RemoveElement
  <1> QED
    BY <1>5, <1>6, <1>8 DEF r, other

\* Whatever the square of a capture, a promotion or a king's walk: a move that is
\* no castling keeps the number of the mover's men, and costs the other side one
\* man at most.
THEOREM MenStayAccounted == Spec => MenAccounted
  <1>1. ASSUME EngineInv, Next, NEW side \in Sides, pos.turn = side, ~CastlesNow(side)
        PROVE  /\ MenOf(pos', side) = MenOf(pos, side)
               /\ MenOf(pos, inverse(side)) - MenOf(pos', inverse(side)) \in {0, 1}
    <2>1. PICK rq : on_move(generate_moves(pos), rq)
      BY <1>1 DEF Next
    <2>2. PICK m \in Named(generate_moves(pos), rq) : apply_move(m)
      BY <2>1 DEF on_move
    <2>3. m \in generate_moves(pos)
      BY DEF Named
    <2>4. PositionInv(pos) /\ pos' = Moved(pos, m) /\ PositionInv(pos')
      BY <1>1, <2>2, <2>3, MovedInv DEF apply_move, EngineInv
    <2>5. ~Castled(pos.bb, pos.turn, pos.rights, m)
      <3> SUFFICES ASSUME Castled(pos.bb, pos.turn, pos.rights, m) PROVE FALSE
        OBVIOUS
      <3>1. PICK c \in Castlings : /\ m = Move(c.from, c.to, "king", pos.turn, "none", c.right)
                                   /\ c.side = pos.turn /\ c.right \in pos.rights
        BY DEF Castled
      <3>2. pos.bb[side]["king"] \subseteq {c.from}
        BY <1>1, <2>4, <3>1 DEF PositionInv, KingHome
      <3>3. \A q \in Squares :
              q \in pos'.bb[side]["king"] <=>
                (q \in pos.bb[side]["king"] /\ q # c.from) \/ q = c.to
        BY <1>1, <2>4, <3>1, CastledMoved DEF PositionInv, Types
      <3>4. pos'.bb[side]["king"] \subseteq Squares /\ c.to \in Squares
        BY <2>4, CastlingFacts DEF PositionInv, Positions, Boards, Types
      <3>5. pos'.bb[side]["king"] = {c.to}
        BY <3>2, <3>3, <3>4
      <3> QED
        BY <1>1, <3>1, <3>2, <3>5 DEF CastlesNow
    <2>6. Ordinary(pos.bb, pos.turn, m)
      BY <2>3, <2>4, <2>5, GeneratedHere
    <2> QED
      BY <1>1, <2>4, <2>6, MoverCounts, OtherCounts
  <1>2. EngineInv /\ [Next]_vars =>
          [\A side \in Sides :
             pos.turn = side /\ ~CastlesNow(side) =>
               /\ MenOf(pos', side) = MenOf(pos, side)
               /\ MenOf(pos, inverse(side)) - MenOf(pos', inverse(side)) \in {0, 1}]_vars
    BY <1>1
  <1> QED
    BY <1>2, EngineInvariant, PTL DEF Spec, MenAccounted

\* Writing a position of a game and reading the text gives the position: get_fen
\* and the constructor of Pieces agree on runs, rows and men, whatever stands
\* where.
THEOREM TextsReadBack == Spec => []FenReadsBack
  <1>1. EngineInv => FenReadsBack
    BY PiecesReadBack DEF EngineInv, PositionInv, Positions, FenReadsBack
  <1> QED
    BY <1>1, EngineInvariant, PTL

\* A console client that began with reset_board and was sent the text of a position
\* shows its men where they stand and dots elsewhere; nothing is left of the men
\* it began with.  UpdateShows says so of any board it may have shown.
THEOREM ConsoleStaysTrue == Spec => []ConsoleShowsPosition
  <1>1. EngineInv => ConsoleShowsPosition
    <2> SUFFICES ASSUME EngineInv, NEW p \in Squares
                 PROVE  update_board_from_fen(reset_board, get_fen(pos.bb))[p]
                          = IF p \in Empty(pos.bb) THEN Dot
                            ELSE CHOOSE man \in Sides \X Types : p \in pos.bb[man[1]][man[2]]
      BY DEF ConsoleShowsPosition
    <2>1. PICK bb \in Boards : bb = pos.bb /\ Apart(bb)
      BY DEF EngineInv, PositionInv, Positions
    <2>2. PICK U : U = {reset_board[q] : q \in Squares}
      OBVIOUS
    <2>3. reset_board \in [Squares -> U]
      BY <2>2 DEF reset_board
    <2>4. update_board_from_fen(reset_board, get_fen(bb))[p] = Shown(bb, p)
      BY <2>3, UpdateShows
    <2>5. CASE p \in Empty(bb)
      BY <2>1, <2>4, <2>5 DEF Shown
    <2>6. CASE p \notin Empty(bb)
      <3>1. PICK s \in Sides, t \in Types :
              s = ColorAt(bb, p) /\ t = TypeAt(bb, ColorAt(bb, p), p) /\ p \in bb[s][t]
        BY <2>6, ManFacts
      <3>2. Shown(bb, p) = <<s, t>>
        BY <2>6, <3>1 DEF Shown
      <3>3. <<s, t>> \in Sides \X Types /\ p \in bb[<<s, t>>[1]][<<s, t>>[2]]
        BY <3>1
      <3>4. ASSUME NEW man \in Sides \X Types, p \in bb[man[1]][man[2]] PROVE man = <<s, t>>
        <4>1. PICK s2 \in Sides, t2 \in Types : man = <<s2, t2>>
          OBVIOUS
        <4>2. p \in bb[s2][t2]
          BY <3>4, <4>1
        <4>3. <<s2, t2>> = <<s, t>>
          BY <2>1, <3>1, <4>2 DEF Apart
        <4> QED
          BY <4>1, <4>3
      <3>5. (CHOOSE man \in Sides \X Types : p \in bb[man[1]][man[2]]) = <<s, t>>
        BY <3>3, <3>4
      <3> QED
        BY <2>1, <2>4, <2>6, <3>2, <3>5
    <2> QED
      BY <2>5, <2>6
  <1> QED
    BY <1>1, EngineInvariant, PTL
=============================================================================

-------------------------------- MODULE Fen --------------------------------
(***************************************************************************)
(* The board part of a FEN text: Position::get_fen writes it, the          *)
(* constructor of Pieces reads it at the start of every game, and the      *)
(* console client reads it to update the board it shows.  A text is a      *)
(* sequence of men, of runs of empty squares and of slashes.               *)
(***************************************************************************)
EXTENDS MoveGen, Sequences, SequencesExt

Slash == [kind |-> "slash"]
Skip(n) == [kind |-> "skip", n |-> n]
Man(side, type) == [kind |-> "man", side |-> side, type |-> type]

\* Columns from left to right, rows as get_fen goes through them.
Columns == <<0, 1, 2, 3, 4, 5, 6, 7>>
Rows == Reverse(Columns)

-----------------------------------------------------------------------------
\* get_fen.

ColorAt(bb, p) == IF p \in SideBoard(bb, "white") THEN "white" ELSE "black"

Flushed(text, empty) == IF empty > 0 THEN Append(text, Skip(empty)) ELSE text

ScanSquare(bb, line, p) ==
  IF p \in Empty(bb)
    THEN [line EXCEPT !.empty = @ + 1]
    ELSE [text |-> Append(Flushed(line.text, line.empty),
                          Man(ColorAt(bb, p), TypeAt(bb, ColorAt(bb, p), p))),
          empty |-> 0]

ScanRow(bb, y) ==
  FoldLeft(LAMBDA line, x : ScanSquare(bb, line, 8 * y + x), [text |-> <<>>, empty |-> 0], Columns)

\* mutant of RowText: the squares behind the last man of a row are forgotten.
RowText_unfinished(bb, y) == ScanRow(bb, y).text

RowText(bb, y) == LET line == ScanRow(bb, y) IN Flushed(line.text, line.empty)

get_fen(bb) ==
  FoldLeft(LAMBDA text, y : text \o RowText(bb, y) \o (IF y > 0 THEN <<Slash>> ELSE <<>>),
           <<>>, Rows)

-----------------------------------------------------------------------------
\* Pieces(fen): men on an empty board, from the last row down.

NoPieces == [side \in Sides |-> [type \in Types |-> {}]]

\* mutant of ReadPiece: a run of empty squares counts as one.
ReadPiece_short(c, t) ==
  CASE t.kind = "slash" -> [c EXCEPT !.x = 0, !.y = @ - 1]
    [] t.kind = "skip"  -> [c EXCEPT !.x = @ + 1]
    [] t.kind = "man"   -> [c EXCEPT !.bb = Set(@, t.side, t.type, 8 * c.y + c.x), !.x = @ + 1]

ReadPiece(c, t) ==
  CASE t.kind = "slash" -> [c EXCEPT !.x = 0, !.y = @ - 1]
    [] t.kind = "skip"  -> [c EXCEPT !.x = @ + t.n]
    [] t.kind = "man"   -> [c EXCEPT !.bb = Set(@, t.side, t.type, 8 * c.y + c.x), !.x = @ + 1]

Pieces(text) == FoldLeft(ReadPiece, [bb |-> NoPieces, x |-> 0, y |-> 7], text).bb

\* "rnbqkbnr/pppppppp/8/8/8/8/PPPPPPPP/RNBQKBNR", of Position's constructor.
Officers1 == <<"rook", "knight", "bishop", "queen", "king", "bishop", "knight", "rook">>
MenOfRow(side, types) == [x \in 1 .. 8 |-> Man(side, types[x])]
Pawns8 == [x \in 1 .. 8 |-> "pawn"]

InitialText ==
  MenOfRow("black", Officers1) \o <<Slash>> \o MenOfRow("black", Pawns8)
    \o <<Slash, Skip(8), Slash, Skip(8), Slash, Skip(8), Slash, Skip(8), Slash>>
    \o MenOfRow("white", Pawns8) \o <<Slash>> \o MenOfRow("white", Officers1)

-----------------------------------------------------------------------------
\* The console client: board[r][c] at 8 * r + c.

Dot == <<"none", "none">>

\* reset_board: black's officers in row 0, white's in row 7, which is how
\* sq_to_idx counts, and upside down for update_board_from_fen and render.
reset_board ==
  [p \in Squares |->
     CASE Row(p) = 0 -> <<"black", Officers1[Column(p) + 1]>>
       [] Row(p) = 1 -> <<"black", "pawn">>
       [] Row(p) = 6 -> <<"white", "pawn">>
       [] Row(p) = 7 -> <<"white", Officers1[Column(p) + 1]>>
       [] OTHER -> Dot]

\* One character of update_board_from_fen; digits are written square by square.
ShowText(c, t) ==
  LET here == 8 * c.y + c.x IN
  CASE t.kind = "slash" -> [c EXCEPT !.x = 0, !.y = @ - 1]
    [] t.kind = "skip"  ->
         [c EXCEPT !.board = [p \in Squares |-> IF p \in here .. here + t.n - 1 THEN Dot ELSE @[p]],
                   !.x = @ + t.n]
    [] t.kind = "man"   -> [c EXCEPT !.board[here] = <<t.side, t.type>>, !.x = @ + 1]

update_board_from_fen(board, text) ==
  FoldLeft(ShowText, [board |-> board, x |-> 0, y |-> 7], text).board
=============================================================================

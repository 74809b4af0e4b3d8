---------------------------- MODULE MCChessGame ----------------------------
(***************************************************************************)
(* Positions of games under way for TLC.  Squares are numbered 8 * row +   *)
(* column; all men that are missing have been taken.                       *)
(***************************************************************************)
EXTENDS ChessGame

Side(pawns, knights, bishops, rooks, queens, king) ==
  [t \in Types |-> CASE t = "pawn" -> pawns [] t = "knight" -> knights
                     [] t = "bishop" -> bishops [] t = "rook" -> rooks
                     [] t = "queen" -> queens [] t = "king" -> {king}]

From(white, black, turn, rights, fifty) ==
  [bb |-> [s \in Sides |-> IF s = "white" THEN white ELSE black],
   turn |-> turn, rights |-> rights, clock |-> fifty]

None == {}

\* Pawns about to meet, to pass each other and to promote with and without a
\* capture, on the edges of the board.
Pawns == From(Side({8, 12, 54}, None, None, None, None, 4),
              Side({25, 27, 15}, None, None, {63}, None, 60), "white", {}, 0)

\* One man of every kind, with captures between men of one kind.
Officers == From(Side({15}, {18}, {29}, {0}, {3}, 6),
                 Side({48}, {35}, {56}, {7}, {59}, 62), "white", {}, 0)

\* All castling rights, rooks that may take each other, a knight and a pawn
\* that may forbid it.
Castles == From(Side({12}, None, None, {0, 7}, None, 4),
                Side({11}, {30}, None, {56, 63}, None, 60), "white", Rights, 0)

\* Kings and rooks at home.
Towers == From(Side(None, None, None, {0, 7}, None, 4),
               Side(None, None, None, {56, 63}, None, 60), "white", Rights, 0)

\* One move before a smothered mate by a knight, and before a stalemate.
Smothered == From(Side(None, {38}, None, None, None, 4),
                  Side({54, 55}, None, None, {62}, None, 63), "white", {}, 0)
Stale == From(Side({53}, None, None, None, None, 45),
              Side(None, None, None, None, None, 63), "white", {}, 0)

\* A rook at home, two kings.
Shuffle == From(Side(None, None, None, {0}, None, 4),
                Side(None, None, None, None, None, 62), "white", {"WL", "WS"}, 0)

\* A pawn one step from promotion, two kings.
Race == From(Side({48}, None, None, None, None, 4),
             Side(None, None, None, None, None, 62), "white", {}, 0)

\* One move before a mate on the last row.
BackRow == From(Side(None, None, None, {0}, None, 4),
                Side({53, 54, 55}, None, None, None, None, 62), "white", {}, 0)

\* Two kings after 49 moves of each side without a capture; the keys of the
\* positions before this one are left out of the history.
Endless == From(Side(None, None, None, None, None, 4),
                Side(None, None, None, None, None, 62), "white", {}, 98)

\* One move before a long pawn step gives check; the black king has nowhere to
\* go, and the pawn that may take in passing would free it.
Passed == From(Side({14, 23}, None, None, None, None, 4),
               Side({31, 38, 46, 47}, None, None, None, None, 39), "white", {}, 0)

\* Two squares for each king, two for the rook, one for the new queen.
Corners == {0, 1, 4, 5, 56, 62, 63}

\* The initial position.
Opening == [bb |-> Pieces(InitialText), turn |-> "white", rights |-> Rights, clock |-> 0]

\* The games that begin with the positions: all moves, or moves between Corners.
Everything(positions, n) ==
  {[bb |-> p.bb, turn |-> p.turn, rights |-> p.rights, clock |-> p.clock,
    landing |-> Squares, plies |-> n] : p \in positions}
Shuffling(positions, n) ==
  {[bb |-> p.bb, turn |-> p.turn, rights |-> p.rights, clock |-> p.clock,
    landing |-> Corners, plies |-> n] : p \in positions}

GamesStart == Everything({Opening, Pawns, Officers, Castles, Towers, Smothered, Stale}, 2)
                \union Shuffling({Shuffle, Race}, 14)
PassedStart == Everything({Passed}, 2)
BackRowStart == Everything({BackRow}, 2)
TowersStart == Everything({Towers}, 3)
EndlessStart == Everything({Endless}, 3)
KeysStart == Shuffling({Shuffle}, 14)
=============================================================================

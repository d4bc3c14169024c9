------------------------------- MODULE Tetris -------------------------------
(***************************************************************************)
(* apps/tetris/tetris.c.  A cell of the board is filled or not (its colour *)
(* is data); the screen is the set of cells that are painted, changed      *)
(* piece by piece as the code does, not drawn anew from the board.         *)
(***************************************************************************)
EXTENDS AppState

CONSTANTS
  BW, BH,          \* TETRIS_BOARD_W, TETRIS_BOARD_H
  Kinds,           \* the pieces that rand_piece() may give
  LevelLines,      \* lines to a level: 10
  MaxLocked        \* bound: the pieces of a game

VARIABLES
  board,           \* s_board: the filled cells
  piece,           \* s_px, s_py, s_ptype, s_prot
  score, lines,    \* s_score, s_lines
  tover,           \* s_game_over
  painted,         \* the screen: the painted cells
  locked           \* history: the pieces that are part of the board or were

tetris == <<board, piece, score, lines, tover, painted, locked>>

Cells == (0 .. BW - 1) \X (0 .. BH - 1)

(* SHAPES: for each rotation the cells, from the piece's place.            *)
Shapes(kind) ==
  CASE kind = "I" -> << {<<0,0>>, <<1,0>>, <<2,0>>, <<3,0>>}, {<<2,-1>>, <<2,0>>, <<2,1>>, <<2,2>>},
                        {<<0,1>>, <<1,1>>, <<2,1>>, <<3,1>>}, {<<1,-1>>, <<1,0>>, <<1,1>>, <<1,2>>} >>
    [] kind = "J" -> << {<<0,0>>, <<0,1>>, <<1,1>>, <<2,1>>}, {<<1,0>>, <<2,0>>, <<1,1>>, <<1,2>>},
                        {<<0,1>>, <<1,1>>, <<2,1>>, <<2,0>>}, {<<1,0>>, <<1,1>>, <<1,2>>, <<0,2>>} >>
    [] kind = "L" -> << {<<0,1>>, <<1,1>>, <<2,1>>, <<2,0>>}, {<<1,0>>, <<1,1>>, <<1,2>>, <<2,2>>},
                        {<<0,0>>, <<0,1>>, <<1,1>>, <<2,1>>}, {<<0,0>>, <<1,0>>, <<1,1>>, <<1,2>>} >>
    [] kind = "O" -> [r \in 1 .. 4 |-> {<<0,0>>, <<1,0>>, <<0,1>>, <<1,1>>}]
    [] kind = "S" -> << {<<1,0>>, <<2,0>>, <<0,1>>, <<1,1>>}, {<<0,0>>, <<0,1>>, <<1,1>>, <<1,2>>},
                        {<<1,1>>, <<2,1>>, <<0,2>>, <<1,2>>}, {<<1,0>>, <<1,1>>, <<0,1>>, <<0,2>>} >>
    [] kind = "T" -> << {<<1,0>>, <<0,1>>, <<1,1>>, <<2,1>>}, {<<1,0>>, <<1,1>>, <<1,2>>, <<2,1>>},
                        {<<0,1>>, <<1,1>>, <<2,1>>, <<1,2>>}, {<<0,0>>, <<0,1>>, <<0,2>>, <<1,1>>} >>
    [] kind = "Z" -> << {<<0,0>>, <<1,0>>, <<1,1>>, <<2,1>>}, {<<1,0>>, <<1,1>>, <<0,1>>, <<0,2>>},
                        {<<0,1>>, <<1,1>>, <<1,2>>, <<2,2>>}, {<<1,0>>, <<1,1>>, <<0,2>>, <<0,3>>} >>

CellsOf(p) == {<<p.x + c[1], p.y + c[2]>> : c \in Shapes(p.kind)[p.rot + 1]}

(* piece_fits() *)
Fits(b, p) == CellsOf(p) \subseteq Cells /\ CellsOf(p) \cap b = {}

Full(b, y) == \A x \in 0 .. BW - 1 : <<x, y>> \in b
Dropped(b, y) == {c \in b : c[2] > y} \cup {<<c[1], c[2] + 1>> : c \in {d \in b : d[2] < y}}

\* mutant: the row that came down is not looked at
LookOnce(s) ==
  IF s.y < 0 THEN s
  ELSE IF Full(s.left, s.y) THEN [left |-> Dropped(s.left, s.y), y |-> s.y - 1, cleared |-> s.cleared + 1]
  ELSE [s EXCEPT !.y = @ - 1]

(* clear_lines(), from the bottom row up: a look at a row takes it away,   *)
(* or goes on with the row above.                                          *)
Look(s) ==
  IF s.y < 0 THEN s
  ELSE IF Full(s.left, s.y) THEN [left |-> Dropped(s.left, s.y), y |-> s.y, cleared |-> s.cleared + 1]
  ELSE [s EXCEPT !.y = @ - 1]

Sweep(b) ==
  LET at[i \in 0 .. 2 * BH] == IF i = 0 THEN [left |-> b, y |-> BH - 1, cleared |-> 0] ELSE Look(at[i - 1])
  IN  at[2 * BH]

Points(n) == <<0, 100, 300, 500, 800>>[n + 1]

(* new_piece() *)
Pieces == {[x |-> (BW \div 2) - 1, y |-> 0, kind |-> k, rot |-> 0] : k \in Kinds}

ASSUME TetrisSizes ==
  /\ {BW, BH, LevelLines} \subseteq Nat \ {0} /\ Kinds \subseteq {"I", "J", "L", "O", "S", "T", "Z"}
  /\ \A p \in Pieces : Fits({}, p)

(* lock_piece(): the next piece may not fit, which ends the game.          *)
Lock(p) ==
  LET swept == Sweep(board \cup CellsOf(p))
  IN  /\ locked < MaxLocked /\ locked' = locked + 1
      /\ board' = swept.left /\ lines' = lines + swept.cleared
      /\ score' = score + Points(swept.cleared) * ((lines \div LevelLines) + 1)
      /\ piece' \in Pieces
      /\ tover' = ~Fits(board', piece')
      /\ painted' = board' \cup CellsOf(piece')
      /\ IF tover' THEN NewBest("tetris", score') ELSE UNCHANGED prefsVars

Move(p) ==
  /\ piece' = p /\ painted' = (painted \ CellsOf(piece)) \cup CellsOf(p)
  /\ UNCHANGED <<board, score, lines, tover, locked, prefsVars>>

Playing == app = "tetris" /\ ~tover /\ UNCHANGED app
PieceRight(p) == [p EXCEPT !.x = @ + 1]
PieceLeft(p) == [p EXCEPT !.x = @ - 1]
Below(p) == [p EXCEPT !.y = @ + 1]
Rotated(p) == [p EXCEPT !.rot = (@ + 1) % 4]

(* LEFT, RIGHT, UP: where it fits.                                         *)
TetrisSteer == Playing /\ \E p \in {PieceLeft(piece), PieceRight(piece), Rotated(piece)} : Fits(board, p) /\ Move(p)

(* DOWN, and tetris_tick() whenever s_drop_ms have passed.                 *)
TetrisDown ==
  /\ Playing
  /\ IF Fits(board, Below(piece)) THEN Move(Below(piece)) ELSE Lock(piece)

(* EXE: to the lowest place below that it reaches.                         *)
Reached(p) == \A y \in piece.y .. p.y : Fits(board, [p EXCEPT !.y = y])
TetrisDrop ==
  /\ Playing
  /\ \E y \in piece.y .. BH - 1 :
       LET p == [piece EXCEPT !.y = y] IN Reached(p) /\ ~Fits(board, Below(p)) /\ Lock(p)

(* tetris_init() *)
TetrisAgain ==
  /\ app = "tetris" /\ tover
  /\ board' = {} /\ score' = 0 /\ lines' = 0 /\ locked' = 0 /\ tover' = FALSE
  /\ piece' \in Pieces /\ painted' = CellsOf(piece')
  /\ UNCHANGED <<app, prefsVars>>

(* HOME, BACK; and tetris_redraw().                                        *)
TetrisLeave ==
  /\ app = "tetris" /\ app' \in {"home", "games"} /\ painted' = {}
  /\ UNCHANGED <<board, piece, score, lines, tover, locked, prefsVars>>
TetrisShown ==
  /\ painted' = board \cup CellsOf(piece) /\ UNCHANGED <<board, piece, score, lines, tover, locked>>

TetrisInit ==
  /\ board = {} /\ score = 0 /\ lines = 0 /\ locked = 0 /\ tover = FALSE
  /\ piece \in Pieces /\ painted = {}
TetrisStep == TetrisSteer \/ TetrisDown \/ TetrisDrop \/ TetrisAgain \/ TetrisLeave

-----------------------------------------------------------------------------
(* Every cell is accounted for: those of the pieces that were locked are   *)
(* on the board or in a line that was cleared; no full line stays; the     *)
(* falling piece overlaps nothing until the game is over; and the screen,  *)
(* drawn piece by piece, shows no trail of what moved.                     *)
TetrisAddsUp ==
  /\ Cardinality(board) + BW * lines = 4 * locked
  /\ \A y \in 0 .. BH - 1 : ~Full(board, y)
  /\ tover \/ Fits(board, piece)
  /\ app = "tetris" => painted = board \cup CellsOf(piece)
=============================================================================

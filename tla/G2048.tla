-------------------------------- MODULE G2048 --------------------------------
(***************************************************************************)
(* apps/games/g2048.c.  A tile is its exponent, 0 where there is none.     *)
(***************************************************************************)
EXTENDS AppState, SequencesExt

CONSTANTS
  Rows, Columns,   \* 4 and 4
  Goal,            \* the exponent that wins: 11
  MaxScore         \* bound: a game is played on below this score

ASSUME Game2048Sizes == {Rows, Columns} \subseteq Nat \ {0, 1}

VARIABLES
  tiles,           \* s_board
  points,          \* s_score
  gover, won,      \* s_over, s_won
  fours            \* history: how many tiles of 4 appeared by themselves

g2048 == <<tiles, points, gover, won, fours>>

Squares == (0 .. Rows - 1) \X (0 .. Columns - 1)

-----------------------------------------------------------------------------
(* A direction's lines are numbered, and their squares, from the edge that *)
(* is slid to: how many lines there are, how long, and where a square is.  *)
Directions == {"left", "right", "up", "down"}
Across(d) == IF d \in {"left", "right"} THEN Rows ELSE Columns
Along(d) == IF d \in {"left", "right"} THEN Columns ELSE Rows
Square(d, i, j) ==
  CASE d = "left"  -> <<i, j - 1>> [] d = "right" -> <<i, Columns - j>>
    [] d = "up"    -> <<j - 1, i>> [] d = "down"  -> <<Rows - j, i>>
Place(d, s) ==
  CASE d = "left"  -> <<s[1], s[2] + 1>> [] d = "right" -> <<s[1], Columns - s[2]>>
    [] d = "up"    -> <<s[2], s[1] + 1>> [] d = "down"  -> <<s[2], Rows - s[1]>>

(* What a tile shows.                                                      *)
Face[e \in Nat] == IF e = 0 THEN 1 ELSE 2 * Face[e - 1]

\* mutant: a tile that was merged merges again
MetTwice(s, e) ==
  IF e = 0 THEN s
  ELSE IF s.out # <<>> /\ Last(s.out) = e
  THEN [out |-> Append(Front(s.out), e + 1), merged |-> TRUE, got |-> s.got + Face[e + 1]]
  ELSE [out |-> Append(s.out, e), merged |-> FALSE, got |-> s.got]

(* slide_line(): two tiles that meet merge, once, for their sum.           *)
Met(s, e) ==
  IF e = 0 THEN s
  ELSE IF s.out # <<>> /\ ~s.merged /\ Last(s.out) = e
  THEN [out |-> Append(Front(s.out), e + 1), merged |-> TRUE, got |-> s.got + Face[e + 1]]
  ELSE [out |-> Append(s.out, e), merged |-> FALSE, got |-> s.got]

LineOf(b, d, i) ==
  LET at[j \in 0 .. Along(d)] ==
        IF j = 0 THEN [out |-> <<>>, merged |-> FALSE, got |-> 0] ELSE Met(at[j - 1], b[Square(d, i, j)])
  IN  at[Along(d)]

(* g2048_slide() *)
Slid(b, d) ==
  [s \in Squares |->
     LET p == Place(d, s)
         v == LineOf(b, d, p[1]).out
     IN  IF p[2] <= Len(v) THEN v[p[2]] ELSE 0]
Gained(b, d) ==
  LET at[i \in 0 .. Across(d)] == IF i = 0 THEN 0 ELSE at[i - 1] + LineOf(b, d, i - 1).got
  IN  at[Across(d)]

\* mutant: the last column has a neighbour in the next row's first only
CanMoveRows(b) ==
  \E r \in 0 .. Rows - 1, c \in 0 .. Columns - 1 :
    b[<<r, c>>] = 0 \/ (c < Columns - 1 /\ b[<<r, c>>] = b[<<r, c + 1>>])

(* g2048_can_move() *)
CanMove(b) ==
  \E r \in 0 .. Rows - 1, c \in 0 .. Columns - 1 :
    \/ b[<<r, c>>] = 0
    \/ c < Columns - 1 /\ b[<<r, c>>] = b[<<r, c + 1>>]
    \/ r < Rows - 1 /\ b[<<r, c>>] = b[<<r + 1, c>>]

(* add_tile(): a 2 or a 4 on an empty square; the board after it.          *)
WithTile(b) == {[b EXCEPT ![s] = e] : s \in {s \in Squares : b[s] = 0}, e \in {1, 2}}
FoursIn(b, a) == Cardinality({s \in Squares : a[s] # b[s] /\ a[s] = 2})

-----------------------------------------------------------------------------
NoTiles == [s \in Squares |-> 0]
Starts == UNION {WithTile(b) : b \in WithTile(NoTiles)}

G2048Move ==
  /\ app = "2048" /\ ~gover /\ points < MaxScore
  /\ \E d \in Directions :
       LET b == Slid(tiles, d)
       IN  /\ b # tiles /\ points' = points + Gained(tiles, d)
           /\ tiles' \in WithTile(b) /\ fours' = fours + FoursIn(b, tiles')
  /\ won' = (won \/ \E s \in Squares : tiles'[s] >= Goal) /\ gover' = ~CanMove(tiles')
  /\ IF gover' THEN NewBest("2048", points') ELSE UNCHANGED prefsVars
  /\ UNCHANGED app

(* g2048_init() *)
G2048Again ==
  /\ app = "2048" /\ (gover \/ won)
  /\ tiles' \in Starts /\ fours' = FoursIn(NoTiles, tiles') /\ points' = 0 /\ gover' = FALSE /\ won' = FALSE
  /\ UNCHANGED <<app, prefsVars>>

(* HOME, BACK: an unfinished game counts too.                              *)
G2048Leave ==
  /\ app = "2048" /\ app' \in {"home", "games"} /\ NewBest("2048", points)
  /\ UNCHANGED g2048

G2048Init ==
  /\ tiles \in Starts /\ fours = FoursIn(NoTiles, tiles) /\ points = 0 /\ gover = FALSE /\ won = FALSE
G2048Step == G2048Move \/ G2048Again \/ G2048Leave

-----------------------------------------------------------------------------
(* The sum of f over the squares of T.                                     *)
SumOf(f, T) ==
  LET sum[S \in SUBSET T] == IF S = {} THEN 0 ELSE LET s == CHOOSE s \in S : TRUE IN f[s] + sum[S \ {s}]
  IN  sum[T]

(* How many tiles there are, and what they were worth to whoever made them *)
(* out of twos.                                                            *)
Tiles(b) == SumOf([s \in Squares |-> IF b[s] = 0 THEN 0 ELSE 1], Squares)
Worth(e) == IF e = 0 THEN 0 ELSE (e - 1) * Face[e]

(* Every tile was made of the twos and fours that appeared, and the score  *)
(* is what those merges are worth; "once per move": no tile is made of     *)
(* more than two; the game is over exactly when no direction moves a tile, *)
(* which two different loops of the code decide.                           *)
G2048AddsUp ==
  /\ points + 4 * fours = SumOf([s \in Squares |-> Worth(tiles[s])], Squares)
  /\ \A d \in Directions : 2 * Tiles(Slid(tiles, d)) >= Tiles(tiles)
  /\ gover <=> \A d \in Directions : Slid(tiles, d) = tiles
=============================================================================

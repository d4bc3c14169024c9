-------------------------------- MODULE Snake --------------------------------
(***************************************************************************)
(* apps/games/snake.c.  The ring s_body is the sequence of the snake's     *)
(* cells, the head first; the screen is what every cell of the field       *)
(* shows, painted cell by cell between two redraws.                        *)
(***************************************************************************)
EXTENDS AppState

CONSTANTS SNAKE_W, SNAKE_H

(* A snake of three cells has room when it starts.                         *)
ASSUME SnakeSizes == {SNAKE_W, SNAKE_H} \subseteq Nat \ {0} /\ SNAKE_W >= 4

VARIABLES
  body, occupied,     \* s_body with s_head and s_len; s_occupied
  dir, nextDir,       \* s_dir, s_next_dir: 0 up, 1 right, 2 down, 3 left
  apple,              \* s_apple, or NoApple
  eaten,              \* s_score
  started, sover,     \* s_started, s_over
  snakeScreen               \* the screen

snake == <<body, occupied, dir, nextDir, apple, eaten, started, sover, snakeScreen>>

Field == (0 .. SNAKE_W - 1) \X (0 .. SNAKE_H - 1)
NoApple == <<-1, -1>>
SnakeCells == {body[i] : i \in DOMAIN body}

Ahead(c, d) ==
  CASE d = 0 -> <<c[1], c[2] - 1>> [] d = 1 -> <<c[1] + 1, c[2]>>
    [] d = 2 -> <<c[1], c[2] + 1>> [] d = 3 -> <<c[1] - 1, c[2]>>

(* snake_redraw() *)
FieldOf(b, a) ==
  [c \in Field |-> IF c = a THEN "apple" ELSE IF c = b[1] THEN "head"
                   ELSE IF \E i \in DOMAIN b : b[i] = c THEN "snake" ELSE "free"]

(* place_apple(): none on a field that is full.                            *)
Apples(b, occ) == IF Len(b) >= SNAKE_W * SNAKE_H THEN {NoApple} ELSE Field \ occ

-----------------------------------------------------------------------------
(* snake_init(): three cells, the head to the right.                       *)
StartBody ==
  LET s == (SNAKE_W \div 2) - 2  y == SNAKE_H \div 2 IN <<<<s + 2, y>>, <<s + 1, y>>, <<s, y>>>>
StartCells == {StartBody[i] : i \in 1 .. 3}

\* mutant: the tail's cell is marked free after the head came
SnakeMovedLate(c, tail) ==
  /\ body' = <<c>> \o SubSeq(body, 1, Len(body) - 1) /\ occupied' = (occupied \cup {c}) \ {tail}
  /\ snakeScreen' = [snakeScreen EXCEPT ![body[1]] = "snake", ![c] = "head", ![tail] = "free"]
  /\ UNCHANGED <<apple, eaten>>

(* step(): to a free cell, or to the one the tail leaves.                  *)
SnakeMoved(c, tail) ==
  /\ body' = <<c>> \o SubSeq(body, 1, Len(body) - 1) /\ occupied' = (occupied \ {tail}) \cup {c}
  /\ snakeScreen' = [snakeScreen EXCEPT ![body[1]] = "snake", ![tail] = "free", ![c] = "head"]
  /\ UNCHANGED <<apple, eaten>>

SnakeAte(c) ==
  /\ body' = <<c>> \o body /\ occupied' = occupied \cup {c} /\ eaten' = eaten + 10
  /\ apple' \in Apples(body', occupied')
  /\ LET f == [snakeScreen EXCEPT ![body[1]] = "snake", ![c] = "head"]
     IN  snakeScreen' = IF apple' = NoApple THEN f ELSE [f EXCEPT ![apple'] = "apple"]

(* A wall or the snake itself: the game is over.                           *)
SnakeHits(c, tail) == c \notin Field \/ (c \in occupied /\ (c = apple \/ c # tail))

(* snake_tick(), whenever s_step_ms have passed.                           *)
SnakeStep ==
  LET c == Ahead(body[1], nextDir)  tail == body[Len(body)]
  IN  /\ app = "snake" /\ started /\ ~sover /\ dir' = nextDir
      /\ IF SnakeHits(c, tail)
         THEN /\ sover' = TRUE /\ NewBest("snake", eaten) /\ snakeScreen' = FieldOf(body, apple)
              /\ UNCHANGED <<body, occupied, apple, eaten>>
         ELSE /\ (IF c = apple THEN SnakeAte(c) ELSE SnakeMoved(c, tail))
              /\ UNCHANGED <<sover, prefsVars>>
      /\ UNCHANGED <<app, nextDir, started>>

(* An arrow; the first one starts the game.                                *)
SnakeSteer ==
  /\ app = "snake" /\ ~sover
  /\ \E d \in 0 .. 3 : ((d + 2) % 4 # dir \/ ~started) /\ nextDir' = d
  /\ started' = TRUE /\ snakeScreen' = (IF started THEN snakeScreen ELSE FieldOf(body, apple))
  /\ UNCHANGED <<app, prefsVars, body, occupied, dir, apple, eaten, sover>>

SnakeAgain ==
  /\ app = "snake" /\ sover
  /\ body' = StartBody /\ occupied' = StartCells /\ dir' = 1 /\ nextDir' = 1 /\ eaten' = 0
  /\ started' = FALSE /\ sover' = FALSE /\ apple' \in Field \ occupied'
  /\ snakeScreen' = FieldOf(body', apple')
  /\ UNCHANGED <<app, prefsVars>>

SnakeLeave ==
  /\ app = "snake" /\ app' \in {"home", "games"} /\ NewBest("snake", eaten)
  /\ UNCHANGED <<body, occupied, dir, nextDir, apple, eaten, started, sover>> /\ snakeScreen' = <<>>
SnakeShown ==
  snakeScreen' = FieldOf(body, apple) /\ UNCHANGED <<body, occupied, dir, nextDir, apple, eaten, started, sover>>

SnakeInit ==
  /\ body = StartBody /\ occupied = StartCells /\ dir = 1 /\ nextDir = 1 /\ eaten = 0
  /\ started = FALSE /\ sover = FALSE /\ apple \in Field \ occupied /\ snakeScreen = <<>>
SnakeNext == SnakeStep \/ SnakeSteer \/ SnakeAgain \/ SnakeLeave

-----------------------------------------------------------------------------
(* What the code keeps three times over agrees: the ring of cells, the map *)
(* of occupied cells and what is painted on the field, also when the head  *)
(* takes the cell that the tail leaves and when the snake fills the field; *)
(* the apple is on a free cell, and the score is the growth.               *)
SnakeWhole ==
  /\ occupied = SnakeCells /\ Cardinality(occupied) = Len(body)
  /\ apple \in Field \ occupied \/ (apple = NoApple /\ occupied = Field)
  /\ eaten = 10 * (Len(body) - 3)
  /\ app = "snake" => snakeScreen = FieldOf(body, apple)
=============================================================================

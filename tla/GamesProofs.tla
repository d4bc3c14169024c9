----------------------------- MODULE GamesProofs -----------------------------
(***************************************************************************)
(* Theorems about the games and the settings, in the apps together: for    *)
(* boards of any size, any shapes and any settings.  At first, induction   *)
(* over 0 .. n in the forms that the other lemmas use.                     *)
(***************************************************************************)
EXTENDS Apps, TLAPS, FiniteSetTheorems, SequenceTheorems, WellFoundedInduction

-----------------------------------------------------------------------------
(* Induction and recursion over 0 .. n, for sets and functions: the forms  *)
(* in which the other lemmas use them.                                     *)

LEMMA Smallest ==
  ASSUME NEW S \in SUBSET Nat, S # {}
  PROVE  \E x \in S : \A y \in S : x <= y
<1>1. PICK x \in S : \A y \in S : ~(<<y, x>> \in OpToRel(<, Nat))
  BY NatLessThanWellFounded, WFMin, Zenon
<1>2. \A y \in S : x <= y
  <2> SUFFICES ASSUME NEW y \in S, y < x PROVE FALSE
    OBVIOUS
  <2>1. <<y, x>> \in OpToRel(<, Nat)
    BY DEF OpToRel
  <2>. QED BY <1>1, <2>1
<1>. QED BY <1>2

(* What holds at 0, and at the next when it holds at one, holds up to n.   *)
LEMMA UpTo0 ==
  ASSUME NEW n \in Nat, NEW P, 0 \in P, \A i \in 0 .. n - 1 : i \in P => i + 1 \in P
  PROVE  \A i \in 0 .. n : i \in P
<1> DEFINE S == (0 .. n) \ P
<1>1. SUFFICES ASSUME S # {} PROVE FALSE
  OBVIOUS
<1>2. PICK m \in S : \A y \in S : m <= y
  <2>1. S \in SUBSET Nat
    OBVIOUS
  <2>. HIDE DEF S
  <2>. QED BY <1>1, <2>1, Smallest
<1>3. m \in 0 .. n /\ m \notin P /\ m # 0
  OBVIOUS
<1>4. m - 1 \in 0 .. n - 1 /\ ~(m <= m - 1) /\ (m - 1) + 1 = m
  BY <1>3
<1>5. m - 1 \notin S
  <2>. HIDE DEF S
  <2>. QED BY <1>2, <1>4
<1>6. m - 1 \in P
  BY <1>4, <1>5
<1>. QED BY <1>3, <1>4, <1>6

(* There is a function that begins with start and goes on by step.  (The   *)
(* two names keep the prover from expanding the sets of functions.)        *)
Steps(step, S, n) == step \in [S \X (1 .. n) -> S]
Goes(f, S, start, step, n) ==
  /\ f \in [0 .. n -> S] /\ f[0] = start
  /\ \A i \in 1 .. n : f[i] = step[<<f[i - 1], i>>]

LEMMA Recursion ==
  ASSUME NEW n \in Nat, NEW S, NEW start \in S, NEW step, Steps(step, S, n)
  PROVE  \E f : Goes(f, S, start, step, n)
<1> USE DEF Steps, Goes
<1> DEFINE Good(m, f) == f \in [0 .. m -> S] /\ f[0] = start /\ \A i \in 1 .. m : f[i] = step[<<f[i - 1], i>>]
           P == {m \in 0 .. n : \E f : Good(m, f)}
<1>1. 0 \in P
  <2>1. Good(0, [i \in 0 .. 0 |-> start])
    OBVIOUS
  <2>. HIDE DEF Good
  <2>. QED BY <2>1
<1>2. ASSUME NEW m \in 0 .. n - 1, m \in P PROVE m + 1 \in P
  <2>1. PICK f : Good(m, f)
    BY <1>2
  <2> DEFINE g == [i \in 0 .. m + 1 |-> IF i = m + 1 THEN step[<<f[m], m + 1>>] ELSE f[i]]
  <2>2. f[m] \in S /\ <<f[m], m + 1>> \in S \X (1 .. n)
    BY <2>1
  <2>3. step[<<f[m], m + 1>>] \in S
    BY <2>2
  <2>4. g \in [0 .. m + 1 -> S]
    BY <2>1, <2>3
  <2>5. ASSUME NEW i \in 1 .. m + 1 PROVE g[i] = step[<<g[i - 1], i>>]
    <3>1. i - 1 \in 0 .. m /\ i - 1 # m + 1 /\ i - 1 \in 0 .. m + 1
      OBVIOUS
    <3>2. g[i - 1] = f[i - 1]
      BY <3>1
    <3>3. CASE i = m + 1
      <4>1. g[i] = step[<<f[m], m + 1>>] /\ i - 1 = m
        BY <3>3
      <4>. QED BY <3>2, <3>3, <4>1
    <3>4. CASE i # m + 1
      <4>1. i \in 1 .. m /\ g[i] = f[i]
        BY <3>4
      <4>2. f[i] = step[<<f[i - 1], i>>]
        BY <2>1, <4>1
      <4>. QED BY <3>2, <4>1, <4>2
    <3>. QED BY <3>3, <3>4
  <2>6. g[0] = start
    BY <2>1
  <2>7. Good(m + 1, g)
    <3>. HIDE DEF g
    <3>. QED BY <2>4, <2>5, <2>6
  <2>8. m + 1 \in 0 .. n
    OBVIOUS
  <2>. HIDE DEF g, Good
  <2>. QED BY <2>7, <2>8
<1>. HIDE DEF P
<1>3. n \in P
  BY <1>1, <1>2, UpTo0
<1>. QED BY <1>3 DEF P

-----------------------------------------------------------------------------
(* Snake.                                                                  *)
Ring(b) ==
  /\ b \in Seq(Field) /\ Len(b) \in Nat /\ Len(b) >= 3
  /\ \A i, j \in 1 .. Len(b) : b[i] = b[j] => i = j
CellsIn(b) == {b[i] : i \in 1 .. Len(b)}
SnakeInv ==
  /\ Ring(body) /\ occupied = CellsIn(body) /\ IsFiniteSet(occupied) /\ Cardinality(occupied) = Len(body)
  /\ apple \in Field \ occupied \/ (apple = NoApple /\ occupied = Field)
  /\ eaten = 10 * (Len(body) - 3)
  /\ part = "snake" /\ app = "snake" => snakeScreen = FieldOf(body, apple)

LEMMA SnakeInvHolds == SnakeInv => (part = "snake" => SnakeWhole)
<1> SUFFICES ASSUME SnakeInv, part = "snake" PROVE SnakeWhole
  OBVIOUS
<1>1. DOMAIN body = 1 .. Len(body)
  BY DEF SnakeInv, Ring
<1>. QED BY <1>1 DEF SnakeInv, SnakeWhole, SnakeCells, CellsIn

LEMMA FieldSize == IsFiniteSet(Field) /\ Cardinality(Field) = SNAKE_W * SNAKE_H /\ NoApple \notin Field
<1>1. SNAKE_W \in Nat \ {0} /\ SNAKE_H \in Nat \ {0}
  BY SnakeSizes
<1> DEFINE xs == 0 .. SNAKE_W - 1
           ys == 0 .. SNAKE_H - 1
<1>2. IsFiniteSet(xs) /\ Cardinality(xs) = SNAKE_W /\ IsFiniteSet(ys) /\ Cardinality(ys) = SNAKE_H
  BY <1>1, FS_Interval
<1>3. NoApple \notin Field
  BY <1>1 DEF NoApple, Field
<1>4. Field = xs \X ys
  BY DEF Field
<1>. HIDE DEF xs, ys
<1>. QED BY <1>2, <1>3, <1>4, FS_Product

(* Three cells at the start, next to each other.                           *)
LEMMA StartRing ==
  /\ Ring(StartBody) /\ StartCells = CellsIn(StartBody) /\ IsFiniteSet(StartCells)
  /\ Cardinality(StartCells) = 3 /\ Len(StartBody) = 3
<1>1. SNAKE_W \in Nat /\ SNAKE_W >= 4 /\ SNAKE_H \in Nat \ {0}
  BY SnakeSizes
<1> DEFINE s == (SNAKE_W \div 2) - 2
           y == SNAKE_H \div 2
           a == <<s + 2, y>>
           b == <<s + 1, y>>
           c == <<s, y>>
<1>2. s \in 0 .. SNAKE_W - 3 /\ y \in 0 .. SNAKE_H - 1
  BY <1>1
<1>3. {a, b, c} \subseteq Field /\ a # b /\ a # c /\ b # c
  BY <1>1, <1>2 DEF Field
<1>4. StartBody = <<a, b, c>>
  BY DEF StartBody
<1>. HIDE DEF a, b, c
<1>5. Ring(StartBody) /\ Len(StartBody) = 3
  BY <1>3, <1>4 DEF Ring
<1>6. StartCells = {a, b, c} /\ CellsIn(StartBody) = {a, b, c}
  BY <1>4, <1>5 DEF StartCells, CellsIn
<1>7. IsFiniteSet({a}) /\ Cardinality({a}) = 1
  BY FS_Singleton
<1>8. IsFiniteSet({a} \cup {b}) /\ Cardinality({a} \cup {b}) = 2
  BY <1>3, <1>7, FS_AddElement
<1>9. IsFiniteSet(({a} \cup {b}) \cup {c}) /\ Cardinality(({a} \cup {b}) \cup {c}) = 3
  BY <1>3, <1>8, FS_AddElement
<1>10. ({a} \cup {b}) \cup {c} = {a, b, c}
  OBVIOUS
<1>. QED BY <1>5, <1>6, <1>9, <1>10

(* The ring with a new head, and the old cells up to the n-th.             *)
Grown(b, c, n) == <<c>> \o SubSeq(b, 1, n)
GrownIs(a, b, c, n) ==
  /\ Ring(a) /\ Len(a) = n + 1 /\ a[1] = c /\ \A i \in 1 .. n : a[i + 1] = b[i]
  /\ CellsIn(a) = {b[i] : i \in 1 .. n} \cup {c}

LEMMA NewHead ==
  ASSUME NEW b, Ring(b), NEW c \in Field, NEW n \in Nat, 2 <= n, n <= Len(b), \A i \in 1 .. n : b[i] # c
  PROVE  GrownIs(Grown(b, c, n), b, c, n)
<1> DEFINE a == Grown(b, c, n)
<1>1. b \in Seq(Field) /\ Len(b) \in Nat /\ n \in Nat /\ n <= Len(b)
  BY DEF Ring
<1> DEFINE t == SubSeq(b, 1, n)
<1>2. t \in Seq(Field) /\ Len(t) = n /\ \A i \in 1 .. n : t[i] = b[i]
  BY <1>1
<1>3. a = <<c>> \o t
  BY DEF Grown
<1>. HIDE DEF a, t
<1>4. a \in Seq(Field) /\ Len(a) = n + 1 /\ a[1] = c
  BY <1>1, <1>2, <1>3
<1>5. \A i \in 1 .. n : a[i + 1] = b[i]
  BY <1>1, <1>2, <1>3
<1>6. \A i \in 2 .. n + 1 : i - 1 \in 1 .. n /\ a[i] = b[i - 1]
  <2> TAKE i \in 2 .. n + 1
  <2>1. i - 1 \in 1 .. n /\ (i - 1) + 1 = i
    BY <1>1
  <2>. QED BY <1>5, <2>1
<1>7. ASSUME NEW i \in 1 .. n + 1, NEW j \in 1 .. n + 1, a[i] = a[j] PROVE i = j
  <2>1. CASE i = 1 /\ j = 1
    BY <2>1
  <2>2. CASE i # 1 /\ j # 1
    <3>1. i \in 2 .. n + 1 /\ j \in 2 .. n + 1
      BY <1>1, <2>2
    <3>2. i - 1 \in 1 .. Len(b) /\ j - 1 \in 1 .. Len(b) /\ b[i - 1] = b[j - 1]
      BY <1>1, <1>6, <1>7, <3>1
    <3>3. i - 1 = j - 1
      BY <3>2 DEF Ring
    <3>. QED BY <3>3
  <2>3. CASE i = 1 /\ j # 1
    <3>1. j \in 2 .. n + 1
      BY <1>1, <2>3
    <3>. QED BY <1>4, <1>6, <1>7, <2>3, <3>1
  <2>4. CASE i # 1 /\ j = 1
    <3>1. i \in 2 .. n + 1
      BY <1>1, <2>4
    <3>. QED BY <1>4, <1>6, <1>7, <2>4, <3>1
  <2>. QED BY <2>1, <2>2, <2>3, <2>4
<1>8. Ring(a)
  BY <1>1, <1>4, <1>7 DEF Ring
<1>9. CellsIn(a) = {b[i] : i \in 1 .. n} \cup {c}
  <2>1. ASSUME NEW x \in CellsIn(a) PROVE x \in {b[i] : i \in 1 .. n} \cup {c}
    <3>1. PICK i \in 1 .. n + 1 : x = a[i]
      BY <1>4, <2>1 DEF CellsIn
    <3>2. CASE i = 1
      BY <1>4, <3>1, <3>2
    <3>3. CASE i # 1
      BY <1>1, <1>6, <3>1, <3>3
    <3>. QED BY <3>2, <3>3
  <2>2. ASSUME NEW i \in 1 .. n PROVE b[i] \in CellsIn(a)
    <3>1. i + 1 \in 1 .. Len(a)
      BY <1>1, <1>4
    <3>. QED BY <1>5, <3>1 DEF CellsIn
  <2>3. c \in CellsIn(a)
    <3>1. 1 \in 1 .. Len(a)
      BY <1>1, <1>4
    <3>. QED BY <1>4, <3>1 DEF CellsIn
  <2>. QED BY <2>1, <2>2, <2>3
<1>. QED BY <1>4, <1>5, <1>8, <1>9 DEF GrownIs, a

(* What a cell of the field shows.                                         *)
LEMMA FieldShows ==
  ASSUME NEW b, b \in Seq(Field), NEW a
  PROVE  /\ FieldOf(b, a) = [c \in Field |-> FieldOf(b, a)[c]]
         /\ \A c \in Field : FieldOf(b, a)[c] = IF c = a THEN "apple" ELSE IF c = b[1] THEN "head"
                                                ELSE IF c \in CellsIn(b) THEN "snake" ELSE "free"
<1>1. DOMAIN b = 1 .. Len(b)
  OBVIOUS
<1>. QED BY <1>1 DEF FieldOf, CellsIn

LEMMA SnakeFrame ==
  ASSUME [AppsNext]_appsVars
  PROVE  /\ part' = part
         /\ \/ part = "snake" /\ (SnakeNext \/ OpenSnake)
            \/ part # "snake" /\ UNCHANGED snake
            \/ UNCHANGED <<snake, app, prefsVars>>
<1>1. CASE UNCHANGED appsVars
  BY <1>1 DEF appsVars, vars
<1>2. CASE \E p \in {"files", "tetris", "2048", "settings", "scripts", "shell", "calculator", "statistics",
                     "functions", "equations", "menus", "python", "console", "input", "colours"} : In(p)
  BY <1>2 DEF In
<1>3. CASE In("snake") /\ SnakeNext
  BY <1>3 DEF In
<1>4. CASE OpenSnake
  BY <1>4 DEF OpenSnake, In
<1>5. OpenApp => OpenSnake \/ \E p \in {"tetris", "2048", "settings", "statistics", "scripts", "shell",
                        "calculator", "functions", "equations", "python"} : In(p)
  BY DEF OpenApp, OpenTetris, Open2048, OpenSettings, OpenStatistics, OpenScripts, OpenShell, OpenCalculator,
         OpenFunctions, OpenEquations, OpenPython
<1>. QED BY <1>1, <1>2, <1>3, <1>4, <1>5 DEF AppsNext

LEMMA SnakeStarts == AppsInit => SnakeInv
<1> SUFFICES ASSUME AppsInit PROVE SnakeInv
  OBVIOUS
<1>1. SnakeInit /\ app # "snake"
  BY DEF AppsInit, Init
<1>. QED BY <1>1, StartRing DEF SnakeInit, SnakeInv

(* One step of the snake.                                                  *)
LEMMA SnakeMoves ==
  ASSUME SnakeInv, app = "snake", part = "snake", NEW c, NEW tail,
         tail = body[Len(body)], ~SnakeHits(c, tail), c # apple, SnakeMoved(c, tail), app' = app, part' = part
  PROVE  SnakeInv'
<1> DEFINE n == Len(body) - 1
<1>1. /\ Ring(body) /\ body \in Seq(Field) /\ Len(body) \in Nat /\ Len(body) >= 3 /\ n \in 2 .. Len(body) /\ n \in Nat
      /\ n + 1 = Len(body)
  BY DEF SnakeInv, Ring
<1>2. /\ c \in Field /\ (c \in CellsIn(body) => c = tail) /\ occupied = CellsIn(body)
      /\ apple \in Field \ occupied \/ (apple = NoApple /\ occupied = Field)
      /\ snakeScreen = FieldOf(body, apple)
  BY DEF SnakeHits, SnakeInv
<1>3. \A i \in 1 .. n : i \in 1 .. Len(body) /\ body[i] # tail /\ body[i] # c
  <2>1. ASSUME NEW i \in 1 .. n PROVE i \in 1 .. Len(body) /\ Len(body) \in 1 .. Len(body) /\ i # Len(body)
    <3>1. Len(body) \in Nat /\ Len(body) >= 3
      BY <1>1
    <3>. QED BY ONLY <3>1
  <2>2. \A i \in 1 .. n : body[i] # tail
    BY <1>1, <2>1 DEF Ring
  <2>. QED BY <1>2, <2>1, <2>2 DEF CellsIn
<1>4. body' = <<c>> \o SubSeq(body, 1, n)
  BY DEF SnakeMoved
<1>5. /\ Ring(body') /\ Len(body') = n + 1 /\ body'[1] = c /\ \A i \in 1 .. n : body'[i + 1] = body[i]
      /\ CellsIn(body') = {body[i] : i \in 1 .. n} \cup {c}
  <2>1. Ring(body) /\ c \in Field /\ n \in Nat /\ 2 <= n /\ n <= Len(body) /\ \A i \in 1 .. n : body[i] # c
    BY <1>1, <1>2, <1>3
  <2>2. body' = Grown(body, c, n)
    BY <1>4 DEF Grown
  <2>. HIDE DEF n
  <2>3. GrownIs(Grown(body, c, n), body, c, n)
    BY ONLY <2>1, NewHead
  <2>. QED BY <2>2, <2>3 DEF GrownIs
<1>6. CellsIn(body) = {body[i] : i \in 1 .. n} \cup {tail}
  <2>1. \A i \in 1 .. Len(body) : i \in 1 .. n \/ i = Len(body)
    <3>1. Len(body) \in Nat /\ Len(body) >= 3
      BY <1>1
    <3>. QED BY ONLY <3>1
  <2>2. Len(body) \in 1 .. Len(body)
    BY <1>1
  <2>. HIDE DEF n
  <2>. QED BY <1>3, <2>1, <2>2 DEF CellsIn
<1>7. tail \notin {body[i] : i \in 1 .. n} /\ c \notin {body[i] : i \in 1 .. n}
  BY <1>3
<1>. HIDE DEF n
<1>8. occupied' = (occupied \ {tail}) \cup {c} /\ occupied' = CellsIn(body')
  BY <1>2, <1>5, <1>6, <1>7 DEF SnakeMoved
<1>9. IsFiniteSet(occupied') /\ Cardinality(occupied') = Len(body')
  <2>1. IsFiniteSet(occupied) /\ Cardinality(occupied) = Len(body) /\ tail \in occupied
    BY <1>2, <1>6 DEF SnakeInv
  <2>2. IsFiniteSet(occupied \ {tail}) /\ Cardinality(occupied \ {tail}) = Len(body) - 1
    BY <2>1, FS_RemoveElement
  <2>3. c \notin occupied \ {tail}
    BY <1>2
  <2>4. Cardinality((occupied \ {tail}) \cup {c}) = (Len(body) - 1) + 1 /\ IsFiniteSet((occupied \ {tail}) \cup {c})
    BY ONLY <2>2, <2>3, FS_AddElement
  <2>. QED BY <1>1, <1>5, <1>8, <2>4
<1>10. UNCHANGED <<apple, eaten>>
  BY DEF SnakeMoved
<1>11. apple' \in Field \ occupied' \/ (apple' = NoApple /\ occupied' = Field)
  <2>1. CASE apple \in Field \ occupied
    BY <1>8, <1>10, <2>1
  <2>2. CASE apple = NoApple /\ occupied = Field
    <3>1. c = tail /\ tail \in occupied
      BY <1>2, <1>6, <2>2
    <3>. QED BY <1>8, <1>10, <2>2, <3>1
  <2>. QED BY <1>2, <2>1, <2>2
<1>12. snakeScreen' = FieldOf(body', apple')
  <2>1. /\ \A x \in Field : snakeScreen[x] = IF x = apple THEN "apple" ELSE IF x = body[1] THEN "head"
                                             ELSE IF x \in CellsIn(body) THEN "snake" ELSE "free"
        /\ DOMAIN snakeScreen = Field
    BY <1>1, <1>2, FieldShows
  <2>2. /\ \A x \in Field : FieldOf(body', apple)[x] = IF x = apple THEN "apple" ELSE IF x = c THEN "head"
                                             ELSE IF x \in CellsIn(body') THEN "snake" ELSE "free"
        /\ FieldOf(body', apple) = [x \in Field |-> FieldOf(body', apple)[x]]
    BY <1>5, FieldShows DEF Ring
  <2>3. snakeScreen' = [snakeScreen EXCEPT ![body[1]] = "snake", ![tail] = "free", ![c] = "head"]
    BY DEF SnakeMoved
  <2>4. 1 \in 1 .. n /\ body[1] \in CellsIn(body') /\ body[1] # tail /\ body[1] # c
    BY <1>1, <1>3, <1>5
  <2>5. (apple # c /\ apple # tail /\ apple # body[1]) \/ apple \notin Field
    BY <1>2, <1>6, <2>4, FieldSize
  <2>6. \A x : x \notin {c, tail} => (x \in CellsIn(body) <=> x \in CellsIn(body'))
    BY <1>5, <1>6
  <2>7. tail # c => tail \notin CellsIn(body')
    BY <1>5, <1>7
  <2>8. ASSUME NEW x \in Field PROVE snakeScreen'[x] = FieldOf(body', apple)[x]
    <3>1. snakeScreen'[x] = IF x = c THEN "head" ELSE IF x = tail THEN "free" ELSE IF x = body[1] THEN "snake"
                            ELSE snakeScreen[x]
      BY <2>1, <2>3
    <3>. QED BY <2>1, <2>2, <2>4, <2>5, <2>6, <2>7, <3>1
  <2>9. snakeScreen' = [x \in Field |-> snakeScreen'[x]]
    BY <2>1, <2>3
  <2>. QED BY <1>10, <2>2, <2>8, <2>9
<1>. QED BY <1>1, <1>5, <1>8, <1>9, <1>10, <1>11, <1>12 DEF SnakeInv

LEMMA SnakeEats ==
  ASSUME SnakeInv, app = "snake", part = "snake", ~SnakeHits(apple, body[Len(body)]), SnakeAte(apple),
         app' = app, part' = part
  PROVE  SnakeInv'
<1> DEFINE n == Len(body)
<1>1. /\ Ring(body) /\ body \in Seq(Field) /\ n \in Nat /\ n >= 3 /\ n \in 2 .. Len(body)
  BY DEF SnakeInv, Ring
<1>2. /\ apple \in Field /\ apple \notin CellsIn(body) /\ occupied = CellsIn(body)
      /\ snakeScreen = FieldOf(body, apple)
  BY FieldSize DEF SnakeHits, SnakeInv
<1>3. \A i \in 1 .. n : body[i] # apple
  BY <1>2 DEF CellsIn
<1>4. body' = <<apple>> \o SubSeq(body, 1, n)
  <2>1. SubSeq(body, 1, Len(body)) = body
    BY <1>1
  <2>. QED BY <2>1 DEF SnakeAte
<1>5. /\ Ring(body') /\ Len(body') = n + 1 /\ body'[1] = apple /\ \A i \in 1 .. n : body'[i + 1] = body[i]
      /\ CellsIn(body') = {body[i] : i \in 1 .. n} \cup {apple}
  <2>1. Ring(body) /\ apple \in Field /\ n \in Nat /\ 2 <= n /\ n <= Len(body) /\ \A i \in 1 .. n : body[i] # apple
    BY <1>1, <1>2, <1>3
  <2>2. body' = Grown(body, apple, n)
    BY <1>4 DEF Grown
  <2>. HIDE DEF n
  <2>3. GrownIs(Grown(body, apple, n), body, apple, n)
    BY ONLY <2>1, NewHead
  <2>. QED BY <2>2, <2>3 DEF GrownIs
<1>6. occupied' = occupied \cup {apple} /\ occupied' = CellsIn(body')
  BY <1>2, <1>5 DEF SnakeAte, CellsIn
<1>7. IsFiniteSet(occupied') /\ Cardinality(occupied') = Len(body')
  <2>1. IsFiniteSet(occupied) /\ Cardinality(occupied) = Len(body)
    BY DEF SnakeInv
  <2>. QED BY <1>2, <1>5, <1>6, <2>1, FS_AddElement
<1>8. eaten' = 10 * (Len(body') - 3)
  BY <1>1, <1>5 DEF SnakeInv, SnakeAte
<1>9. occupied' \subseteq Field
  BY <1>5, <1>6 DEF Ring, CellsIn
<1>10. apple' \in Field \ occupied' \/ (apple' = NoApple /\ occupied' = Field)
  <2>1. apple' \in Apples(body', occupied')
    BY DEF SnakeAte
  <2>2. CASE Len(body') >= SNAKE_W * SNAKE_H
    <3>1. apple' = NoApple
      BY <2>1, <2>2 DEF Apples
    <3>2. Cardinality(occupied') <= Cardinality(Field)
      BY <1>9, FieldSize, FS_Subset
    <3>3. Cardinality(occupied') = Cardinality(Field)
      <4>1. SNAKE_W * SNAKE_H \in Nat
        BY SnakeSizes
      <4>2. Len(body') \in Nat
        BY <1>5 DEF Ring
      <4>. QED BY <1>7, <2>2, <3>2, <4>1, <4>2, FieldSize
    <3>. QED BY <1>9, <3>1, <3>3, FieldSize, FS_Subset
  <2>3. CASE ~(Len(body') >= SNAKE_W * SNAKE_H)
    BY <2>1, <2>3 DEF Apples
  <2>. QED BY <2>2, <2>3
<1>11. snakeScreen' = FieldOf(body', apple')
  <2>1. /\ \A x \in Field : snakeScreen[x] = IF x = apple THEN "apple" ELSE IF x = body[1] THEN "head"
                                             ELSE IF x \in CellsIn(body) THEN "snake" ELSE "free"
        /\ DOMAIN snakeScreen = Field
    BY <1>1, <1>2, FieldShows
  <2>2. /\ \A x \in Field : FieldOf(body', apple')[x] = IF x = apple' THEN "apple" ELSE IF x = apple THEN "head"
                                             ELSE IF x \in CellsIn(body') THEN "snake" ELSE "free"
        /\ FieldOf(body', apple') = [x \in Field |-> FieldOf(body', apple')[x]]
    BY <1>5, FieldShows DEF Ring
  <2> DEFINE f == [snakeScreen EXCEPT ![body[1]] = "snake", ![apple] = "head"]
  <2>3. snakeScreen' = IF apple' = NoApple THEN f ELSE [f EXCEPT ![apple'] = "apple"]
    BY DEF SnakeAte
  <2>4. 1 \in 1 .. n /\ body[1] \in CellsIn(body') /\ body[1] # apple
    BY <1>1, <1>3, <1>5
  <2>5. apple' \notin CellsIn(body')
    BY <1>6, <1>9, <1>10, FieldSize
  <2>6. \A x : x # apple => (x \in CellsIn(body) <=> x \in CellsIn(body'))
    BY <1>5 DEF CellsIn
  <2>7. ASSUME NEW x \in Field PROVE snakeScreen'[x] = FieldOf(body', apple')[x]
    <3>1. f[x] = IF x = apple THEN "head" ELSE IF x = body[1] THEN "snake" ELSE snakeScreen[x]
      BY <2>1
    <3>2. DOMAIN f = Field
      BY <2>1
    <3>. HIDE DEF f
    <3>3. snakeScreen'[x] = IF x = apple' THEN "apple" ELSE f[x]
      BY <2>3, <3>2, FieldSize
    <3>4. apple \in CellsIn(body')
      BY <1>5
    <3>. QED BY <2>1, <2>2, <2>4, <2>5, <2>6, <3>1, <3>3, <3>4
  <2>8. snakeScreen' = [x \in Field |-> snakeScreen'[x]]
    <3>1. f = [x \in Field |-> f[x]]
      BY <2>1
    <3>. HIDE DEF f
    <3>. QED BY <2>3, <3>1
  <2>. QED BY <2>2, <2>7, <2>8
<1>. QED BY <1>5, <1>6, <1>7, <1>8, <1>10, <1>11 DEF SnakeInv

LEMMA SnakeKeeps == ASSUME SnakeInv, [AppsNext]_appsVars PROVE SnakeInv'
<1>0. part' = part
  BY SnakeFrame
<1>1. CASE part # "snake" /\ UNCHANGED snake
  BY <1>0, <1>1 DEF SnakeInv, snake
<1>2. CASE UNCHANGED <<snake, app>>
  BY <1>0, <1>2 DEF SnakeInv, snake
<1>3. CASE part = "snake" /\ OpenSnake
  BY <1>0, <1>3 DEF OpenSnake, SnakeShown, SnakeInv
<1>4. CASE part = "snake" /\ SnakeStep
  <2> DEFINE c == Ahead(body[1], nextDir)
             tail == body[Len(body)]
  <2>1. app = "snake" /\ app' = app
    BY <1>4 DEF SnakeStep
  <2>2. CASE SnakeHits(c, tail)
    <3>1. snakeScreen' = FieldOf(body, apple) /\ UNCHANGED <<body, occupied, apple, eaten>>
      BY <1>4, <2>2 DEF SnakeStep
    <3>. QED BY <3>1 DEF SnakeInv
  <2>3. CASE ~SnakeHits(c, tail) /\ c = apple
    <3>1. SnakeAte(apple) /\ ~SnakeHits(apple, body[Len(body)])
      BY <1>4, <2>3 DEF SnakeStep
    <3>. QED BY <1>0, <1>4, <2>1, <3>1, SnakeEats
  <2>4. CASE ~SnakeHits(c, tail) /\ c # apple
    <3>1. SnakeMoved(c, tail) /\ tail = body[Len(body)]
      BY <1>4, <2>4 DEF SnakeStep
    <3>. HIDE DEF c, tail
    <3>. QED BY <1>0, <1>4, <2>1, <2>4, <3>1, SnakeMoves
  <2>. QED BY <2>2, <2>3, <2>4
<1>5. CASE part = "snake" /\ SnakeSteer
  BY <1>0, <1>5 DEF SnakeSteer, SnakeInv
<1>6. CASE part = "snake" /\ SnakeAgain
  <2>1. /\ body' = StartBody /\ occupied' = StartCells /\ eaten' = 0 /\ apple' \in Field \ occupied'
        /\ snakeScreen' = FieldOf(body', apple')
    BY <1>6 DEF SnakeAgain
  <2>. QED BY <2>1, StartRing DEF SnakeInv
<1>7. CASE part = "snake" /\ SnakeLeave
  BY <1>0, <1>7 DEF SnakeLeave, SnakeInv
<1>. QED BY <1>1, <1>2, <1>3, <1>4, <1>5, <1>6, <1>7, SnakeFrame DEF SnakeNext

-----------------------------------------------------------------------------
(* Tetris: the shapes.                                                     *)
LEMMA FourCells ==
  ASSUME NEW a, NEW b, NEW c, NEW d, a # b, a # c, a # d, b # c, b # d, c # d
  PROVE  IsFiniteSet({a, b, c, d}) /\ Cardinality({a, b, c, d}) = 4
<1>1. IsFiniteSet({a}) /\ Cardinality({a}) = 1
  BY FS_Singleton
<1>2. IsFiniteSet({a} \cup {b}) /\ Cardinality({a} \cup {b}) = 2
  BY <1>1, FS_AddElement
<1>3. IsFiniteSet(({a} \cup {b}) \cup {c}) /\ Cardinality(({a} \cup {b}) \cup {c}) = 3
  BY <1>2, FS_AddElement
<1>4. IsFiniteSet((({a} \cup {b}) \cup {c}) \cup {d}) /\ Cardinality((({a} \cup {b}) \cup {c}) \cup {d}) = 4
  BY <1>3, FS_AddElement
<1>5. (({a} \cup {b}) \cup {c}) \cup {d} = {a, b, c, d}
  OBVIOUS
<1>. QED BY <1>4, <1>5

(* Four cells that differ.                                                 *)
Apart4(a, b, c, d) ==
  /\ a \in Int \X Int /\ b \in Int \X Int /\ c \in Int \X Int /\ d \in Int \X Int
  /\ a # b /\ a # c /\ a # d /\ b # c /\ b # d /\ c # d
Four(S) == \E a, b, c, d : Apart4(a, b, c, d) /\ S = {a, b, c, d}

LEMMA FourIs == \A a, b, c, d : Apart4(a, b, c, d) => Four({a, b, c, d})
BY DEF Four

LEMMA ShapesFour ==
  ASSUME NEW k \in {"I", "J", "L", "O", "S", "T", "Z"}, NEW r \in 0 .. 3
  PROVE  Four(Shapes(k)[r + 1])
<1>0. r + 1 = 1 \/ r + 1 = 2 \/ r + 1 = 3 \/ r + 1 = 4
  OBVIOUS
<1>1. CASE k = "I"
  <2>1. Four(Shapes(k)[1])
    <3>1. Shapes("I")[1] = {<<0,0>>, <<1,0>>, <<2,0>>, <<3,0>>}
      BY DEF Shapes
    <3>2. Apart4(<<0,0>>, <<1,0>>, <<2,0>>, <<3,0>>)
      BY DEF Apart4
    <3>. QED BY <1>1, <3>1, <3>2, FourIs
  <2>2. Four(Shapes(k)[2])
    <3>1. Shapes("I")[2] = {<<2,-1>>, <<2,0>>, <<2,1>>, <<2,2>>}
      BY DEF Shapes
    <3>2. Apart4(<<2,-1>>, <<2,0>>, <<2,1>>, <<2,2>>)
      BY DEF Apart4
    <3>. QED BY <1>1, <3>1, <3>2, FourIs
  <2>3. Four(Shapes(k)[3])
    <3>1. Shapes("I")[3] = {<<0,1>>, <<1,1>>, <<2,1>>, <<3,1>>}
      BY DEF Shapes
    <3>2. Apart4(<<0,1>>, <<1,1>>, <<2,1>>, <<3,1>>)
      BY DEF Apart4
    <3>. QED BY <1>1, <3>1, <3>2, FourIs
  <2>4. Four(Shapes(k)[4])
    <3>1. Shapes("I")[4] = {<<1,-1>>, <<1,0>>, <<1,1>>, <<1,2>>}
      BY DEF Shapes
    <3>2. Apart4(<<1,-1>>, <<1,0>>, <<1,1>>, <<1,2>>)
      BY DEF Apart4
    <3>. QED BY <1>1, <3>1, <3>2, FourIs
  <2>. QED BY <1>0, <2>1, <2>2, <2>3, <2>4
<1>2. CASE k = "J"
  <2>1. Four(Shapes(k)[1])
    <3>1. Shapes("J")[1] = {<<0,0>>, <<0,1>>, <<1,1>>, <<2,1>>}
      BY DEF Shapes
    <3>2. Apart4(<<0,0>>, <<0,1>>, <<1,1>>, <<2,1>>)
      BY DEF Apart4
    <3>. QED BY <1>2, <3>1, <3>2, FourIs
  <2>2. Four(Shapes(k)[2])
    <3>1. Shapes("J")[2] = {<<1,0>>, <<2,0>>, <<1,1>>, <<1,2>>}
      BY DEF Shapes
    <3>2. Apart4(<<1,0>>, <<2,0>>, <<1,1>>, <<1,2>>)
      BY DEF Apart4
    <3>. QED BY <1>2, <3>1, <3>2, FourIs
  <2>3. Four(Shapes(k)[3])
    <3>1. Shapes("J")[3] = {<<0,1>>, <<1,1>>, <<2,1>>, <<2,0>>}
      BY DEF Shapes
    <3>2. Apart4(<<0,1>>, <<1,1>>, <<2,1>>, <<2,0>>)
      BY DEF Apart4
    <3>. QED BY <1>2, <3>1, <3>2, FourIs
  <2>4. Four(Shapes(k)[4])
    <3>1. Shapes("J")[4] = {<<1,0>>, <<1,1>>, <<1,2>>, <<0,2>>}
      BY DEF Shapes
    <3>2. Apart4(<<1,0>>, <<1,1>>, <<1,2>>, <<0,2>>)
      BY DEF Apart4
    <3>. QED BY <1>2, <3>1, <3>2, FourIs
  <2>. QED BY <1>0, <2>1, <2>2, <2>3, <2>4
<1>3. CASE k = "L"
  <2>1. Four(Shapes(k)[1])
    <3>1. Shapes("L")[1] = {<<0,1>>, <<1,1>>, <<2,1>>, <<2,0>>}
      BY DEF Shapes
    <3>2. Apart4(<<0,1>>, <<1,1>>, <<2,1>>, <<2,0>>)
      BY DEF Apart4
    <3>. QED BY <1>3, <3>1, <3>2, FourIs
  <2>2. Four(Shapes(k)[2])
    <3>1. Shapes("L")[2] = {<<1,0>>, <<1,1>>, <<1,2>>, <<2,2>>}
      BY DEF Shapes
    <3>2. Apart4(<<1,0>>, <<1,1>>, <<1,2>>, <<2,2>>)
      BY DEF Apart4
    <3>. QED BY <1>3, <3>1, <3>2, FourIs
  <2>3. Four(Shapes(k)[3])
    <3>1. Shapes("L")[3] = {<<0,0>>, <<0,1>>, <<1,1>>, <<2,1>>}
      BY DEF Shapes
    <3>2. Apart4(<<0,0>>, <<0,1>>, <<1,1>>, <<2,1>>)
      BY DEF Apart4
    <3>. QED BY <1>3, <3>1, <3>2, FourIs
  <2>4. Four(Shapes(k)[4])
    <3>1. Shapes("L")[4] = {<<0,0>>, <<1,0>>, <<1,1>>, <<1,2>>}
      BY DEF Shapes
    <3>2. Apart4(<<0,0>>, <<1,0>>, <<1,1>>, <<1,2>>)
      BY DEF Apart4
    <3>. QED BY <1>3, <3>1, <3>2, FourIs
  <2>. QED BY <1>0, <2>1, <2>2, <2>3, <2>4
<1>4. CASE k = "O"
  <2>1. Four(Shapes(k)[1])
    <3>1. Shapes("O")[1] = {<<0,0>>, <<1,0>>, <<0,1>>, <<1,1>>}
      BY DEF Shapes
    <3>2. Apart4(<<0,0>>, <<1,0>>, <<0,1>>, <<1,1>>)
      BY DEF Apart4
    <3>. QED BY <1>4, <3>1, <3>2, FourIs
  <2>2. Four(Shapes(k)[2])
    <3>1. Shapes("O")[2] = {<<0,0>>, <<1,0>>, <<0,1>>, <<1,1>>}
      BY DEF Shapes
    <3>2. Apart4(<<0,0>>, <<1,0>>, <<0,1>>, <<1,1>>)
      BY DEF Apart4
    <3>. QED BY <1>4, <3>1, <3>2, FourIs
  <2>3. Four(Shapes(k)[3])
    <3>1. Shapes("O")[3] = {<<0,0>>, <<1,0>>, <<0,1>>, <<1,1>>}
      BY DEF Shapes
    <3>2. Apart4(<<0,0>>, <<1,0>>, <<0,1>>, <<1,1>>)
      BY DEF Apart4
    <3>. QED BY <1>4, <3>1, <3>2, FourIs
  <2>4. Four(Shapes(k)[4])
    <3>1. Shapes("O")[4] = {<<0,0>>, <<1,0>>, <<0,1>>, <<1,1>>}
      BY DEF Shapes
    <3>2. Apart4(<<0,0>>, <<1,0>>, <<0,1>>, <<1,1>>)
      BY DEF Apart4
    <3>. QED BY <1>4, <3>1, <3>2, FourIs
  <2>. QED BY <1>0, <2>1, <2>2, <2>3, <2>4
<1>5. CASE k = "S"
  <2>1. Four(Shapes(k)[1])
    <3>1. Shapes("S")[1] = {<<1,0>>, <<2,0>>, <<0,1>>, <<1,1>>}
      BY DEF Shapes
    <3>2. Apart4(<<1,0>>, <<2,0>>, <<0,1>>, <<1,1>>)
      BY DEF Apart4
    <3>. QED BY <1>5, <3>1, <3>2, FourIs
  <2>2. Four(Shapes(k)[2])
    <3>1. Shapes("S")[2] = {<<0,0>>, <<0,1>>, <<1,1>>, <<1,2>>}
      BY DEF Shapes
    <3>2. Apart4(<<0,0>>, <<0,1>>, <<1,1>>, <<1,2>>)
      BY DEF Apart4
    <3>. QED BY <1>5, <3>1, <3>2, FourIs
  <2>3. Four(Shapes(k)[3])
    <3>1. Shapes("S")[3] = {<<1,1>>, <<2,1>>, <<0,2>>, <<1,2>>}
      BY DEF Shapes
    <3>2. Apart4(<<1,1>>, <<2,1>>, <<0,2>>, <<1,2>>)
      BY DEF Apart4
    <3>. QED BY <1>5, <3>1, <3>2, FourIs
  <2>4. Four(Shapes(k)[4])
    <3>1. Shapes("S")[4] = {<<1,0>>, <<1,1>>, <<0,1>>, <<0,2>>}
      BY DEF Shapes
    <3>2. Apart4(<<1,0>>, <<1,1>>, <<0,1>>, <<0,2>>)
      BY DEF Apart4
    <3>. QED BY <1>5, <3>1, <3>2, FourIs
  <2>. QED BY <1>0, <2>1, <2>2, <2>3, <2>4
<1>6. CASE k = "T"
  <2>1. Four(Shapes(k)[1])
    <3>1. Shapes("T")[1] = {<<1,0>>, <<0,1>>, <<1,1>>, <<2,1>>}
      BY DEF Shapes
    <3>2. Apart4(<<1,0>>, <<0,1>>, <<1,1>>, <<2,1>>)
      BY DEF Apart4
    <3>. QED BY <1>6, <3>1, <3>2, FourIs
  <2>2. Four(Shapes(k)[2])
    <3>1. Shapes("T")[2] = {<<1,0>>, <<1,1>>, <<1,2>>, <<2,1>>}
      BY DEF Shapes
    <3>2. Apart4(<<1,0>>, <<1,1>>, <<1,2>>, <<2,1>>)
      BY DEF Apart4
    <3>. QED BY <1>6, <3>1, <3>2, FourIs
  <2>3. Four(Shapes(k)[3])
    <3>1. Shapes("T")[3] = {<<0,1>>, <<1,1>>, <<2,1>>, <<1,2>>}
      BY DEF Shapes
    <3>2. Apart4(<<0,1>>, <<1,1>>, <<2,1>>, <<1,2>>)
      BY DEF Apart4
    <3>. QED BY <1>6, <3>1, <3>2, FourIs
  <2>4. Four(Shapes(k)[4])
    <3>1. Shapes("T")[4] = {<<0,0>>, <<0,1>>, <<0,2>>, <<1,1>>}
      BY DEF Shapes
    <3>2. Apart4(<<0,0>>, <<0,1>>, <<0,2>>, <<1,1>>)
      BY DEF Apart4
    <3>. QED BY <1>6, <3>1, <3>2, FourIs
  <2>. QED BY <1>0, <2>1, <2>2, <2>3, <2>4
<1>7. CASE k = "Z"
  <2>1. Four(Shapes(k)[1])
    <3>1. Shapes("Z")[1] = {<<0,0>>, <<1,0>>, <<1,1>>, <<2,1>>}
      BY DEF Shapes
    <3>2. Apart4(<<0,0>>, <<1,0>>, <<1,1>>, <<2,1>>)
      BY DEF Apart4
    <3>. QED BY <1>7, <3>1, <3>2, FourIs
  <2>2. Four(Shapes(k)[2])
    <3>1. Shapes("Z")[2] = {<<1,0>>, <<1,1>>, <<0,1>>, <<0,2>>}
      BY DEF Shapes
    <3>2. Apart4(<<1,0>>, <<1,1>>, <<0,1>>, <<0,2>>)
      BY DEF Apart4
    <3>. QED BY <1>7, <3>1, <3>2, FourIs
  <2>3. Four(Shapes(k)[3])
    <3>1. Shapes("Z")[3] = {<<0,1>>, <<1,1>>, <<1,2>>, <<2,2>>}
      BY DEF Shapes
    <3>2. Apart4(<<0,1>>, <<1,1>>, <<1,2>>, <<2,2>>)
      BY DEF Apart4
    <3>. QED BY <1>7, <3>1, <3>2, FourIs
  <2>4. Four(Shapes(k)[4])
    <3>1. Shapes("Z")[4] = {<<1,0>>, <<1,1>>, <<0,2>>, <<0,3>>}
      BY DEF Shapes
    <3>2. Apart4(<<1,0>>, <<1,1>>, <<0,2>>, <<0,3>>)
      BY DEF Apart4
    <3>. QED BY <1>7, <3>1, <3>2, FourIs
  <2>. QED BY <1>0, <2>1, <2>2, <2>3, <2>4
<1>. QED BY <1>1, <1>2, <1>3, <1>4, <1>5, <1>6, <1>7

PieceSet == [x : Int, y : Int, kind : Kinds, rot : 0 .. 3]

LEMMA PiecesTyped == Pieces \subseteq PieceSet
<1>1. BW \in Nat
  BY TetrisSizes
<1>. QED BY <1>1 DEF Pieces, PieceSet

LEMMA CellsFour ==
  ASSUME NEW p \in PieceSet PROVE IsFiniteSet(CellsOf(p)) /\ Cardinality(CellsOf(p)) = 4
<1>1. p.kind \in {"I", "J", "L", "O", "S", "T", "Z"} /\ p.rot \in 0 .. 3 /\ p.x \in Int /\ p.y \in Int
  BY TetrisSizes DEF PieceSet
<1>2. PICK a, b, c, d : Apart4(a, b, c, d) /\ Shapes(p.kind)[p.rot + 1] = {a, b, c, d}
  <2>1. Four(Shapes(p.kind)[p.rot + 1])
    BY <1>1, ShapesFour
  <2>. QED BY <2>1 DEF Four
<1> DEFINE At(e) == <<p.x + e[1], p.y + e[2]>>
<1>3. CellsOf(p) = {At(a), At(b), At(c), At(d)}
  BY <1>2 DEF CellsOf
<1>4. \A e, f \in Int \X Int : At(e) = At(f) => e = f
  BY <1>1
<1>. HIDE DEF At
<1>5. /\ At(a) # At(b) /\ At(a) # At(c) /\ At(a) # At(d) /\ At(b) # At(c) /\ At(b) # At(d) /\ At(c) # At(d)
  BY <1>2, <1>4 DEF Apart4
<1>6. IsFiniteSet({At(a), At(b), At(c), At(d)}) /\ Cardinality({At(a), At(b), At(c), At(d)}) = 4
  BY ONLY <1>5, FourCells
<1>. QED BY <1>3, <1>6

-----------------------------------------------------------------------------
(* Tetris: a row that is taken away.                                       *)
RowOf(b, y) == {c \in b : c[2] = y}

LEMMA CellsFinite == IsFiniteSet(Cells)
<1>1. BW \in Nat /\ BH \in Nat
  BY TetrisSizes
<1>2. IsFiniteSet(0 .. BW - 1) /\ IsFiniteSet(0 .. BH - 1)
  BY <1>1, FS_Interval
<1>. QED BY <1>2, FS_Product DEF Cells

LEMMA BoardFinite == ASSUME NEW b \in SUBSET Cells PROVE IsFiniteSet(b) /\ Cardinality(b) \in Nat
BY CellsFinite, FS_Subset, FS_CardinalityType

LEMMA WholeRow ==
  ASSUME NEW y \in 0 .. BH - 1 PROVE Cardinality(RowOf(Cells, y)) = BW
<1>1. BW \in Nat /\ BH \in Nat
  BY TetrisSizes
<1> DEFINE xs == 0 .. BW - 1
           strip == RowOf(Cells, y)
           f == [x \in xs |-> <<x, y>>]
<1>2. IsFiniteSet(xs) /\ Cardinality(xs) = BW
  BY <1>1, FS_Interval
<1>3. f \in Bijection(xs, strip)
  <2>1. \A x \in xs : <<x, y>> \in strip
    BY <1>1 DEF RowOf, Cells
  <2>2. \A c \in strip : c[1] \in xs /\ c = <<c[1], y>>
    BY <1>1 DEF RowOf, Cells
  <2>3. f \in [xs -> strip] /\ \A u, v \in xs : f[u] = f[v] => u = v
    BY <2>1
  <2>4. \A c \in strip : \E x \in xs : f[x] = c
    BY <2>2
  <2>. HIDE DEF f, xs, strip
  <2>. QED BY <2>3, <2>4 DEF Bijection, Injection, Surjection, IsInjective
<1>. HIDE DEF f, xs, strip
<1>4. ExistsBijection(xs, strip)
  BY <1>3 DEF ExistsBijection
<1>. QED BY <1>2, <1>4, FS_Bijection DEF strip

(* A full row has BW cells, another one less.                              *)
LEMMA RowSize ==
  ASSUME NEW b \in SUBSET Cells, NEW y \in 0 .. BH - 1
  PROVE  /\ IsFiniteSet(RowOf(b, y)) /\ Cardinality(RowOf(b, y)) \in Nat
         /\ Full(b, y) => Cardinality(RowOf(b, y)) = BW
         /\ ~Full(b, y) => Cardinality(RowOf(b, y)) <= BW - 1
<1>0. BW \in Nat /\ BH \in Nat
  BY TetrisSizes
<1>1. RowOf(b, y) \subseteq RowOf(Cells, y) /\ RowOf(Cells, y) \subseteq Cells
  BY DEF RowOf
<1>2. IsFiniteSet(RowOf(Cells, y)) /\ Cardinality(RowOf(Cells, y)) = BW
  BY <1>1, CellsFinite, FS_Subset, WholeRow
<1>3. /\ IsFiniteSet(RowOf(b, y)) /\ Cardinality(RowOf(b, y)) \in Nat /\ Cardinality(RowOf(b, y)) <= BW
      /\ Cardinality(RowOf(b, y)) = BW => RowOf(b, y) = RowOf(Cells, y)
  BY <1>1, <1>2, FS_Subset, FS_CardinalityType
<1>4. Full(b, y) <=> RowOf(b, y) = RowOf(Cells, y)
  <2>1. ASSUME Full(b, y) PROVE RowOf(Cells, y) \subseteq RowOf(b, y)
    <3>1. \A c \in Cells : c = <<c[1], c[2]>> /\ c[1] \in 0 .. BW - 1
      BY DEF Cells
    <3>. QED BY <2>1, <3>1 DEF RowOf, Full
  <2>2. ASSUME RowOf(b, y) = RowOf(Cells, y), NEW x \in 0 .. BW - 1 PROVE <<x, y>> \in b
    <3>1. <<x, y>> \in RowOf(Cells, y)
      BY DEF RowOf, Cells
    <3>. QED BY <2>2, <3>1 DEF RowOf
  <2>. QED BY <1>1, <2>1, <2>2 DEF Full
<1>. QED BY <1>0, <1>2, <1>3, <1>4

LEMMA Disjoint ==
  ASSUME NEW S, NEW T, IsFiniteSet(S), IsFiniteSet(T), S \cap T = {}
  PROVE  IsFiniteSet(S \cup T) /\ Cardinality(S \cup T) = Cardinality(S) + Cardinality(T)
<1>1. Cardinality(S \cup T) = Cardinality(S) + Cardinality(T) - Cardinality(S \cap T) /\ IsFiniteSet(S \cup T)
  BY FS_Union
<1>2. Cardinality(S) \in Nat /\ Cardinality(T) \in Nat /\ Cardinality(S \cap T) = 0
  BY FS_CardinalityType, FS_EmptySet
<1>. QED BY <1>1, <1>2

LEMMA DroppedSize ==
  ASSUME NEW b \in SUBSET Cells, NEW y \in 0 .. BH - 1
  PROVE  /\ Dropped(b, y) \in SUBSET Cells
         /\ Cardinality(Dropped(b, y)) = Cardinality(b) - Cardinality(RowOf(b, y))
<1>0. BW \in Nat /\ BH \in Nat
  BY TetrisSizes
<1> DEFINE under == {c \in b : c[2] > y}
           over == {c \in b : c[2] < y}
           down == {<<c[1], c[2] + 1>> : c \in over}
           rest == b \ RowOf(b, y)
<1>1. \A c \in b : c[1] \in 0 .. BW - 1 /\ c[2] \in 0 .. BH - 1 /\ c = <<c[1], c[2]>>
  BY DEF Cells
<1>2. down \subseteq Cells /\ \A c \in down : c[2] <= y
  BY <1>0, <1>1 DEF Cells
<1>3. Dropped(b, y) = under \cup down /\ under \cap down = {}
  <2>1. Dropped(b, y) = under \cup down
    BY DEF Dropped
  <2>2. \A c \in under : ~(c[2] <= y)
    BY <1>0, <1>1
  <2>. HIDE DEF under, down
  <2>. QED BY <1>2, <2>1, <2>2
<1>4. rest = under \cup over /\ under \cap over = {} /\ under \subseteq b /\ over \subseteq b
  BY <1>0, <1>1 DEF RowOf
<1> DEFINE f == [c \in over |-> <<c[1], c[2] + 1>>]
<1>5. f \in Bijection(over, down)
  <2>1. \A c, d \in over : f[c] = f[d] => c = d
    <3> TAKE c \in over, d \in over
    <3>1. /\ c[1] \in Int /\ c[2] \in Int /\ c = <<c[1], c[2]>>
          /\ d[1] \in Int /\ d[2] \in Int /\ d = <<d[1], d[2]>>
      BY <1>1
    <3>2. f[c] = <<c[1], c[2] + 1>> /\ f[d] = <<d[1], d[2] + 1>>
      OBVIOUS
    <3>. HIDE DEF f
    <3>. QED BY <3>1, <3>2
  <2>2. f \in [over -> down] /\ \A e \in down : \E c \in over : f[c] = e
    OBVIOUS
  <2>. HIDE DEF f, over, down
  <2>. QED BY <2>1, <2>2 DEF Bijection, Injection, Surjection, IsInjective
<1>6. IsFiniteSet(over) /\ IsFiniteSet(under) /\ IsFiniteSet(b) /\ IsFiniteSet(RowOf(b, y)) /\ IsFiniteSet(rest)
  BY BoardFinite, <1>4 DEF RowOf
<1>. HIDE DEF f, under, over, down
<1>7. IsFiniteSet(down) /\ Cardinality(down) = Cardinality(over)
  BY <1>5, <1>6, FS_Bijection DEF ExistsBijection
<1>8. Cardinality(Dropped(b, y)) = Cardinality(under) + Cardinality(over)
  BY <1>3, <1>6, <1>7, Disjoint
<1>9. Cardinality(rest) = Cardinality(under) + Cardinality(over)
  BY <1>4, <1>6, Disjoint
<1>10. Cardinality(rest) = Cardinality(b) - Cardinality(RowOf(b, y))
  <2>1. rest \cap RowOf(b, y) = {} /\ rest \cup RowOf(b, y) = b
    BY DEF RowOf
  <2>2. Cardinality(b) = Cardinality(rest) + Cardinality(RowOf(b, y))
    BY <1>6, <2>1, Disjoint
  <2>3. Cardinality(rest) \in Nat /\ Cardinality(RowOf(b, y)) \in Nat
    BY <1>6, FS_CardinalityType
  <2>. QED BY <2>2, <2>3
<1>. QED BY <1>2, <1>3, <1>4, <1>8, <1>9, <1>10

(* A row of what is left is one of before.                                 *)
LEMMA DroppedRows ==
  ASSUME NEW b \in SUBSET Cells, NEW y \in 0 .. BH - 1, NEW r \in 0 .. BH - 1
  PROVE  /\ r > y => (Full(Dropped(b, y), r) <=> Full(b, r))
         /\ r <= y => (Full(Dropped(b, y), r) <=> Full(b, r - 1))
         /\ ~Full(Dropped(b, y), 0)
         /\ \A c \in Dropped(b, y) : c[2] = r => (r > y /\ c \in b) \/ (r <= y /\ r > 0 /\ \E d \in b : d[2] = r - 1)
<1>0. BW \in Nat \ {0} /\ BH \in Nat
  BY TetrisSizes
<1>1. \A c \in b : c[1] \in 0 .. BW - 1 /\ c[2] \in 0 .. BH - 1 /\ c = <<c[1], c[2]>>
  BY DEF Cells
<1>2. ASSUME NEW x \in 0 .. BW - 1
      PROVE  <<x, r>> \in Dropped(b, y) <=> (r > y /\ <<x, r>> \in b) \/ (r <= y /\ <<x, r - 1>> \in b)
  <2>1. ASSUME <<x, r>> \in Dropped(b, y) PROVE (r > y /\ <<x, r>> \in b) \/ (r <= y /\ <<x, r - 1>> \in b)
    <3>1. CASE <<x, r>> \in {c \in b : c[2] > y}
      BY <3>1
    <3>2. CASE <<x, r>> \in {<<c[1], c[2] + 1>> : c \in {d \in b : d[2] < y}}
      <4>1. PICK d \in b : d[2] < y /\ <<x, r>> = <<d[1], d[2] + 1>>
        BY <3>2
      <4>2. d[1] = x /\ d[2] = r - 1 /\ d = <<d[1], d[2]>> /\ r <= y
        BY <1>0, <1>1, <4>1
      <4>. QED BY <4>1, <4>2
    <3>. QED BY <2>1, <3>1, <3>2 DEF Dropped
  <2>2. ASSUME r > y, <<x, r>> \in b PROVE <<x, r>> \in Dropped(b, y)
    BY <2>2 DEF Dropped
  <2>3. ASSUME r <= y, <<x, r - 1>> \in b PROVE <<x, r>> \in Dropped(b, y)
    <3> DEFINE d == <<x, r - 1>>
    <3>1. d \in {e \in b : e[2] < y} /\ d[1] = x /\ d[2] + 1 = r
      BY <2>3
    <3>. HIDE DEF d
    <3>2. <<d[1], d[2] + 1>> \in Dropped(b, y)
      BY <3>1 DEF Dropped
    <3>. QED BY <3>1, <3>2
  <2>. QED BY <2>1, <2>2, <2>3
<1>3. ASSUME r > y PROVE Full(Dropped(b, y), r) <=> Full(b, r)
  <2>1. \A x \in 0 .. BW - 1 : <<x, r>> \in Dropped(b, y) <=> <<x, r>> \in b
    <3>1. ~(r <= y)
      BY <1>3
    <3>. QED BY <1>2, <1>3, <3>1
  <2>. QED BY ONLY <2>1 DEF Full
<1>4. ASSUME r <= y PROVE Full(Dropped(b, y), r) <=> Full(b, r - 1)
  <2>1. \A x \in 0 .. BW - 1 : <<x, r>> \in Dropped(b, y) <=> <<x, r - 1>> \in b
    <3>1. ~(r > y)
      BY <1>4
    <3>. QED BY <1>2, <1>4, <3>1
  <2>. QED BY ONLY <2>1 DEF Full
<1>5. ASSUME NEW c \in Dropped(b, y), c[2] = r
      PROVE  (r > y /\ c \in b) \/ (r <= y /\ r > 0 /\ \E d \in b : d[2] = r - 1)
  <2>1. CASE c \in {e \in b : e[2] > y}
    BY <1>5, <2>1
  <2>2. CASE c \in {<<e[1], e[2] + 1>> : e \in {d \in b : d[2] < y}}
    <3>1. PICK d \in b : d[2] < y /\ c = <<d[1], d[2] + 1>>
      BY <2>2
    <3>. QED BY <1>0, <1>1, <1>5, <3>1
  <2>. QED BY <1>5, <2>1, <2>2 DEF Dropped
<1>6. ~Full(Dropped(b, y), 0)
  <2>1. <<0, 0>> \notin Dropped(b, y)
    <3>1. <<0, 0>> \notin {c \in b : c[2] > y}
      OBVIOUS
    <3>2. ASSUME NEW d \in b, d[2] < y, <<0, 0>> = <<d[1], d[2] + 1>> PROVE FALSE
      BY <1>1, <3>2
    <3>. QED BY <3>1, <3>2 DEF Dropped
  <2>. QED BY <1>0, <2>1 DEF Full
<1>. QED BY <1>3, <1>4, <1>5, <1>6

-----------------------------------------------------------------------------
(* Tetris: clear_lines().                                                  *)
Sweeps == [left : SUBSET Cells, y : -1 .. BH - 1, cleared : Nat]

LEMMA LookTyped == ASSUME NEW s \in Sweeps PROVE Look(s) \in Sweeps
<1>1. BH \in Nat /\ s.left \in SUBSET Cells /\ s.y \in -1 .. BH - 1 /\ s.cleared \in Nat
  BY TetrisSizes DEF Sweeps
<1>2. CASE s.y < 0
  BY <1>2 DEF Look
<1>3. CASE s.y >= 0 /\ Full(s.left, s.y)
  <2>1. s.y \in 0 .. BH - 1
    BY <1>1, <1>3
  <2>2. Dropped(s.left, s.y) \in SUBSET Cells
    BY <1>1, <2>1, DroppedSize
  <2>3. Look(s) = [left |-> Dropped(s.left, s.y), y |-> s.y, cleared |-> s.cleared + 1]
    BY <1>1, <1>3 DEF Look
  <2>. QED BY <1>1, <2>2, <2>3 DEF Sweeps
<1>4. CASE s.y >= 0 /\ ~Full(s.left, s.y)
  <2>1. Look(s) = [s EXCEPT !.y = @ - 1]
    BY <1>1, <1>4 DEF Look
  <2>2. s.y - 1 \in -1 .. BH - 1
    BY <1>1, <1>4
  <2>. QED BY <2>1, <2>2 DEF Sweeps
<1>. QED BY <1>1, <1>2, <1>3, <1>4

(* After i looks at rows: the cells are accounted for, the rows below have *)
(* been looked at and those at the top are empty; and a row that is full   *)
(* has a cell that the old board, without full rows, had not.              *)
Old(M, left, cleared) ==
  /\ M \in SUBSET left /\ \A r \in 0 .. BH - 1 : ~Full(M, r)
  /\ Cardinality(left) - Cardinality(M) + cleared <= 4
Swept(n, s, i) ==
  /\ s \in Sweeps /\ Cardinality(s.left) + BW * s.cleared = n
  /\ \A r \in 0 .. BH - 1 : r > s.y => ~Full(s.left, r)
  /\ s.cleared <= BH /\ \A c \in s.left : c[2] >= s.cleared
  /\ s.y >= 0 => ((BH - 1) - s.y) + s.cleared = i
  /\ \E M : Old(M, s.left, s.cleared)

LEMMA OldDropped ==
  ASSUME NEW left \in SUBSET Cells, NEW y \in 0 .. BH - 1, Full(left, y), NEW M, NEW k \in Nat, Old(M, left, k)
  PROVE  Old(Dropped(M, y), Dropped(left, y), k + 1)
<1>0. BW \in Nat /\ BH \in Nat
  BY TetrisSizes
<1>1. M \in SUBSET Cells /\ M \subseteq left /\ (\A r \in 0 .. BH - 1 : ~Full(M, r)) /\ ~Full(M, y)
  BY DEF Old
<1>2. Dropped(M, y) \subseteq Dropped(left, y)
  BY <1>1 DEF Dropped
<1>3. ASSUME NEW r \in 0 .. BH - 1 PROVE ~Full(Dropped(M, y), r)
  <2>1. CASE r > y
    BY <1>1, <2>1, DroppedRows
  <2>2. CASE r = 0
    BY <1>1, <2>2, DroppedRows
  <2>3. CASE r <= y /\ r # 0
    <3>1. r - 1 \in 0 .. BH - 1
      BY <1>0, <2>3
    <3>. QED BY <1>1, <2>3, <3>1, DroppedRows
  <2>. QED BY <1>0, <2>1, <2>2, <2>3
<1>4. /\ Cardinality(Dropped(M, y)) = Cardinality(M) - Cardinality(RowOf(M, y))
      /\ Cardinality(Dropped(left, y)) = Cardinality(left) - Cardinality(RowOf(left, y))
  BY <1>1, DroppedSize
<1>5. Cardinality(RowOf(left, y)) = BW
  BY RowSize
<1>6. Cardinality(RowOf(M, y)) <= BW - 1 /\ Cardinality(RowOf(M, y)) \in Nat
  BY <1>1, RowSize
<1>7. Cardinality(M) \in Nat /\ Cardinality(left) \in Nat
  BY <1>1, BoardFinite
<1>8. Cardinality(left) - Cardinality(M) + k <= 4
  BY DEF Old
<1>9. Cardinality(Dropped(left, y)) - Cardinality(Dropped(M, y)) + (k + 1) <= 4
  BY <1>0, <1>4, <1>5, <1>6, <1>7, <1>8
<1>. QED BY <1>2, <1>3, <1>9 DEF Old

LEMMA LookKeeps ==
  ASSUME NEW n \in Nat, NEW s, NEW i \in Nat, Swept(n, s, i)
  PROVE  Swept(n, Look(s), i + 1)
<1>0. BW \in Nat \ {0} /\ BH \in Nat \ {0}
  BY TetrisSizes
<1>1. s \in Sweeps /\ s.left \in SUBSET Cells /\ s.y \in -1 .. BH - 1 /\ s.cleared \in Nat
  BY DEF Sweeps, Swept
<1>2. Look(s) \in Sweeps
  BY <1>1, LookTyped
<1>3. CASE s.y < 0
  <2>1. Look(s) = s /\ ~(s.y >= 0)
    BY <1>1, <1>3 DEF Look
  <2>. QED BY <2>1 DEF Swept
<1>4. CASE s.y >= 0 /\ Full(s.left, s.y)
  <2> DEFINE y == s.y
             k == s.cleared
             left == s.left
             t == Dropped(left, y)
  <2>1. y \in 0 .. BH - 1 /\ k \in Nat /\ left \in SUBSET Cells /\ Full(left, y)
    BY <1>1, <1>4
  <2>2. Look(s) = [left |-> t, y |-> y, cleared |-> k + 1]
    BY <1>1, <1>4 DEF Look
  <2>3. /\ Cardinality(left) + BW * k = n /\ (\A r \in 0 .. BH - 1 : r > y => ~Full(left, r))
        /\ k <= BH /\ (\A c \in left : c[2] >= k) /\ ((BH - 1) - y) + k = i /\ \E M : Old(M, left, k)
    BY <1>1, <1>4 DEF Swept
  <2>. HIDE DEF y, k, left
  <2>4. t \in SUBSET Cells /\ Cardinality(t) = Cardinality(left) - BW /\ Cardinality(left) \in Nat
    BY <2>1, DroppedSize, RowSize, BoardFinite
  <2>5. Cardinality(t) + BW * (k + 1) = n
    <3>1. BW * (k + 1) = BW * k + BW /\ BW * k \in Nat
      BY <1>0, <2>1
    <3>. QED BY <1>0, <2>3, <2>4, <3>1
  <2>6. \A r \in 0 .. BH - 1 : r > y => ~Full(t, r)
    BY <2>1, <2>3, DroppedRows
  <2>7. y >= k
    <3>1. <<0, y>> \in left
      BY <1>0, <2>1 DEF Full
    <3>2. <<0, y>>[2] >= k
      BY <2>3, <3>1
    <3>. QED BY <3>2
  <2>8. ASSUME NEW c \in t PROVE c[2] >= k + 1
    <3>1. c[2] \in 0 .. BH - 1
      BY <2>4 DEF Cells
    <3> DEFINE r == c[2]
    <3>2. (r > y /\ c \in left) \/ (r <= y /\ r > 0 /\ \E d \in left : d[2] = r - 1)
      BY <2>1, <3>1, DroppedRows
    <3>3. CASE r > y
      BY <2>1, <2>7, <3>1, <3>3
    <3>4. CASE \E d \in left : d[2] = r - 1
      <4>1. r - 1 >= k
        BY <2>3, <3>4
      <4>. QED BY <2>1, <3>1, <4>1
    <3>. QED BY <3>2, <3>3, <3>4
  <2>9. \E M : Old(M, t, k + 1)
    BY <2>1, <2>3, OldDropped
  <2>10. k + 1 <= BH /\ ((BH - 1) - y) + (k + 1) = i + 1
    BY <1>0, <2>1, <2>3, <2>7
  <2>. HIDE DEF t
  <2>11. Look(s).left = t /\ Look(s).y = y /\ Look(s).cleared = k + 1
    BY <2>2
  <2>. QED BY <1>2, <2>5, <2>6, <2>8, <2>9, <2>10, <2>11 DEF Swept
<1>5. CASE s.y >= 0 /\ ~Full(s.left, s.y)
  <2>1. Look(s) = [s EXCEPT !.y = @ - 1]
    BY <1>1, <1>5 DEF Look
  <2>2. Look(s).left = s.left /\ Look(s).y = s.y - 1 /\ Look(s).cleared = s.cleared
    BY <1>1, <2>1 DEF Sweeps
  <2>3. \A r \in 0 .. BH - 1 : r > s.y - 1 => r = s.y \/ r > s.y
    BY <1>1
  <2>4. s.y - 1 >= 0 => ((BH - 1) - (s.y - 1)) + s.cleared = i + 1
    BY <1>0, <1>1 DEF Swept
  <2>. QED BY <1>2, <1>5, <2>2, <2>3, <2>4 DEF Swept
<1>. QED BY <1>1, <1>3, <1>4, <1>5

LEMMA SweepIs ==
  ASSUME NEW b \in SUBSET Cells, NEW M, Old(M, b, 0)
  PROVE  /\ Sweep(b).left \in SUBSET Cells /\ Sweep(b).cleared \in 0 .. 4
         /\ Cardinality(Sweep(b).left) + BW * Sweep(b).cleared = Cardinality(b)
         /\ \A y \in 0 .. BH - 1 : ~Full(Sweep(b).left, y)
<1> DEFINE n == 2 * BH
           start == [left |-> b, y |-> BH - 1, cleared |-> 0]
           step == [p \in Sweeps \X (1 .. n) |-> Look(p[1])]
           F(f) == [i \in 0 .. 2 * BH |-> IF i = 0 THEN [left |-> b, y |-> BH - 1, cleared |-> 0] ELSE Look(f[i - 1])]
<1>0. BW \in Nat \ {0} /\ BH \in Nat \ {0} /\ n \in Nat
  BY TetrisSizes
<1>1. start \in Sweeps
  BY <1>0 DEF Sweeps
<1>2. Steps(step, Sweeps, n)
  BY LookTyped DEF Steps
<1>3. \A s \in Sweeps, i \in 1 .. n : step[<<s, i>>] = Look(s)
  OBVIOUS
<1>4. PICK f : f \in [0 .. n -> Sweeps] /\ f[0] = start /\ \A i \in 1 .. n : f[i] = step[<<f[i - 1], i>>]
  <2>. HIDE DEF n, start, step
  <2>1. \E f : Goes(f, Sweeps, start, step, n)
    BY ONLY <1>0, <1>1, <1>2, Recursion
  <2>. QED BY <2>1 DEF Goes
<1>. HIDE DEF step
<1>5. \A i \in 1 .. n : f[i] = Look(f[i - 1])
  <2> TAKE i \in 1 .. n
  <2>1. i - 1 \in 0 .. n
    BY <1>0
  <2>2. f[i - 1] \in Sweeps
    BY <2>1, <1>4
  <2>. QED BY <1>3, <1>4, <2>2
<1>6. f = F(f)
  <2>1. ASSUME NEW i \in 0 .. n PROVE f[i] = F(f)[i]
    <3>1. CASE i = 0
      BY <1>4, <3>1
    <3>2. CASE i # 0
      <4>1. i \in 1 .. n
        BY <3>2, <1>0
      <4>2. F(f)[i] = Look(f[i - 1])
        BY <3>2
      <4>. QED BY <1>5, <4>1, <4>2
    <3>. QED BY <3>1, <3>2
  <2>. QED BY <2>1, <1>4
<1> DEFINE g == CHOOSE g : g = F(g)
<1>7. Sweep(b) = g[n]
  BY DEF Sweep
<1>8. g = F(g)
  BY <1>6
<1>9. g[0] = start /\ \A i \in 1 .. n : g[i] = Look(g[i - 1])
  <2>1. ASSUME NEW h PROVE F(h)[0] = start /\ \A i \in 1 .. n : F(h)[i] = Look(h[i - 1])
    BY <1>0
  <2>. HIDE DEF g, F
  <2>. QED BY <1>8, <2>1
<1> DEFINE c == Cardinality(b)
           P == {j \in 0 .. n : Swept(c, g[j], j)}
<1>10. \A i \in 0 .. n : i \in P
  <2>. HIDE DEF g
  <2>1. \A i \in 0 .. n - 1 : i \in P => i + 1 \in P
    <3> SUFFICES ASSUME NEW i \in 0 .. n - 1, Swept(c, g[i], i) PROVE Swept(c, g[i + 1], i + 1)
      BY <1>0
    <3>1. i + 1 \in 1 .. n /\ (i + 1) - 1 = i /\ i \in Nat
      BY <1>0
    <3>2. g[i + 1] = Look(g[i])
      BY <1>9, <3>1
    <3>3. c \in Nat
      BY BoardFinite
    <3>. HIDE DEF c
    <3>. QED BY <3>1, <3>2, <3>3, LookKeeps
  <2>2. Swept(c, start, 0)
    <3>1. start.left = b /\ start.y = BH - 1 /\ start.cleared = 0
      BY ONLY DEF start
    <3>2. \A e \in b : e[2] >= 0
      BY DEF Cells
    <3>3. c + BW * 0 = c
      BY BoardFinite, <1>0
    <3>. HIDE DEF start, c
    <3>. QED BY <1>0, <1>1, <3>1, <3>2, <3>3 DEF Swept, c
  <2>3. 0 \in P
    BY <1>0, <1>9, <2>2
  <2>. HIDE DEF P, n
  <2>. QED BY <1>0, <2>1, <2>3, UpTo0
<1>11. Swept(c, g[n], n)
  <2>1. n \in 0 .. n
    BY <1>0
  <2>. HIDE DEF g, n
  <2>. QED BY <1>10, <2>1
<1> DEFINE s == g[n]
<1>12. s = Sweep(b)
  BY <1>7
<1>. HIDE DEF g, n, F, P, start, c
<1>13. s \in Sweeps /\ s.left \in SUBSET Cells /\ s.y \in -1 .. BH - 1 /\ s.cleared \in Nat
  BY <1>11 DEF Sweeps, Swept
<1>14. s.y < 0
  <2>1. n = 2 * BH
    BY DEF n
  <2>2. s.cleared <= BH /\ (s.y >= 0 => ((BH - 1) - s.y) + s.cleared = n)
    BY <1>11 DEF Swept
  <2>. HIDE DEF s
  <2>. QED BY <1>0, <1>13, <2>1, <2>2
<1>15. \A y \in 0 .. BH - 1 : ~Full(s.left, y)
  <2>1. \A r \in 0 .. BH - 1 : r > s.y
    BY <1>13, <1>14
  <2>. QED BY <1>11, <2>1 DEF Swept
<1>16. s.cleared <= 4
  <2>1. PICK N : Old(N, s.left, s.cleared)
    BY <1>11 DEF Swept
  <2>2. N \in SUBSET s.left /\ Cardinality(s.left) - Cardinality(N) + s.cleared <= 4
    BY <2>1 DEF Old
  <2>3. Cardinality(N) <= Cardinality(s.left) /\ Cardinality(N) \in Nat /\ Cardinality(s.left) \in Nat
    BY <1>13, <2>2, BoardFinite, FS_Subset, FS_CardinalityType
  <2>. QED BY <1>13, <2>2, <2>3
<1>. QED BY <1>11, <1>12, <1>13, <1>15, <1>16 DEF Swept, c

-----------------------------------------------------------------------------
(* Tetris: the game.                                                       *)
TetrisInv ==
  /\ board \in SUBSET Cells /\ lines \in Nat /\ locked \in Nat /\ score \in Nat
  /\ Cardinality(board) + BW * lines = 4 * locked
  /\ \A y \in 0 .. BH - 1 : ~Full(board, y)
  /\ piece \in PieceSet /\ (tover \/ Fits(board, piece))
  /\ part = "tetris" /\ app = "tetris" => painted = board \cup CellsOf(piece)

LEMMA TetrisInvHolds == TetrisInv => (part = "tetris" => TetrisAddsUp)
BY DEF TetrisInv, TetrisAddsUp

LEMMA TetrisFrame ==
  ASSUME [AppsNext]_appsVars
  PROVE  /\ part' = part
         /\ \/ part = "tetris" /\ (TetrisStep \/ OpenTetris)
            \/ part # "tetris" /\ UNCHANGED tetris
            \/ UNCHANGED <<tetris, app, prefsVars>>
<1>1. CASE UNCHANGED appsVars
  BY <1>1 DEF appsVars, vars
<1>2. CASE \E p \in {"files", "snake", "2048", "settings", "scripts", "shell", "calculator", "statistics",
                     "functions", "equations", "menus", "python", "console", "input", "colours"} : In(p)
  BY <1>2 DEF In
<1>3. CASE In("tetris") /\ TetrisStep
  BY <1>3 DEF In
<1>4. CASE OpenTetris
  BY <1>4 DEF OpenTetris, In
<1>5. OpenApp => OpenTetris \/ \E p \in {"snake", "2048", "settings", "statistics", "scripts", "shell",
                        "calculator", "functions", "equations", "python"} : In(p)
  BY DEF OpenApp, OpenSnake, Open2048, OpenSettings, OpenStatistics, OpenScripts, OpenShell, OpenCalculator,
         OpenFunctions, OpenEquations, OpenPython
<1>. QED BY <1>1, <1>2, <1>3, <1>4, <1>5 DEF AppsNext

LEMMA EmptyBoard == /\ {} \in SUBSET Cells /\ \A y \in 0 .. BH - 1 : ~Full({}, y)
                    /\ Cardinality({}) + BW * 0 = 4 * 0
<1>1. BW \in Nat \ {0}
  BY TetrisSizes
<1>2. Cardinality({}) = 0
  BY FS_EmptySet
<1>. QED BY <1>1, <1>2 DEF Full

LEMMA TetrisStarts == AppsInit => TetrisInv
<1> SUFFICES ASSUME AppsInit PROVE TetrisInv
  OBVIOUS
<1>1. TetrisInit /\ app # "tetris"
  BY DEF AppsInit, Init
<1>2. piece \in PieceSet /\ Fits({}, piece)
  BY <1>1, PiecesTyped, TetrisSizes DEF TetrisInit
<1>. QED BY <1>1, <1>2, EmptyBoard DEF TetrisInit, TetrisInv

LEMMA PointsTyped == \A n \in 0 .. 4 : Points(n) \in Nat
<1> TAKE n \in 0 .. 4
<1>1. n = 0 \/ n = 1 \/ n = 2 \/ n = 3 \/ n = 4
  OBVIOUS
<1>. QED BY <1>1 DEF Points

LEMMA NatTimes == \A a, b \in Nat : a * b \in Nat
OBVIOUS

(* lock_piece()                                                            *)
LEMMA Locks ==
  ASSUME TetrisInv, NEW p \in PieceSet, Fits(board, p), Lock(p)
  PROVE  TetrisInv' /\ score' \in Nat
<1>0. BW \in Nat \ {0} /\ BH \in Nat \ {0} /\ LevelLines \in Nat \ {0}
  BY TetrisSizes
<1> DEFINE b == board \cup CellsOf(p)
           s == Sweep(b)
<1>1. /\ board \in SUBSET Cells /\ lines \in Nat /\ locked \in Nat /\ score \in Nat
      /\ Cardinality(board) + BW * lines = 4 * locked
      /\ \A y \in 0 .. BH - 1 : ~Full(board, y)
  BY DEF TetrisInv
<1>2. /\ locked' = locked + 1 /\ board' = s.left /\ lines' = lines + s.cleared
      /\ score' = score + Points(s.cleared) * ((lines \div LevelLines) + 1)
      /\ piece' \in Pieces /\ tover' = ~Fits(board', piece') /\ painted' = board' \cup CellsOf(piece')
  BY DEF Lock
<1>3. b \in SUBSET Cells /\ Cardinality(b) = Cardinality(board) + 4
  <2>1. CellsOf(p) \subseteq Cells /\ board \cap CellsOf(p) = {}
    BY DEF Fits
  <2>2. IsFiniteSet(board) /\ IsFiniteSet(CellsOf(p)) /\ Cardinality(CellsOf(p)) = 4
    BY <1>1, BoardFinite, CellsFour
  <2>. QED BY <1>1, <2>1, <2>2, Disjoint
<1>4. Cardinality(board) \in Nat
  BY <1>1, BoardFinite
<1>5. Old(board, b, 0)
  BY <1>1, <1>3, <1>4 DEF Old
<1>. HIDE DEF b
<1>6. /\ s.left \in SUBSET Cells /\ s.cleared \in 0 .. 4
      /\ Cardinality(s.left) + BW * s.cleared = Cardinality(b)
      /\ \A y \in 0 .. BH - 1 : ~Full(s.left, y)
  BY <1>3, <1>5, SweepIs
<1>. HIDE DEF s
<1>7. Cardinality(board') + BW * lines' = 4 * locked'
  <2>1. BW * (lines + s.cleared) = BW * lines + BW * s.cleared /\ BW * lines \in Nat /\ BW * s.cleared \in Nat
    BY <1>0, <1>1, <1>6
  <2>2. Cardinality(s.left) \in Nat
    BY <1>6, BoardFinite
  <2>. QED BY <1>1, <1>2, <1>3, <1>4, <1>6, <2>1, <2>2
<1>8. score' \in Nat
  <2>1. Points(s.cleared) \in Nat /\ (lines \div LevelLines) + 1 \in Nat
    BY <1>0, <1>1, <1>6, PointsTyped
  <2>2. Points(s.cleared) * ((lines \div LevelLines) + 1) \in Nat
    BY <2>1, NatTimes
  <2>. QED BY <1>1, <1>2, <2>2
<1>9. piece' \in PieceSet
  BY <1>2, PiecesTyped
<1>10. tover' \/ Fits(board', piece')
  BY <1>2
<1>11. lines' \in Nat /\ locked' \in Nat /\ board' \in SUBSET Cells /\ \A y \in 0 .. BH - 1 : ~Full(board', y)
  BY <1>1, <1>2, <1>6
<1>12. painted' = board' \cup CellsOf(piece')
  BY <1>2
<1>. QED BY ONLY <1>7, <1>8, <1>9, <1>10, <1>11, <1>12 DEF TetrisInv

LEMMA Moves ==
  ASSUME TetrisInv, part' = part, Playing, NEW p \in PieceSet, Fits(board, p), Move(p) PROVE TetrisInv'
<1>1. Fits(board, piece) /\ app = "tetris" /\ app' = app
  BY DEF TetrisInv, Playing
<1>2. painted' = (painted \ CellsOf(piece)) \cup CellsOf(p) /\ piece' = p
      /\ UNCHANGED <<board, score, lines, tover, locked>>
  BY DEF Move
<1>3. painted = board \cup CellsOf(piece) => painted' = board \cup CellsOf(p)
  BY <1>1, <1>2 DEF Fits
<1>. QED BY <1>1, <1>2, <1>3 DEF TetrisInv

LEMMA TetrisKeeps == ASSUME TetrisInv, [AppsNext]_appsVars PROVE TetrisInv'
<1>0. part' = part
  BY TetrisFrame
<1>1. CASE part # "tetris" /\ UNCHANGED tetris
  BY <1>0, <1>1 DEF TetrisInv, tetris
<1>2. CASE UNCHANGED <<tetris, app>>
  BY <1>0, <1>2 DEF TetrisInv, tetris
<1>3. CASE part = "tetris" /\ OpenTetris
  BY <1>0, <1>3 DEF OpenTetris, TetrisShown, TetrisInv
<1>4. piece \in PieceSet /\ piece.x \in Int /\ piece.y \in Int /\ piece.rot \in 0 .. 3
  BY DEF TetrisInv, PieceSet
<1>5. CASE part = "tetris" /\ TetrisSteer
  <2>1. PICK p \in {PieceLeft(piece), PieceRight(piece), Rotated(piece)} : Fits(board, p) /\ Move(p)
    BY <1>5 DEF TetrisSteer
  <2>2. piece.x - 1 \in Int /\ piece.x + 1 \in Int /\ (piece.rot + 1) % 4 \in 0 .. 3
    BY <1>4
  <2>3. p \in PieceSet
    BY <1>4, <2>1, <2>2 DEF PieceSet, PieceLeft, PieceRight, Rotated
  <2>4. Playing
    BY <1>5 DEF TetrisSteer
  <2>. QED BY <1>0, <2>1, <2>3, <2>4, Moves
<1>6. CASE part = "tetris" /\ TetrisDown
  <2>1. Playing
    BY <1>6 DEF TetrisDown
  <2>2. CASE Fits(board, Below(piece))
    <3>1. Below(piece) \in PieceSet
      BY <1>4 DEF PieceSet, Below
    <3>2. Move(Below(piece))
      BY <1>6, <2>2 DEF TetrisDown
    <3>. QED BY <1>0, <2>1, <2>2, <3>1, <3>2, Moves
  <2>3. CASE ~Fits(board, Below(piece))
    <3>1. Lock(piece) /\ Fits(board, piece)
      BY <1>6, <2>1, <2>3 DEF TetrisDown, Playing, TetrisInv
    <3>. QED BY <1>4, <3>1, Locks
  <2>. QED BY <2>2, <2>3
<1>7. CASE part = "tetris" /\ TetrisDrop
  <2>1. PICK y \in piece.y .. BH - 1 : LET p == [piece EXCEPT !.y = y] IN Reached(p) /\ Lock(p)
    BY <1>7 DEF TetrisDrop
  <2> DEFINE p == [piece EXCEPT !.y = y]
  <2>2. p \in PieceSet /\ p.y = y /\ [p EXCEPT !.y = y] = p
    <3>1. y \in Int
      BY <1>4, TetrisSizes
    <3>. QED BY <1>4, <3>1 DEF PieceSet
  <2>3. y \in piece.y .. p.y
    BY <1>4, <2>2
  <2>4. Fits(board, p)
    <3>1. Fits(board, [p EXCEPT !.y = y])
      BY <2>1, <2>3 DEF Reached
    <3>. QED BY <2>2, <3>1
  <2>5. Lock(p)
    BY <2>1
  <2>. HIDE DEF p
  <2>. QED BY <2>2, <2>4, <2>5, Locks
<1>8. CASE part = "tetris" /\ TetrisAgain
  <2>1. /\ board' = {} /\ score' = 0 /\ lines' = 0 /\ locked' = 0 /\ piece' \in Pieces
        /\ painted' = CellsOf(piece')
    BY <1>8 DEF TetrisAgain
  <2>2. piece' \in PieceSet /\ Fits({}, piece')
    BY <2>1, PiecesTyped, TetrisSizes
  <2>. QED BY <2>1, <2>2, EmptyBoard DEF TetrisInv
<1>9. CASE part = "tetris" /\ TetrisLeave
  BY <1>0, <1>9 DEF TetrisLeave, TetrisInv
<1>. QED BY <1>1, <1>2, <1>3, <1>5, <1>6, <1>7, <1>8, <1>9, TetrisFrame DEF TetrisStep

-----------------------------------------------------------------------------
(* Sums over finite sets.                                                  *)
AnElement(S) == CHOOSE s \in S : TRUE
Summed(sum, f, U) ==
  \A S \in SUBSET U : sum[S] = IF S = {} THEN 0 ELSE f[AnElement(S)] + sum[S \ {AnElement(S)}]
Sums(sum, f, U) ==
  /\ sum \in [SUBSET U -> Nat] /\ sum[{}] = 0
  /\ \A S \in SUBSET U : \A x \in U \ S : sum[S \cup {x}] = sum[S] + f[x]

LEMMA SubsetFinite ==
  ASSUME NEW U, IsFiniteSet(U), NEW S \in SUBSET U PROVE IsFiniteSet(S) /\ Cardinality(S) \in Nat
BY FS_Subset, FS_CardinalityType

LEMMA AnyOf == ASSUME NEW S, S # {} PROVE AnElement(S) \in S
BY DEF AnElement

LEMMA SumsExist ==
  ASSUME NEW U, IsFiniteSet(U), NEW f, \A x \in U : f[x] \in Nat
  PROVE  \E sum \in [SUBSET U -> Nat] : Summed(sum, f, U)
<1> DEFINE Upto(n) == {S \in SUBSET U : Cardinality(S) <= n}
           Value(h, S) == IF S = {} THEN 0 ELSE f[AnElement(S)] + h[S \ {AnElement(S)}]
           Good(n, h) == h \in [Upto(n) -> Nat] /\ \A S \in Upto(n) : h[S] = Value(h, S)
           m == Cardinality(U)
           P == {n \in 0 .. m : \E h : Good(n, h)}
<1>1. m \in Nat
  BY FS_CardinalityType
<1>2. \A S \in SUBSET U : Cardinality(S) \in Nat /\ Cardinality(S) <= m /\ IsFiniteSet(S)
  BY FS_Subset, FS_CardinalityType
<1>3. \A S \in SUBSET U : S # {} => /\ AnElement(S) \in U /\ S \ {AnElement(S)} \in SUBSET U
                                    /\ Cardinality(S \ {AnElement(S)}) = Cardinality(S) - 1
  <2> SUFFICES ASSUME NEW S \in SUBSET U, S # {}
               PROVE  AnElement(S) \in U /\ S \ {AnElement(S)} \in SUBSET U /\ Cardinality(S \ {AnElement(S)}) = Cardinality(S) - 1
    OBVIOUS
  <2>1. AnElement(S) \in S /\ IsFiniteSet(S)
    BY <1>2, AnyOf
  <2>. QED BY <2>1, FS_RemoveElement
<1>4. 0 \in P
  <2>1. Upto(0) = {{}}
    <3>1. Cardinality({}) = 0
      BY FS_EmptySet
    <3>2. \A S \in SUBSET U : Cardinality(S) <= 0 => S = {}
      BY <1>2, FS_EmptySet
    <3>. QED BY <3>1, <3>2
  <2>2. Good(0, [S \in Upto(0) |-> 0])
    BY <2>1
  <2>. HIDE DEF Good
  <2>. QED BY <1>1, <2>2
<1>5. ASSUME NEW n \in 0 .. m - 1, n \in P PROVE n + 1 \in P
  <2>1. PICK h : Good(n, h)
    BY <1>5
  <2> DEFINE g == [S \in Upto(n + 1) |-> IF S \in Upto(n) THEN h[S] ELSE Value(h, S)]
  <2>2. ASSUME NEW S \in Upto(n + 1), S # {} PROVE S \ {AnElement(S)} \in Upto(n) /\ S \ {AnElement(S)} \in Upto(n + 1) /\ AnElement(S) \in U
    BY <1>1, <1>2, <1>3, <2>2
  <2>3. ASSUME NEW S \in Upto(n + 1) PROVE g[S] \in Nat /\ g[S] = Value(h, S)
    <3>1. CASE S = {}
      BY <2>1, <3>1
    <3>2. CASE S # {}
      <4>1. h[S \ {AnElement(S)}] \in Nat /\ f[AnElement(S)] \in Nat
        <5>. HIDE DEF Upto
        <5>. QED BY <2>1, <2>2, <3>2
      <4>2. Value(h, S) \in Nat
        BY <3>2, <4>1
      <4>. HIDE DEF Upto, Value
      <4>. QED BY <2>1, <4>2
    <3>. QED BY <3>1, <3>2
  <2>4. ASSUME NEW S \in Upto(n) PROVE S \in Upto(n + 1) /\ g[S] = h[S]
    BY <1>1, <1>2
  <2>5. ASSUME NEW S \in Upto(n + 1) PROVE Value(g, S) = Value(h, S)
    <3>. HIDE DEF Upto, g
    <3>. QED BY <2>2, <2>4
  <2>6. Good(n + 1, g)
    <3>1. g \in [Upto(n + 1) -> Nat]
      <4>. HIDE DEF Upto, Value
      <4>. QED BY <2>3
    <3>2. \A S \in Upto(n + 1) : g[S] = Value(g, S)
      <4>. HIDE DEF Upto, Value, g
      <4>. QED BY <2>3, <2>5
    <3>. HIDE DEF Upto, Value, g
    <3>. QED BY <3>1, <3>2
  <2>7. n + 1 \in 0 .. m
    BY <1>1
  <2>. HIDE DEF g, Good
  <2>. QED BY <2>6, <2>7
<1>6. m \in P
  <2>. HIDE DEF P, m
  <2>. QED BY <1>1, <1>4, <1>5, UpTo0
<1>7. Upto(m) = SUBSET U
  BY <1>2
<1>8. PICK h : Good(m, h)
  BY <1>6
<1>. QED BY <1>7, <1>8 DEF Summed

(* The sum of a set with one more.                                         *)
LEMMA SumsAdd ==
  ASSUME NEW U, IsFiniteSet(U), NEW f, \A x \in U : f[x] \in Nat,
         NEW sum \in [SUBSET U -> Nat], Summed(sum, f, U)
  PROVE  Sums(sum, f, U)
<1> DEFINE m == Cardinality(U)
           Adds(S) == \A x \in U \ S : sum[S \cup {x}] = sum[S] + f[x]
           P == {n \in 0 .. m : \A S \in SUBSET U : Cardinality(S) <= n => Adds(S)}
<1>1. m \in Nat
  BY FS_CardinalityType
<1>2. \A S \in SUBSET U : Cardinality(S) \in Nat /\ Cardinality(S) <= m /\ IsFiniteSet(S)
  BY FS_Subset, FS_CardinalityType
<1>3. sum[{}] = 0
  BY DEF Summed
<1>4. 0 \in P
  <2>1. ASSUME NEW S \in SUBSET U, Cardinality(S) <= 0 PROVE Adds(S)
    <3>1. S = {}
      BY <1>2, <2>1, FS_EmptySet
    <3>2. ASSUME NEW x \in U PROVE sum[{x}] = f[x]
      <4>1. AnElement({x}) = x /\ {x} \ {x} = {} /\ {x} # {} /\ {x} \in SUBSET U
        BY DEF AnElement
      <4>2. sum[{x}] = f[AnElement({x})] + sum[{x} \ {AnElement({x})}]
        BY <4>1 DEF Summed
      <4>3. sum[{x}] = f[x] + sum[{}]
        BY <4>1, <4>2, Zenon
      <4>4. f[x] \in Nat
        OBVIOUS
      <4>. QED BY <1>3, <4>3, <4>4
    <3>3. \A x : S \cup {x} = {x}
      BY <3>1
    <3>. QED BY <1>3, <3>1, <3>2, <3>3
  <2>. HIDE DEF Adds
  <2>. QED BY <1>1, <2>1
<1>5. ASSUME NEW n \in 0 .. m - 1, n \in P PROVE n + 1 \in P
  <2>1. ASSUME NEW S \in SUBSET U, Cardinality(S) <= n + 1, NEW x \in U \ S PROVE sum[S \cup {x}] = sum[S] + f[x]
    <3> DEFINE T == S \cup {x}
               c == AnElement(T)
    <3>1. c \in T /\ T # {} /\ T \in SUBSET U
      BY AnyOf
    <3>2. sum[T] = f[c] + sum[T \ {c}]
      <4>. HIDE DEF T
      <4>. QED BY <3>1 DEF Summed
    <3>3. CASE c = x
      <4>1. T \ {c} = S
        BY <3>3
      <4>2. sum[S] \in Nat /\ f[x] \in Nat
        OBVIOUS
      <4>. HIDE DEF c, T
      <4>3. sum[T] = sum[S] + f[x]
        <5>1. sum[T] = f[x] + sum[S]
          BY <3>2, <3>3, <4>1, Zenon
        <5>. QED BY <4>2, <5>1
      <4>. QED BY <4>3 DEF T
    <3>4. CASE c # x
      <4> DEFINE R == S \ {c}
      <4>0. c \in S
        BY <3>1, <3>4
      <4>1. T \ {c} = R \cup {x} /\ R \cup {c} = S /\ R \in SUBSET U /\ x \in U \ R /\ c \in U \ R
        BY <3>4, <4>0
      <4>2. Cardinality(R) <= n
        <5>1. IsFiniteSet(S) /\ Cardinality(S) \in Nat
          BY <1>2
        <5>2. Cardinality(R) = Cardinality(S) - 1
          <6>. HIDE DEF c
          <6>. QED BY <4>0, <5>1, FS_RemoveElement
        <5>. QED BY <2>1, <5>1, <5>2
      <4>3. Adds(R)
        <5>. HIDE DEF Adds, R
        <5>. QED BY <1>5, <4>1, <4>2
      <4>. HIDE DEF R, c, T
      <4>4. sum[R \cup {x}] = sum[R] + f[x] /\ sum[R \cup {c}] = sum[R] + f[c]
        BY <4>1, <4>3
      <4>5. sum[R] \in Nat /\ f[x] \in Nat /\ f[c] \in Nat
        BY <4>1
      <4>6. sum[T] = sum[S] + f[x]
        <5>1. sum[T] = f[c] + sum[R \cup {x}] /\ sum[S] = sum[R \cup {c}]
          BY <3>2, <4>1, Zenon
        <5>. QED BY <4>4, <4>5, <5>1
      <4>. QED BY <4>6 DEF T
    <3>. QED BY <3>3, <3>4
  <2>2. n + 1 \in 0 .. m
    BY <1>1
  <2>. QED BY <2>1, <2>2
<1>6. m \in P
  <2>. HIDE DEF P, m
  <2>. QED BY <1>1, <1>4, <1>5, UpTo0
<1>. QED BY <1>2, <1>3, <1>6 DEF Sums

LEMMA SumOfIs ==
  ASSUME NEW U, IsFiniteSet(U), NEW f, \A x \in U : f[x] \in Nat
  PROVE  \E sum : Sums(sum, f, U) /\ SumOf(f, U) = sum[U]
<1> DEFINE F(h) == [S \in SUBSET U |-> IF S = {} THEN 0 ELSE LET s == CHOOSE s \in S : TRUE IN f[s] + h[S \ {s}]]
           g == CHOOSE g : g = F(g)
<1>1. PICK h \in [SUBSET U -> Nat] : Summed(h, f, U)
  BY SumsExist
<1>2. h = F(h)
  BY <1>1 DEF Summed, AnElement
<1>3. g = F(g)
  BY <1>2
<1>4. SumOf(f, U) = g[U]
  BY DEF SumOf
<1>5. Summed(g, f, U)
  <2>1. ASSUME NEW k, NEW S \in SUBSET U PROVE F(k)[S] = IF S = {} THEN 0 ELSE f[AnElement(S)] + k[S \ {AnElement(S)}]
    BY DEF AnElement
  <2>. HIDE DEF F, g
  <2>2. \A S \in SUBSET U : g[S] = IF S = {} THEN 0 ELSE f[AnElement(S)] + g[S \ {AnElement(S)}]
    BY <1>3, <2>1
  <2>. QED BY <2>2 DEF Summed
(* The two have the same values, so g's are numbers.                       *)
<1> DEFINE m == Cardinality(U)
           P == {n \in 0 .. m : \A S \in SUBSET U : Cardinality(S) <= n => g[S] = h[S]}
<1>6. m \in Nat /\ \A S \in SUBSET U : Cardinality(S) \in Nat /\ Cardinality(S) <= m /\ IsFiniteSet(S)
  BY FS_Subset, FS_CardinalityType
<1>. HIDE DEF g, F
<1>7. 0 \in P
  <2>1. g[{}] = h[{}]
    BY <1>1, <1>5 DEF Summed
  <2>2. \A S \in SUBSET U : Cardinality(S) <= 0 => S = {}
    BY <1>6, FS_EmptySet
  <2>3. \A S \in SUBSET U : Cardinality(S) <= 0 => g[S] = h[S]
    BY <2>1, <2>2, Zenon
  <2>. QED BY <1>6, <2>3
<1>8. ASSUME NEW n \in 0 .. m - 1, n \in P PROVE n + 1 \in P
  <2>1. ASSUME NEW S \in SUBSET U, Cardinality(S) <= n + 1 PROVE g[S] = h[S]
    <3>1. CASE S = {}
      BY <1>1, <1>5, <3>1 DEF Summed
    <3>2. CASE S # {}
      <4> DEFINE R == S \ {AnElement(S)}
      <4>1. AnElement(S) \in S
        BY <3>2, AnyOf
      <4>2. R \in SUBSET U /\ Cardinality(R) = Cardinality(S) - 1
        BY <1>6, <4>1, FS_RemoveElement
      <4>3. Cardinality(R) <= n
        BY <1>6, <2>1, <4>2
      <4>. HIDE DEF R
      <4>4. g[R] = h[R]
        BY <1>8, <4>2, <4>3
      <4>5. g[S] = f[AnElement(S)] + g[R] /\ h[S] = f[AnElement(S)] + h[R]
        BY <1>1, <1>5, <3>2 DEF Summed, R
      <4>. QED BY <4>4, <4>5
    <3>. QED BY <3>1, <3>2
  <2>2. n + 1 \in 0 .. m
    BY <1>6
  <2>. QED BY <2>1, <2>2
<1>9. m \in P
  <2>. HIDE DEF P, m
  <2>. QED BY <1>6, <1>7, <1>8, UpTo0
<1>10. \A S \in SUBSET U : g[S] = h[S]
  BY <1>6, <1>9
<1>11. g \in [SUBSET U -> Nat]
  <2>1. g = [S \in SUBSET U |-> g[S]]
    <3>1. F(g) = [S \in SUBSET U |-> F(g)[S]]
      BY DEF F
    <3>. QED BY <1>3, <3>1
  <2>. QED BY <1>1, <1>10, <2>1
<1>. QED BY <1>4, <1>5, <1>11, SumsAdd

-----------------------------------------------------------------------------
(* What holds of the empty set, and with one more element, holds of all.   *)
LEMMA OneByOne ==
  ASSUME NEW U, IsFiniteSet(U), NEW P, {} \in P, \A S \in SUBSET U : \A x \in U \ S : S \in P => S \cup {x} \in P
  PROVE  \A S \in SUBSET U : S \in P
<1> DEFINE m == Cardinality(U)
           Q == {n \in 0 .. m : \A S \in SUBSET U : Cardinality(S) <= n => S \in P}
<1>1. m \in Nat /\ \A S \in SUBSET U : Cardinality(S) \in Nat /\ Cardinality(S) <= m /\ IsFiniteSet(S)
  BY FS_Subset, FS_CardinalityType
<1>2. 0 \in Q
  <2>1. \A S \in SUBSET U : Cardinality(S) <= 0 => S = {}
    BY <1>1, FS_EmptySet
  <2>2. \A S \in SUBSET U : Cardinality(S) <= 0 => S \in P
    BY <2>1, Zenon
  <2>. QED BY <1>1, <2>2
<1>3. ASSUME NEW n \in 0 .. m - 1, n \in Q PROVE n + 1 \in Q
  <2>1. ASSUME NEW S \in SUBSET U, Cardinality(S) <= n + 1 PROVE S \in P
    <3>1. CASE S = {}
      BY <3>1
    <3>2. CASE S # {}
      <4>1. PICK x \in S : TRUE
        BY <3>2
      <4> DEFINE R == S \ {x}
      <4>2. R \in SUBSET U /\ Cardinality(R) = Cardinality(S) - 1 /\ x \in U \ R /\ R \cup {x} = S
        BY <1>1, <4>1, FS_RemoveElement
      <4>3. Cardinality(R) <= n
        BY <1>1, <2>1, <4>2
      <4>. HIDE DEF R
      <4>4. R \in P
        BY <1>3, <4>2, <4>3
      <4>5. R \cup {x} \in P
        BY <4>2, <4>4
      <4>. QED BY <4>2, <4>5, Zenon
    <3>. QED BY <3>1, <3>2
  <2>2. n + 1 \in 0 .. m
    BY <1>1
  <2>. QED BY <2>1, <2>2
<1>4. m \in Q
  <2>. HIDE DEF Q, m
  <2>. QED BY <1>1, <1>2, <1>3, UpTo0
<1>. QED BY <1>1, <1>4

LEMMA SumSame ==
  ASSUME NEW U, IsFiniteSet(U), NEW f, NEW g, NEW a, NEW b, Sums(a, f, U), Sums(b, g, U),
         NEW T \in SUBSET U, \A x \in T : f[x] = g[x]
  PROVE  a[T] = b[T]
<1> DEFINE P == {S \in SUBSET T : a[S] = b[S]}
<1>1. {} \in P
  BY DEF Sums
<1>2. ASSUME NEW S \in SUBSET T, NEW x \in T \ S, S \in P PROVE S \cup {x} \in P
  <2>1. a[S \cup {x}] = a[S] + f[x] /\ b[S \cup {x}] = b[S] + g[x] /\ f[x] = g[x] /\ a[S] = b[S]
    BY <1>2 DEF Sums
  <2>2. a[S \cup {x}] = b[S \cup {x}]
    BY <2>1
  <2>. QED BY <2>2
<1>3. IsFiniteSet(T)
  BY FS_Subset
<1>4. \A S \in SUBSET T : S \in P
  <2>. HIDE DEF P
  <2>. QED BY <1>1, <1>2, <1>3, OneByOne
<1>. QED BY <1>4

LEMMA SumUnion ==
  ASSUME NEW U, IsFiniteSet(U), NEW f, \A x \in U : f[x] \in Nat, NEW a, Sums(a, f, U),
         NEW S \in SUBSET U, NEW T \in SUBSET U, S \cap T = {}
  PROVE  a[S \cup T] = a[S] + a[T] /\ a[S] \in Nat /\ a[T] \in Nat
<1> DEFINE P == {R \in SUBSET T : a[S \cup R] = a[S] + a[R]}
<1>0. a \in [SUBSET U -> Nat] /\ a[{}] = 0 /\ \A V \in SUBSET U : a[V] \in Nat
  BY DEF Sums
<1>1. {} \in P
  <2>1. S \cup {} = S
    OBVIOUS
  <2>2. a[S \cup {}] = a[S]
    BY <2>1, Zenon
  <2>. QED BY <1>0, <2>2
<1>2. ASSUME NEW R \in SUBSET T, NEW x \in T \ R, R \in P PROVE R \cup {x} \in P
  <2>1. a[R \cup {x}] = a[R] + f[x] /\ f[x] \in Nat
    BY DEF Sums
  <2>2. S \cup R \in SUBSET U /\ x \in U \ (S \cup R) /\ S \cup (R \cup {x}) = (S \cup R) \cup {x}
    OBVIOUS
  <2>3. a[(S \cup R) \cup {x}] = a[S \cup R] + f[x]
    BY <2>2 DEF Sums
  <2>4. a[S \cup (R \cup {x})] = a[S \cup R] + f[x]
    BY <2>2, <2>3, Zenon
  <2>5. a[S \cup R] = a[S] + a[R] /\ a[S] \in Nat /\ a[R] \in Nat
    BY <1>0, <1>2
  <2>6. a[S \cup (R \cup {x})] = a[S] + a[R \cup {x}]
    BY <2>1, <2>4, <2>5
  <2>. QED BY <2>6
<1>3. IsFiniteSet(T)
  BY FS_Subset
<1>4. \A R \in SUBSET T : R \in P
  <2>. HIDE DEF P
  <2>. QED BY <1>1, <1>2, <1>3, OneByOne
<1>. QED BY <1>0, <1>4

(* The sum after one of the summands has changed.                          *)
LEMMA SumChange ==
  ASSUME NEW U, IsFiniteSet(U), NEW f, NEW g, \A x \in U : f[x] \in Nat, \A x \in U : g[x] \in Nat,
         NEW a, NEW b, Sums(a, f, U), Sums(b, g, U),
         NEW y \in U, \A x \in U \ {y} : f[x] = g[x]
  PROVE  a[U] + g[y] = b[U] + f[y] /\ a[U] \in Nat /\ b[U] \in Nat
<1> DEFINE R == U \ {y}
<1>1. R \in SUBSET U /\ y \in U \ R /\ R \cup {y} = U
  OBVIOUS
<1>2. \A x \in R : f[x] = g[x]
  OBVIOUS
<1>. HIDE DEF R
<1>3. a[R] = b[R]
  BY <1>1, <1>2, SumSame
<1>4. a[R \cup {y}] = a[R] + f[y] /\ b[R \cup {y}] = b[R] + g[y]
  BY <1>1 DEF Sums
<1>5. a[U] = a[R] + f[y] /\ b[U] = b[R] + g[y]
  BY <1>1, <1>4, Zenon
<1>6. a[R] \in Nat /\ f[y] \in Nat /\ g[y] \in Nat
  BY <1>1 DEF Sums
<1>. QED BY <1>3, <1>5, <1>6

-----------------------------------------------------------------------------
(* 2048: what a tile shows.                                                *)
LEMMA FaceIs == Face \in [Nat -> Nat \ {0}] /\ Face[0] = 1 /\ \A e \in Nat : Face[e + 1] = 2 * Face[e]
<1> DEFINE Good(n, f) == f \in [0 .. n -> Nat \ {0}] /\ f[0] = 1 /\ \A i \in 1 .. n : f[i] = 2 * f[i - 1]
           f(n) == CHOOSE f : Good(n, f)
           F(h) == [e \in Nat |-> IF e = 0 THEN 1 ELSE 2 * h[e - 1]]
           h == [n \in Nat |-> f(n)[n]]
<1>1. ASSUME NEW n \in Nat PROVE \E g : Good(n, g)
  <2> DEFINE step == [p \in (Nat \ {0}) \X (1 .. n) |-> 2 * p[1]]
  <2>1. Steps(step, Nat \ {0}, n) /\ 1 \in Nat \ {0}
    BY DEF Steps
  <2>2. \A s \in Nat \ {0}, i \in 1 .. n : step[<<s, i>>] = 2 * s
    OBVIOUS
  <2>3. PICK g : Goes(g, Nat \ {0}, 1, step, n)
    <3>. HIDE DEF step
    <3>. QED BY ONLY n \in Nat, <2>1, Recursion
  <2>. HIDE DEF step
  <2>4. ASSUME NEW i \in 1 .. n PROVE g[i] = 2 * g[i - 1]
    <3>1. i - 1 \in 0 .. n
      OBVIOUS
    <3>2. g[i - 1] \in Nat \ {0} /\ g[i] = step[<<g[i - 1], i>>]
      BY <2>3, <3>1 DEF Goes
    <3>. QED BY <2>2, <3>2
  <2>5. Good(n, g)
    BY <2>3, <2>4 DEF Goes
  <2>. HIDE DEF Good
  <2>. QED BY <2>5
<1>2. \A n \in Nat : Good(n, f(n))
  <2>. HIDE DEF Good
  <2>. QED BY <1>1
<1>3. ASSUME NEW n \in Nat, NEW g, NEW k, Good(n + 1, g), Good(n, k) PROVE \A i \in 0 .. n : g[i] = k[i]
  <2> DEFINE P == {i \in 0 .. n : g[i] = k[i]}
  <2>1. 0 \in P
    BY <1>3
  <2>2. ASSUME NEW i \in 0 .. n - 1, i \in P PROVE i + 1 \in P
    <3>1. i + 1 \in 1 .. n /\ i + 1 \in 1 .. n + 1 /\ (i + 1) - 1 = i
      OBVIOUS
    <3>2. g[i + 1] = 2 * g[i] /\ k[i + 1] = 2 * k[i]
      BY <1>3, <3>1
    <3>. QED BY <2>2, <3>1, <3>2
  <2>. HIDE DEF P
  <2>3. \A i \in 0 .. n : i \in P
    BY <2>1, <2>2, UpTo0
  <2>. QED BY <2>3 DEF P
<1>4. h \in [Nat -> Nat \ {0}] /\ h[0] = 1
  <2>1. ASSUME NEW n \in Nat PROVE f(n)[n] \in Nat \ {0}
    <3>. HIDE DEF f
    <3>. QED BY <1>2
  <2>2. f(0)[0] = 1
    <3>. HIDE DEF f
    <3>1. \A k : Good(0, k) => k[0] = 1
      OBVIOUS
    <3>2. 0 \in Nat
      OBVIOUS
    <3>. HIDE DEF Good
    <3>3. Good(0, f(0))
      BY <1>2, <3>2, Zenon
    <3>. QED BY <3>1, <3>3, Zenon
  <2>. HIDE DEF f
  <2>. QED BY <2>1, <2>2
<1>5. ASSUME NEW e \in Nat PROVE h[e + 1] = 2 * h[e]
  <2>1. Good(e, f(e)) /\ Good(e + 1, f(e + 1))
    <3>. HIDE DEF Good, f
    <3>. QED BY <1>2
  <2>. HIDE DEF f
  <2>2. e \in 0 .. e /\ e + 1 \in 1 .. e + 1 /\ (e + 1) - 1 = e
    OBVIOUS
  <2>3. f(e + 1)[e] = f(e)[e]
    <3>. HIDE DEF Good
    <3>. QED BY <1>3, <2>1, <2>2
  <2>4. f(e + 1)[e + 1] = 2 * f(e + 1)[e]
    BY <2>1, <2>2
  <2>. QED BY <2>3, <2>4
<1>. HIDE DEF h
<1>6. h = F(h)
  <2>1. ASSUME NEW e \in Nat PROVE h[e] = F(h)[e]
    <3>1. CASE e = 0
      BY <1>4, <3>1
    <3>2. CASE e # 0
      <4>1. e - 1 \in Nat /\ (e - 1) + 1 = e
        BY <3>2
      <4>2. h[e] = 2 * h[e - 1]
        BY <1>5, <4>1
      <4>. QED BY <3>2, <4>2
    <3>. QED BY <3>1, <3>2
  <2>. QED BY <1>4, <2>1
<1>7. Face = F(Face)
  <2>1. Face = CHOOSE g : g = F(g)
    BY DEF Face
  <2>. HIDE DEF F
  <2>. QED BY <1>6, <2>1
<1>8. Face[0] = 1 /\ \A e \in Nat : Face[e + 1] = 2 * Face[e]
  <2>1. ASSUME NEW g PROVE F(g)[0] = 1 /\ \A e \in Nat : F(g)[e + 1] = 2 * g[e]
    <3>1. \A e \in Nat : e + 1 \in Nat /\ e + 1 # 0 /\ (e + 1) - 1 = e
      OBVIOUS
    <3>. QED BY <3>1
  <2>. HIDE DEF F
  <2>. QED BY <1>7, <2>1
<1>9. Face = [e \in Nat |-> Face[e]]
  <2>1. F(Face) = [e \in Nat |-> F(Face)[e]]
    OBVIOUS
  <2>. HIDE DEF F
  <2>. QED BY <1>7, <2>1
<1>10. \A n \in Nat : Face[n] \in Nat \ {0}
  <2>1. ASSUME NEW n \in Nat PROVE Face[n] \in Nat \ {0}
    <3> DEFINE P == {i \in 0 .. n : Face[i] \in Nat \ {0}}
    <3>1. 0 \in P /\ \A i \in 0 .. n - 1 : i \in P => i + 1 \in P
      BY <1>8
    <3>. HIDE DEF P
    <3>2. \A i \in 0 .. n : i \in P
      BY <3>1, UpTo0
    <3>. QED BY <3>2 DEF P
  <2>. QED BY <2>1
<1>. QED BY <1>8, <1>9, <1>10

LEMMA WorthIs ==
  /\ Worth(0) = 0 /\ Worth(1) = 0 /\ Worth(2) = 4 /\ \A e \in Nat : Worth(e) \in Nat
  /\ \A e \in Nat \ {0} : Worth(e + 1) = 2 * Worth(e) + Face[e + 1]
<1>1. Face[1] = 2 /\ Face[2] = 4
  <2>1. Face[0 + 1] = 2 * Face[0] /\ Face[1 + 1] = 2 * Face[1]
    BY FaceIs
  <2>. QED BY <2>1, FaceIs
<1>2. Worth(0) = 0 /\ Worth(1) = 0 /\ Worth(2) = 4
  BY <1>1 DEF Worth
<1>3. ASSUME NEW e \in Nat PROVE Worth(e) \in Nat
  <2>1. CASE e = 0
    BY <2>1 DEF Worth
  <2>2. CASE e # 0
    <3>1. e - 1 \in Nat /\ Face[e] \in Nat
      BY <2>2, FaceIs
    <3>2. \A a, b \in Nat : a * b \in Nat
      OBVIOUS
    <3>. QED BY <2>2, <3>1, <3>2 DEF Worth
  <2>. QED BY <2>1, <2>2
<1>4. ASSUME NEW e \in Nat \ {0} PROVE Worth(e + 1) = 2 * Worth(e) + Face[e + 1]
  <2>1. Face[e] \in Nat /\ Face[e + 1] = 2 * Face[e]
    BY FaceIs
  <2>2. \A x, y \in Nat : x * (2 * y) = 2 * ((x - 1) * y) + 2 * y
    OBVIOUS
  <2>3. Worth(e + 1) = e * Face[e + 1] /\ Worth(e) = (e - 1) * Face[e]
    BY DEF Worth
  <2>. QED BY <2>1, <2>2, <2>3
<1>. QED BY <1>2, <1>3, <1>4

-----------------------------------------------------------------------------
(* 2048: the lines of a direction.                                         *)
Boards == [Squares -> Nat]

LEMMA SquaresFinite == IsFiniteSet(Squares)
<1>1. Rows \in Nat /\ Columns \in Nat
  BY Game2048Sizes
<1>2. IsFiniteSet(0 .. Rows - 1) /\ IsFiniteSet(0 .. Columns - 1)
  BY <1>1, FS_Interval
<1>. QED BY <1>2, FS_Product DEF Squares

LEMMA LineSizes ==
  ASSUME NEW d \in Directions
  PROVE  Across(d) \in Nat \ {0} /\ Along(d) \in Nat \ {0}
BY Game2048Sizes DEF Across, Along, Directions

(* A square has its place in a line, and a place its square.               *)
LEMMA SquarePlace ==
  ASSUME NEW d \in Directions
  PROVE  /\ \A s \in Squares : /\ Place(d, s)[1] \in 0 .. Across(d) - 1 /\ Place(d, s)[2] \in 1 .. Along(d)
                               /\ Square(d, Place(d, s)[1], Place(d, s)[2]) = s
         /\ \A i \in 0 .. Across(d) - 1, j \in 1 .. Along(d) :
              Square(d, i, j) \in Squares /\ Place(d, Square(d, i, j))[1] = i /\ Place(d, Square(d, i, j))[2] = j
<1>0. Rows \in Nat /\ Columns \in Nat
  BY Game2048Sizes
<1>1. \A s \in Squares : s = <<s[1], s[2]>> /\ s[1] \in 0 .. Rows - 1 /\ s[2] \in 0 .. Columns - 1
  BY DEF Squares
<1>2. CASE d = "left"
  <2>1. Across(d) = Rows /\ Along(d) = Columns
    BY <1>2 DEF Across, Along
  <2>2. (\A s : Place(d, s) = <<s[1], s[2] + 1>>) /\ \A i, j : Square(d, i, j) = <<i, j - 1>>
    BY <1>2 DEF Place, Square
  <2>. QED BY <1>0, <1>1, <2>1, <2>2 DEF Squares
<1>3. CASE d = "right"
  <2>1. Across(d) = Rows /\ Along(d) = Columns
    BY <1>3 DEF Across, Along
  <2>2. (\A s : Place(d, s) = <<s[1], Columns - s[2]>>) /\ \A i, j : Square(d, i, j) = <<i, Columns - j>>
    BY <1>3 DEF Place, Square
  <2>. QED BY <1>0, <1>1, <2>1, <2>2 DEF Squares
<1>4. CASE d = "up"
  <2>1. Across(d) = Columns /\ Along(d) = Rows
    BY <1>4 DEF Across, Along
  <2>2. (\A s : Place(d, s) = <<s[2], s[1] + 1>>) /\ \A i, j : Square(d, i, j) = <<j - 1, i>>
    BY <1>4 DEF Place, Square
  <2>. QED BY <1>0, <1>1, <2>1, <2>2 DEF Squares
<1>5. CASE d = "down"
  <2>1. Across(d) = Columns /\ Along(d) = Rows
    BY <1>5 DEF Across, Along
  <2>2. (\A s : Place(d, s) = <<s[2], Rows - s[1]>>) /\ \A i, j : Square(d, i, j) = <<Rows - j, i>>
    BY <1>5 DEF Place, Square
  <2>. QED BY <1>0, <1>1, <2>1, <2>2 DEF Squares
<1>. QED BY <1>2, <1>3, <1>4, <1>5 DEF Directions

(* The squares up to the j-th of line i, and those of the lines before i.  *)
Seg(d, i, j) == {s \in Squares : Place(d, s)[1] = i /\ Place(d, s)[2] <= j}
Band(d, i) == {s \in Squares : Place(d, s)[1] < i}

LEMMA SegGrows ==
  ASSUME NEW d \in Directions, NEW i \in 0 .. Across(d) - 1, NEW j \in 1 .. Along(d)
  PROVE  /\ Seg(d, i, j) = Seg(d, i, j - 1) \cup {Square(d, i, j)} /\ Seg(d, i, 0) = {}
         /\ Square(d, i, j) \in Squares \ Seg(d, i, j - 1) /\ Seg(d, i, j - 1) \in SUBSET Squares
<1>1. Across(d) \in Nat /\ Along(d) \in Nat
  BY LineSizes
<1>2. /\ \A s \in Squares : /\ Place(d, s)[1] \in 0 .. Across(d) - 1 /\ Place(d, s)[2] \in 1 .. Along(d)
                            /\ Square(d, Place(d, s)[1], Place(d, s)[2]) = s
      /\ Square(d, i, j) \in Squares /\ Place(d, Square(d, i, j))[1] = i /\ Place(d, Square(d, i, j))[2] = j
  BY SquarePlace
<1>3. ASSUME NEW s \in Squares PROVE s \in Seg(d, i, j) <=> s \in Seg(d, i, j - 1) \/ s = Square(d, i, j)
  <2>1. Place(d, s)[2] <= j <=> Place(d, s)[2] <= j - 1 \/ Place(d, s)[2] = j
    BY <1>1, <1>2
  <2>2. Place(d, s)[1] = i /\ Place(d, s)[2] = j => s = Square(d, i, j)
    BY <1>2
  <2>. QED BY <1>2, <2>1, <2>2 DEF Seg
<1>4. Seg(d, i, j) = Seg(d, i, j - 1) \cup {Square(d, i, j)}
  BY <1>2, <1>3 DEF Seg
<1>5. Seg(d, i, 0) = {}
  BY <1>1, <1>2 DEF Seg
<1>6. Square(d, i, j) \notin Seg(d, i, j - 1)
  <2>1. ~(j <= j - 1)
    OBVIOUS
  <2>. QED BY <1>2, <2>1 DEF Seg
<1>. QED BY <1>2, <1>4, <1>5, <1>6 DEF Seg

LEMMA BandGrows ==
  ASSUME NEW d \in Directions, NEW i \in 0 .. Across(d) - 1
  PROVE  /\ Band(d, i + 1) = Band(d, i) \cup Seg(d, i, Along(d)) /\ Band(d, i) \cap Seg(d, i, Along(d)) = {}
         /\ Band(d, 0) = {} /\ Band(d, Across(d)) = Squares
         /\ Band(d, i) \in SUBSET Squares /\ Seg(d, i, Along(d)) \in SUBSET Squares
<1>1. Across(d) \in Nat /\ Along(d) \in Nat
  BY LineSizes
<1>2. \A s \in Squares : /\ Place(d, s)[1] \in 0 .. Across(d) - 1 /\ Place(d, s)[2] \in 1 .. Along(d)
                         /\ Place(d, s)[1] < Across(d) /\ Place(d, s)[2] <= Along(d)
                         /\ (Place(d, s)[1] < i + 1 <=> Place(d, s)[1] < i \/ Place(d, s)[1] = i)
                         /\ ~(Place(d, s)[1] < 0) /\ (Place(d, s)[1] < i => Place(d, s)[1] # i)
  <2> TAKE s \in Squares
  <2>1. Place(d, s)[1] \in 0 .. Across(d) - 1 /\ Place(d, s)[2] \in 1 .. Along(d)
    BY SquarePlace
  <2>. QED BY <1>1, <2>1
<1>. QED BY <1>2 DEF Band, Seg

-----------------------------------------------------------------------------
(* 2048: slide_line(), square by square.                                   *)
LineStates == [out : Seq(Nat \ {0}), merged : BOOLEAN, got : Nat]

LEMMA LastOf ==
  ASSUME NEW s \in Seq(Nat \ {0}), s # <<>>
  PROVE  /\ Len(s) \in Nat \ {0} /\ Last(s) = s[Len(s)] /\ Last(s) \in Nat \ {0}
         /\ Front(s) \in Seq(Nat \ {0}) /\ Len(Front(s)) = Len(s) - 1
         /\ \A k \in 1 .. Len(s) - 1 : Front(s)[k] = s[k]
<1>1. Len(s) \in Nat \ {0}
  BY EmptySeq
<1>2. Len(s) \in 1 .. Len(s)
  BY <1>1
<1>3. s[Len(s)] \in Nat \ {0}
  BY <1>2
<1>4. Front(s) = SubSeq(s, 1, Len(s) - 1)
  BY DEF Front
<1> DEFINE f == SubSeq(s, 1, Len(s) - 1)
<1>5. f \in Seq(Nat \ {0}) /\ Len(f) = Len(s) - 1 /\ \A k \in 1 .. Len(s) - 1 : f[k] = s[k]
  <2>1. \A k \in 1 .. Len(s) - 1 : k \in 1 .. Len(s)
    BY <1>1
  <2>2. f = [k \in 1 .. Len(s) - 1 |-> s[k]] /\ Len(s) - 1 \in Nat
    BY <1>1
  <2>3. \A k \in 1 .. Len(s) - 1 : s[k] \in Nat \ {0}
    BY <2>1
  <2>4. f \in Seq(Nat \ {0})
    BY <2>2, <2>3
  <2>. HIDE DEF f
  <2>5. Len(f) = Len(s) - 1
    BY <2>2
  <2>. QED BY <2>2, <2>4, <2>5
<1>. HIDE DEF f
<1>6. Front(s) = f
  BY <1>4 DEF f
<1>7. Last(s) = s[Len(s)]
  BY DEF Last
<1>. QED BY <1>1, <1>3, <1>5, <1>6, <1>7

(* What Met does: nothing, a merge or one more tile.                       *)
Skips(s, e, t) == e = 0 /\ t = s
Merges(s, e, t) ==
  /\ e # 0 /\ s.out # <<>> /\ ~s.merged /\ Last(s.out) = e
  /\ t.out = Append(Front(s.out), e + 1) /\ t.merged = TRUE /\ t.got = s.got + Face[e + 1]
Adds(s, e, t) ==
  /\ e # 0 /\ (s.out = <<>> \/ s.merged \/ Last(s.out) # e)
  /\ t.out = Append(s.out, e) /\ t.merged = FALSE /\ t.got = s.got

LEMMA MetCases ==
  ASSUME NEW s \in LineStates, NEW e \in Nat
  PROVE  Skips(s, e, Met(s, e)) \/ Merges(s, e, Met(s, e)) \/ Adds(s, e, Met(s, e))
<1>1. CASE e = 0
  BY <1>1 DEF Met, Skips
<1>2. CASE e # 0 /\ s.out # <<>> /\ ~s.merged /\ Last(s.out) = e
  <2>1. Met(s, e) = [out |-> Append(Front(s.out), e + 1), merged |-> TRUE, got |-> s.got + Face[e + 1]]
    BY <1>2 DEF Met
  <2>. QED BY <1>2, <2>1 DEF Merges
<1>3. CASE e # 0 /\ ~(s.out # <<>> /\ ~s.merged /\ Last(s.out) = e)
  <2>1. Met(s, e) = [out |-> Append(s.out, e), merged |-> FALSE, got |-> s.got]
    BY <1>3 DEF Met
  <2>. QED BY <1>3, <2>1 DEF Adds
<1>. QED BY <1>1, <1>2, <1>3

LEMMA MetTyped == ASSUME NEW s \in LineStates, NEW e \in Nat PROVE Met(s, e) \in LineStates
<1>1. s.out \in Seq(Nat \ {0}) /\ s.merged \in BOOLEAN /\ s.got \in Nat
  BY DEF LineStates
<1>2. e + 1 \in Nat \ {0} /\ Face[e + 1] \in Nat
  BY FaceIs
<1>3. CASE e = 0
  BY <1>3 DEF Met
<1>4. CASE e # 0 /\ s.out # <<>> /\ ~s.merged /\ Last(s.out) = e
  <2>1. Met(s, e) = [out |-> Append(Front(s.out), e + 1), merged |-> TRUE, got |-> s.got + Face[e + 1]]
    BY <1>4 DEF Met
  <2>2. Append(Front(s.out), e + 1) \in Seq(Nat \ {0})
    BY <1>1, <1>2, <1>4, LastOf, AppendProperties
  <2>3. s.got + Face[e + 1] \in Nat
    BY <1>1, <1>2
  <2>. QED BY <2>1, <2>2, <2>3 DEF LineStates
<1>5. CASE e # 0 /\ ~(s.out # <<>> /\ ~s.merged /\ Last(s.out) = e)
  <2>1. Met(s, e) = [out |-> Append(s.out, e), merged |-> FALSE, got |-> s.got]
    BY <1>5 DEF Met
  <2>2. Append(s.out, e) \in Seq(Nat \ {0})
    BY <1>1, <1>5, AppendProperties
  <2>. QED BY <1>1, <2>1, <2>2 DEF LineStates
<1>. QED BY <1>3, <1>4, <1>5

NoneMet == [out |-> <<>>, merged |-> FALSE, got |-> 0]
LineLoops(at, b, d, i) ==
  /\ at \in [0 .. Along(d) -> LineStates] /\ at[0] = NoneMet /\ LineOf(b, d, i) = at[Along(d)]
  /\ \A j \in 1 .. Along(d) : at[j] = Met(at[j - 1], b[Square(d, i, j)])

LEMMA LineLoop ==
  ASSUME NEW b \in Boards, NEW d \in Directions, NEW i \in 0 .. Across(d) - 1
  PROVE  \E at : LineLoops(at, b, d, i)
<1> DEFINE n == Along(d)
           start == NoneMet
           step == [p \in LineStates \X (1 .. n) |-> Met(p[1], b[Square(d, i, p[2])])]
           F(f) == [j \in 0 .. Along(d) |->
                      IF j = 0 THEN [out |-> <<>>, merged |-> FALSE, got |-> 0] ELSE Met(f[j - 1], b[Square(d, i, j)])]
<1>0. n \in Nat
  BY LineSizes
<1>1. start \in LineStates
  <2>1. <<>> \in Seq(Nat \ {0})
    OBVIOUS
  <2>. QED BY <2>1 DEF LineStates, NoneMet
<1>2. \A j \in 1 .. n : b[Square(d, i, j)] \in Nat
  BY SquarePlace DEF Boards
<1>3. Steps(step, LineStates, n)
  BY <1>2, MetTyped DEF Steps
<1>4. \A s \in LineStates, j \in 1 .. n : step[<<s, j>>] = Met(s, b[Square(d, i, j)])
  OBVIOUS
<1>5. PICK f : f \in [0 .. n -> LineStates] /\ f[0] = start /\ \A j \in 1 .. n : f[j] = step[<<f[j - 1], j>>]
  <2>. HIDE DEF n, start, step
  <2>1. \E f : Goes(f, LineStates, start, step, n)
    BY ONLY <1>0, <1>1, <1>3, Recursion
  <2>. QED BY <2>1 DEF Goes
<1>. HIDE DEF step
<1>6. \A j \in 1 .. n : f[j] = Met(f[j - 1], b[Square(d, i, j)])
  <2> TAKE j \in 1 .. n
  <2>1. j - 1 \in 0 .. n
    BY <1>0
  <2>2. f[j - 1] \in LineStates
    BY <2>1, <1>5
  <2>. QED BY <1>4, <1>5, <2>2
<1>7. f = F(f)
  <2>1. ASSUME NEW j \in 0 .. n PROVE f[j] = F(f)[j]
    <3>1. CASE j = 0
      BY <1>5, <3>1 DEF NoneMet
    <3>2. CASE j # 0
      <4>1. j \in 1 .. n
        BY <3>2, <1>0
      <4>2. F(f)[j] = Met(f[j - 1], b[Square(d, i, j)])
        BY <3>2
      <4>. QED BY <1>6, <4>1, <4>2
    <3>. QED BY <3>1, <3>2
  <2>. QED BY <2>1, <1>5
<1> DEFINE g == CHOOSE g : g = F(g)
<1>8. LineOf(b, d, i) = g[n]
  BY DEF LineOf
<1>9. g = F(g)
  BY <1>7
<1>10. g[0] = start /\ \A j \in 1 .. n : g[j] = Met(g[j - 1], b[Square(d, i, j)])
  <2>1. ASSUME NEW h PROVE F(h)[0] = start /\ \A j \in 1 .. n : F(h)[j] = Met(h[j - 1], b[Square(d, i, j)])
    BY <1>0 DEF NoneMet
  <2>. HIDE DEF g, F
  <2>. QED BY <1>9, <2>1
<1> DEFINE P == {j \in 0 .. n : g[j] \in LineStates}
<1>11. \A j \in 0 .. n : j \in P
  <2>. HIDE DEF g, start
  <2>1. \A j \in 0 .. n - 1 : j \in P => j + 1 \in P
    <3> SUFFICES ASSUME NEW j \in 0 .. n - 1, g[j] \in LineStates PROVE g[j + 1] \in LineStates
      BY <1>0
    <3>1. j + 1 \in 1 .. n /\ (j + 1) - 1 = j
      BY <1>0
    <3>2. g[j + 1] = Met(g[j], b[Square(d, i, j + 1)])
      BY <1>10, <3>1
    <3>. QED BY <1>2, <3>1, <3>2, MetTyped
  <2>2. 0 \in P
    BY <1>0, <1>1, <1>10
  <2>. HIDE DEF P, n
  <2>. QED BY <1>0, <2>1, <2>2, UpTo0
<1>12. g \in [0 .. n -> LineStates]
  <2>1. g = [j \in 0 .. n |-> g[j]]
    <3>1. F(g) = [j \in 0 .. n |-> F(g)[j]]
      OBVIOUS
    <3>. HIDE DEF F, g
    <3>. QED BY <1>9, <3>1
  <2>. HIDE DEF g, n
  <2>. QED BY <1>11, <2>1 DEF P
<1>. HIDE DEF g, n
<1>13. LineLoops(g, b, d, i)
  BY <1>8, <1>10, <1>12 DEF LineLoops, n, start
<1>. QED BY <1>13

-----------------------------------------------------------------------------
(* 2048: what the tiles of a sequence are worth, up to each of them.       *)
Weighs(t, v) ==
  /\ t \in [0 .. Len(v) -> Nat] /\ t[0] = 0
  /\ \A k \in 1 .. Len(v) : t[k] = t[k - 1] + Worth(v[k])
Weight(v, w) == \E t : Weighs(t, v) /\ t[Len(v)] = w

LEMMA WeightNone == Weight(<<>>, 0)
<1>1. Weighs([k \in 0 .. Len(<<>>) |-> 0], <<>>)
  BY DEF Weighs
<1>. QED BY <1>1 DEF Weight

LEMMA WeightMore ==
  ASSUME NEW v \in Seq(Nat \ {0}), NEW w, Weight(v, w), NEW e \in Nat \ {0}
  PROVE  Weight(Append(v, e), w + Worth(e)) /\ w \in Nat
<1>1. PICK t : Weighs(t, v) /\ t[Len(v)] = w
  BY DEF Weight
<1> DEFINE n == Len(v)
           u == Append(v, e)
           r == [k \in 0 .. n + 1 |-> IF k = n + 1 THEN w + Worth(e) ELSE t[k]]
<1>2. n \in Nat /\ Worth(e) \in Nat
  <2>1. n \in Nat
    OBVIOUS
  <2>2. Worth(e) \in Nat
    <3>1. e \in Nat
      OBVIOUS
    <3>. QED BY <3>1, WorthIs, Zenon
  <2>. QED BY <2>1, <2>2
<1>3. t \in [0 .. n -> Nat] /\ t[0] = 0 /\ t[n] = w /\ \A k \in 1 .. n : t[k] = t[k - 1] + Worth(v[k])
  BY <1>1 DEF Weighs
<1>4. w \in Nat
  BY <1>2, <1>3
<1>5. Len(u) = n + 1 /\ u[n + 1] = e /\ \A k \in 1 .. n : u[k] = v[k]
  BY AppendProperties
<1>. HIDE DEF n, u
<1>6. r \in [0 .. n + 1 -> Nat]
  <2>1. w + Worth(e) \in Nat
    BY <1>2, <1>4
  <2>. QED BY <1>2, <1>3, <2>1
<1>7. ASSUME NEW k \in 1 .. n + 1 PROVE r[k] = r[k - 1] + Worth(u[k])
  <2>1. k - 1 \in 0 .. n /\ k - 1 \in 0 .. n + 1 /\ k - 1 # n + 1
    BY <1>2
  <2>2. r[k - 1] = t[k - 1]
    BY <2>1
  <2>3. CASE k = n + 1
    <3>1. r[k] = w + Worth(e) /\ k - 1 = n /\ u[k] = e
      BY <1>2, <1>5, <2>3
    <3>. HIDE DEF r
    <3>2. r[k - 1] = w
      BY <1>3, <2>2, <3>1
    <3>. QED BY <3>1, <3>2
  <2>4. CASE k # n + 1
    <3>1. k \in 1 .. n
      BY <1>2, <2>4
    <3>2. r[k] = t[k] /\ u[k] = v[k]
      BY <1>5, <2>4, <3>1
    <3>. HIDE DEF r
    <3>3. t[k] = t[k - 1] + Worth(v[k])
      BY <1>3, <3>1
    <3>. QED BY <2>2, <3>2, <3>3
  <2>. QED BY <2>3, <2>4
<1>8. r[0] = 0 /\ r[n + 1] = w + Worth(e)
  BY <1>2, <1>3
<1>. HIDE DEF r
<1>9. Weighs(r, u) /\ r[Len(u)] = w + Worth(e)
  BY <1>5, <1>6, <1>7, <1>8 DEF Weighs
<1>10. Weight(u, w + Worth(e))
  BY <1>9 DEF Weight
<1>. QED BY <1>4, <1>10 DEF u

LEMMA WeightLess ==
  ASSUME NEW v \in Seq(Nat \ {0}), v # <<>>, NEW w, Weight(v, w)
  PROVE  \E x \in Nat : Weight(Front(v), x) /\ w = x + Worth(Last(v))
<1>1. PICK t : Weighs(t, v) /\ t[Len(v)] = w
  BY DEF Weight
<1> DEFINE n == Len(v)
           u == Front(v)
           r == [k \in 0 .. n - 1 |-> t[k]]
<1>2. n \in Nat \ {0} /\ Len(u) = n - 1 /\ Last(v) = v[n] /\ \A k \in 1 .. n - 1 : u[k] = v[k]
  BY LastOf
<1>3. t \in [0 .. n -> Nat] /\ t[0] = 0 /\ t[n] = w /\ \A k \in 1 .. n : t[k] = t[k - 1] + Worth(v[k])
  BY <1>1 DEF Weighs
<1>. HIDE DEF n, u
<1>4. r \in [0 .. n - 1 -> Nat] /\ r[0] = 0 /\ r[n - 1] = t[n - 1] /\ t[n - 1] \in Nat
  BY <1>2, <1>3
<1>5. ASSUME NEW k \in 1 .. n - 1 PROVE r[k] = r[k - 1] + Worth(u[k])
  <2>1. k \in 1 .. n /\ k - 1 \in 0 .. n - 1 /\ k \in 0 .. n - 1
    BY <1>2
  <2>2. r[k] = t[k] /\ r[k - 1] = t[k - 1] /\ u[k] = v[k]
    BY <1>2, <2>1
  <2>3. t[k] = t[k - 1] + Worth(v[k])
    BY <1>3, <2>1
  <2>. HIDE DEF r
  <2>. QED BY <2>2, <2>3
<1>. HIDE DEF r
<1>6. Weighs(r, u)
  BY <1>2, <1>4, <1>5 DEF Weighs
<1>7. Weight(u, t[n - 1])
  BY <1>2, <1>4, <1>6 DEF Weight
<1>8. w = t[n - 1] + Worth(Last(v))
  BY <1>2, <1>3
<1>. QED BY <1>4, <1>7, <1>8 DEF u

-----------------------------------------------------------------------------
(* 2048: what slide_line() keeps, j squares into line i: w is what those   *)
(* squares' tiles are worth, n how many there are.                         *)
Carries(s, w, n) ==
  /\ Weight(s.out, s.got + w)
  /\ n <= 2 * Len(s.out) /\ (s.out # <<>> /\ ~s.merged => n <= 2 * Len(s.out) - 1)

LEMMA MetCarries ==
  ASSUME NEW s \in LineStates, NEW e \in Nat, NEW w \in Nat, NEW n \in Nat, Carries(s, w, n)
  PROVE  Carries(Met(s, e), w + Worth(e), n + (IF e = 0 THEN 0 ELSE 1))
<1> DEFINE t == Met(s, e)
<1>1. s.out \in Seq(Nat \ {0}) /\ s.got \in Nat /\ s.merged \in BOOLEAN /\ Len(s.out) \in Nat
  BY DEF LineStates
<1>2. Worth(e) \in Nat /\ Worth(0) = 0
  BY WorthIs
<1>3. Skips(s, e, t) \/ Merges(s, e, t) \/ Adds(s, e, t)
  BY MetCases
<1>. HIDE DEF t
<1>4. CASE Skips(s, e, t)
  <2>1. t = s /\ w + Worth(e) = w /\ n + (IF e = 0 THEN 0 ELSE 1) = n
    BY <1>2, <1>4 DEF Skips
  <2>2. Carries(t, w + Worth(e), n + (IF e = 0 THEN 0 ELSE 1))
    BY <2>1, Zenon
  <2>. QED BY <2>2 DEF t
<1>5. CASE Merges(s, e, t)
  <2>1. e \in Nat \ {0} /\ s.out # <<>> /\ ~s.merged /\ Last(s.out) = e
        /\ t.out = Append(Front(s.out), e + 1) /\ t.got = s.got + Face[e + 1] /\ t.merged = TRUE
    BY <1>5 DEF Merges
  <2>2. Front(s.out) \in Seq(Nat \ {0}) /\ Len(Front(s.out)) = Len(s.out) - 1 /\ Len(s.out) \in Nat \ {0}
    BY <1>1, <2>1, LastOf
  <2>3. PICK x \in Nat : Weight(Front(s.out), x) /\ s.got + w = x + Worth(e)
    <3>1. Weight(s.out, s.got + w)
      BY DEF Carries
    <3>. QED BY <1>1, <2>1, <3>1, WeightLess
  <2>4. e + 1 \in Nat \ {0}
    OBVIOUS
  <2>5. Weight(Append(Front(s.out), e + 1), x + Worth(e + 1))
    BY <2>2, <2>3, <2>4, WeightMore
  <2>6. Worth(e + 1) = 2 * Worth(e) + Face[e + 1] /\ Face[e + 1] \in Nat
    BY <2>1, WorthIs, FaceIs
  <2>7. x + Worth(e + 1) = t.got + (w + Worth(e))
    <3>1. t.got = s.got + Face[e + 1] /\ s.got + w = x + Worth(e)
      BY <2>1, <2>3
    <3>2. s.got \in Nat /\ Worth(e) \in Nat /\ Face[e + 1] \in Nat
      BY <1>1, <1>2, <2>6
    <3>3. \A g, f, y, z, v \in Nat : g + v = x + y => x + (2 * y + f) = (g + f) + (v + y)
      OBVIOUS
    <3>4. x + (2 * Worth(e) + Face[e + 1]) = (s.got + Face[e + 1]) + (w + Worth(e))
      BY <3>1, <3>2, <3>3
    <3>. QED BY <2>6, <3>1, <3>4, Zenon
  <2>8. Weight(t.out, t.got + (w + Worth(e)))
    BY <2>1, <2>5, <2>7, Zenon
  <2>9. Len(t.out) = Len(s.out)
    <3>1. Len(Append(Front(s.out), e + 1)) = Len(Front(s.out)) + 1
      BY <2>2, <2>4, AppendProperties
    <3>. QED BY <2>1, <2>2, <3>1
  <2>10. n + (IF e = 0 THEN 0 ELSE 1) = n + 1 /\ n <= 2 * Len(s.out) - 1
    BY <2>1 DEF Carries
  <2>11. n + 1 <= 2 * Len(t.out)
    BY <2>2, <2>9, <2>10
  <2>12. Carries(t, w + Worth(e), n + (IF e = 0 THEN 0 ELSE 1))
    BY <2>1, <2>8, <2>10, <2>11 DEF Carries
  <2>. QED BY <2>12 DEF t
<1>6. CASE Adds(s, e, t)
  <2>1. e \in Nat \ {0} /\ t.out = Append(s.out, e) /\ t.got = s.got /\ t.merged = FALSE
    BY <1>6 DEF Adds
  <2>2. Weight(Append(s.out, e), (s.got + w) + Worth(e))
    <3>1. Weight(s.out, s.got + w)
      BY DEF Carries
    <3>. QED BY <1>1, <2>1, <3>1, WeightMore
  <2>3. (s.got + w) + Worth(e) = t.got + (w + Worth(e))
    BY <1>1, <1>2, <2>1
  <2>4. Weight(t.out, t.got + (w + Worth(e)))
    BY <2>1, <2>2, <2>3, Zenon
  <2>5. Len(t.out) = Len(s.out) + 1
    BY <1>1, <2>1, AppendProperties
  <2>6. n + (IF e = 0 THEN 0 ELSE 1) = n + 1 /\ n <= 2 * Len(s.out)
    BY <2>1 DEF Carries
  <2>7. n + 1 <= 2 * Len(t.out) - 1 /\ n + 1 <= 2 * Len(t.out)
    BY <1>1, <2>5, <2>6
  <2>8. Carries(t, w + Worth(e), n + (IF e = 0 THEN 0 ELSE 1))
    BY <2>4, <2>6, <2>7 DEF Carries
  <2>. QED BY <2>8 DEF t
<1>. QED BY <1>3, <1>4, <1>5, <1>6

(* out is no longer than the squares there were.                           *)
LEMMA LineLength ==
  ASSUME NEW b \in Boards, NEW d \in Directions, NEW i \in 0 .. Across(d) - 1, NEW at, LineLoops(at, b, d, i)
  PROVE  \A j \in 0 .. Along(d) : at[j].out \in Seq(Nat \ {0}) /\ Len(at[j].out) \in Nat /\ Len(at[j].out) <= j
<1> DEFINE n == Along(d)
           P == {j \in 0 .. n : Len(at[j].out) <= j}
<1>0. n \in Nat
  BY LineSizes
<1>1. \A j \in 0 .. n : at[j] \in LineStates /\ at[j].out \in Seq(Nat \ {0}) /\ Len(at[j].out) \in Nat
  <2> TAKE j \in 0 .. n
  <2>1. at[j] \in LineStates
    BY DEF LineLoops
  <2>2. at[j].out \in Seq(Nat \ {0})
    BY <2>1 DEF LineStates
  <2>. QED BY <2>1, <2>2
<1>2. 0 \in P
  <2>1. at[0].out = <<>>
    BY DEF LineLoops, NoneMet
  <2>2. Len(at[0].out) = 0
    BY <2>1
  <2>. QED BY <1>0, <2>2
<1>3. ASSUME NEW j \in 0 .. n - 1, j \in P PROVE j + 1 \in P
  <2> DEFINE s == at[j]
             t == at[j + 1]
             e == b[Square(d, i, j + 1)]
  <2>1. j + 1 \in 1 .. n /\ (j + 1) - 1 = j /\ j + 1 \in 0 .. n /\ j \in 0 .. n
    BY <1>0
  <2>2. t = Met(s, e) /\ e \in Nat
    <3>1. Square(d, i, j + 1) \in Squares
      BY <2>1, SquarePlace
    <3>2. t = Met(at[(j + 1) - 1], e)
      BY <2>1 DEF LineLoops
    <3>. QED BY <2>1, <3>1, <3>2 DEF Boards
  <2>3. s \in LineStates /\ s.out \in Seq(Nat \ {0}) /\ Len(s.out) \in Nat
    BY <1>1, <2>1
  <2>4. Len(s.out) <= j
    BY <1>3
  <2>. HIDE DEF s, t, e
  <2>5. Skips(s, e, t) \/ Merges(s, e, t) \/ Adds(s, e, t)
    BY <2>2, <2>3, MetCases
  <2>6. Len(t.out) <= j + 1
    <3>1. CASE Skips(s, e, t)
      <4>1. Len(t.out) = Len(s.out)
        BY <3>1 DEF Skips
      <4>. QED BY <2>1, <2>3, <2>4, <4>1
    <3>2. CASE Merges(s, e, t)
      <4>1. t.out = Append(Front(s.out), e + 1) /\ s.out # <<>> /\ e + 1 \in Nat \ {0}
        BY <3>2, <2>2 DEF Merges
      <4>2. Front(s.out) \in Seq(Nat \ {0}) /\ Len(Front(s.out)) = Len(s.out) - 1
        BY <2>3, <4>1, LastOf
      <4>3. Len(t.out) = Len(Front(s.out)) + 1
        BY <4>1, <4>2, AppendProperties
      <4>. QED BY <2>1, <2>3, <2>4, <4>2, <4>3
    <3>3. CASE Adds(s, e, t)
      <4>1. t.out = Append(s.out, e) /\ e \in Nat \ {0}
        BY <3>3, <2>2 DEF Adds
      <4>2. Len(t.out) = Len(s.out) + 1
        BY <2>3, <4>1, AppendProperties
      <4>. QED BY <2>1, <2>3, <2>4, <4>2
    <3>. QED BY <2>5, <3>1, <3>2, <3>3
  <2>. QED BY <2>1, <2>6 DEF t
<1>4. \A j \in 0 .. n : j \in P
  <2>. HIDE DEF P, n
  <2>. QED BY <1>0, <1>2, <1>3, UpTo0
<1>. QED BY <1>1, <1>4

-----------------------------------------------------------------------------
(* 2048: the sums over a board, and over its lines.                        *)
Worths(b) == [s \in Squares |-> Worth(b[s])]
Ones(b) == [s \in Squares |-> IF b[s] = 0 THEN 0 ELSE 1]

LEMMA BoardSums ==
  ASSUME NEW b \in Boards
  PROVE  /\ \A s \in Squares : /\ Worths(b)[s] = Worth(b[s]) /\ Worths(b)[s] \in Nat
                               /\ Ones(b)[s] = (IF b[s] = 0 THEN 0 ELSE 1) /\ Ones(b)[s] \in Nat
<1>1. \A s \in Squares : b[s] \in Nat
  BY DEF Boards
<1>2. \A s \in Squares : Worth(b[s]) \in Nat
  BY <1>1, WorthIs
<1>. QED BY <1>2 DEF Worths, Ones

LEMMA LineCarries ==
  ASSUME NEW b \in Boards, NEW d \in Directions, NEW i \in 0 .. Across(d) - 1, NEW at, LineLoops(at, b, d, i),
         NEW a, Sums(a, Worths(b), Squares), NEW q, Sums(q, Ones(b), Squares)
  PROVE  \A j \in 0 .. Along(d) : Carries(at[j], a[Seg(d, i, j)], q[Seg(d, i, j)])
<1> DEFINE n == Along(d)
           P == {j \in 0 .. n : Carries(at[j], a[Seg(d, i, j)], q[Seg(d, i, j)])}
<1>0. n \in Nat /\ 1 \in 1 .. n
  BY LineSizes
<1>1. 0 \in P
  <2>1. Seg(d, i, 0) = {}
    BY <1>0, SegGrows
  <2>2. a[Seg(d, i, 0)] = 0 /\ q[Seg(d, i, 0)] = 0
    BY <2>1 DEF Sums
  <2>3. at[0] = NoneMet
    BY DEF LineLoops
  <2>4. Carries(NoneMet, 0, 0)
    <3>1. NoneMet.out = <<>> /\ NoneMet.got + 0 = 0 /\ 0 <= 2 * Len(<<>>)
      BY DEF NoneMet
    <3>. QED BY <3>1, WeightNone DEF Carries
  <2>5. Carries(at[0], a[Seg(d, i, 0)], q[Seg(d, i, 0)])
    BY <2>2, <2>3, <2>4, Zenon
  <2>. QED BY <1>0, <2>5
<1>2. ASSUME NEW j \in 0 .. n - 1, j \in P PROVE j + 1 \in P
  <2> DEFINE s == at[j]
             x == Square(d, i, j + 1)
             e == b[x]
             S == Seg(d, i, j)
             T == Seg(d, i, j + 1)
  <2>1. j + 1 \in 1 .. n /\ (j + 1) - 1 = j /\ j + 1 \in 0 .. n /\ j \in 0 .. n
    BY <1>0
  <2>2. x \in Squares /\ e \in Nat
    BY <2>1, SquarePlace DEF Boards
  <2>3. at[j + 1] = Met(s, e)
    <3>1. at[j + 1] = Met(at[(j + 1) - 1], e)
      BY <2>1 DEF LineLoops
    <3>. QED BY <2>1, <3>1
  <2>4. s \in LineStates
    BY <2>1 DEF LineLoops
  <2>5. T = S \cup {x} /\ x \in Squares \ S /\ S \in SUBSET Squares
    <3>1. /\ Seg(d, i, j + 1) = Seg(d, i, (j + 1) - 1) \cup {Square(d, i, j + 1)}
          /\ Square(d, i, j + 1) \in Squares \ Seg(d, i, (j + 1) - 1) /\ Seg(d, i, (j + 1) - 1) \in SUBSET Squares
      BY <2>1, SegGrows
    <3>. QED BY <2>1, <3>1
  <2>6. Carries(s, a[S], q[S])
    BY <1>2
  <2>. HIDE DEF s, x, e, S, T
  <2>7. a[S] \in Nat /\ q[S] \in Nat /\ a[S \cup {x}] = a[S] + Worths(b)[x] /\ q[S \cup {x}] = q[S] + Ones(b)[x]
    BY <2>5 DEF Sums
  <2>8. Worths(b)[x] = Worth(e) /\ Ones(b)[x] = (IF e = 0 THEN 0 ELSE 1)
    BY <2>2, BoardSums DEF e
  <2>9. a[T] = a[S] + Worth(e) /\ q[T] = q[S] + (IF e = 0 THEN 0 ELSE 1)
    BY <2>5, <2>7, <2>8, Zenon
  <2>10. Carries(Met(s, e), a[S] + Worth(e), q[S] + (IF e = 0 THEN 0 ELSE 1))
    BY <2>2, <2>4, <2>6, <2>7, MetCarries
  <2>11. Carries(at[j + 1], a[T], q[T])
    BY <2>3, <2>9, <2>10, Zenon
  <2>. QED BY <2>1, <2>11 DEF T
<1>3. \A j \in 0 .. n : j \in P
  <2>. HIDE DEF P, n
  <2>. QED BY <1>0, <1>1, <1>2, UpTo0
<1>. QED BY <1>3

(* The board that a line's tiles come to.                                  *)
LEMMA SlidBoard ==
  ASSUME NEW b \in Boards, NEW d \in Directions
  PROVE  /\ Slid(b, d) \in Boards
         /\ \A i \in 0 .. Across(d) - 1 :
              /\ LineOf(b, d, i) \in LineStates /\ LineOf(b, d, i).out \in Seq(Nat \ {0})
              /\ Len(LineOf(b, d, i).out) \in 0 .. Along(d) /\ LineOf(b, d, i).got \in Nat
              /\ \A k \in 1 .. Along(d) :
                   Slid(b, d)[Square(d, i, k)] =
                     IF k <= Len(LineOf(b, d, i).out) THEN LineOf(b, d, i).out[k] ELSE 0
<1>1. ASSUME NEW i \in 0 .. Across(d) - 1
      PROVE  /\ LineOf(b, d, i) \in LineStates /\ LineOf(b, d, i).out \in Seq(Nat \ {0})
             /\ Len(LineOf(b, d, i).out) \in 0 .. Along(d) /\ LineOf(b, d, i).got \in Nat
  <2>1. PICK at : LineLoops(at, b, d, i)
    BY LineLoop
  <2>2. Along(d) \in Nat /\ Along(d) \in 0 .. Along(d)
    BY LineSizes
  <2>3. LineOf(b, d, i) = at[Along(d)]
    BY <2>1 DEF LineLoops
  <2>4. at[Along(d)] \in LineStates
    BY <2>1, <2>2 DEF LineLoops
  <2>5. Len(at[Along(d)].out) \in Nat /\ Len(at[Along(d)].out) <= Along(d)
    BY <2>1, <2>2, LineLength
  <2>. HIDE DEF LineOf
  <2>6. LineOf(b, d, i) \in LineStates /\ Len(LineOf(b, d, i).out) \in 0 .. Along(d)
    BY <2>2, <2>3, <2>4, <2>5
  <2>. QED BY <2>6 DEF LineStates
<1> DEFINE out(i) == LineOf(b, d, i).out
           tile(i, k) == IF k <= Len(out(i)) THEN out(i)[k] ELSE 0
<1>2. ASSUME NEW i \in 0 .. Across(d) - 1, NEW k \in 1 .. Along(d) PROVE tile(i, k) \in Nat
  <2>1. out(i) \in Seq(Nat \ {0}) /\ Len(out(i)) \in Nat
    BY <1>1
  <2>. HIDE DEF out
  <2>2. k <= Len(out(i)) => k \in 1 .. Len(out(i))
    BY <2>1, LineSizes
  <2>3. k \in 1 .. Len(out(i)) => out(i)[k] \in Nat
    BY <2>1
  <2>. QED BY <2>2, <2>3
<1>3. \A s \in Squares : Slid(b, d)[s] = tile(Place(d, s)[1], Place(d, s)[2])
  BY DEF Slid
<1>. HIDE DEF tile
<1>4. Slid(b, d) \in Boards
  <2>1. \A s \in Squares : Slid(b, d)[s] \in Nat
    BY <1>2, <1>3, SquarePlace
  <2>2. Slid(b, d) = [s \in Squares |-> Slid(b, d)[s]]
    BY DEF Slid
  <2>. QED BY <2>1, <2>2 DEF Boards
<1>5. ASSUME NEW i \in 0 .. Across(d) - 1, NEW k \in 1 .. Along(d)
      PROVE  Slid(b, d)[Square(d, i, k)] = tile(i, k)
  <2>1. Square(d, i, k) \in Squares /\ Place(d, Square(d, i, k))[1] = i /\ Place(d, Square(d, i, k))[2] = k
    BY SquarePlace
  <2>2. Slid(b, d)[Square(d, i, k)] = tile(Place(d, Square(d, i, k))[1], Place(d, Square(d, i, k))[2])
    BY <1>3, <2>1
  <2>. QED BY <2>1, <2>2, Zenon
<1>. HIDE DEF LineOf
<1>. QED BY <1>1, <1>4, <1>5 DEF tile, out

LEMMA SlidSums ==
  ASSUME NEW b \in Boards, NEW d \in Directions, NEW i \in 0 .. Across(d) - 1,
         NEW w, Weight(LineOf(b, d, i).out, w),
         NEW a, Sums(a, Worths(Slid(b, d)), Squares), NEW q, Sums(q, Ones(Slid(b, d)), Squares)
  PROVE  a[Seg(d, i, Along(d))] = w /\ q[Seg(d, i, Along(d))] = Len(LineOf(b, d, i).out)
<1> DEFINE n == Along(d)
           v == LineOf(b, d, i).out
           c == Slid(b, d)
           m(k) == IF k <= Len(v) THEN k ELSE Len(v)
<1>1. n \in Nat /\ 1 \in 1 .. n
  BY LineSizes
<1>2. c \in Boards /\ v \in Seq(Nat \ {0}) /\ Len(v) \in 0 .. n
      /\ \A k \in 1 .. n : c[Square(d, i, k)] = IF k <= Len(v) THEN v[k] ELSE 0
  BY SlidBoard
<1>. HIDE DEF v, c
<1>3. PICK t : Weighs(t, v) /\ t[Len(v)] = w
  BY DEF Weight, v
<1>4. t \in [0 .. Len(v) -> Nat] /\ t[0] = 0 /\ \A k \in 1 .. Len(v) : t[k] = t[k - 1] + Worth(v[k])
  BY <1>3 DEF Weighs
<1> DEFINE P == {k \in 0 .. n : a[Seg(d, i, k)] = t[m(k)] /\ q[Seg(d, i, k)] = m(k)}
<1>5. 0 \in P
  <2>1. Seg(d, i, 0) = {}
    BY <1>1, SegGrows
  <2>2. a[Seg(d, i, 0)] = 0 /\ q[Seg(d, i, 0)] = 0
    BY <2>1 DEF Sums
  <2>3. m(0) = 0
    BY <1>2
  <2>. QED BY <1>1, <1>4, <2>2, <2>3
<1>6. ASSUME NEW j \in 0 .. n - 1, j \in P PROVE j + 1 \in P
  <2> DEFINE x == Square(d, i, j + 1)
             S == Seg(d, i, j)
             T == Seg(d, i, j + 1)
  <2>1. j + 1 \in 1 .. n /\ (j + 1) - 1 = j /\ j + 1 \in 0 .. n /\ j \in 0 .. n
    BY <1>1
  <2>2. x \in Squares
    BY <2>1, SquarePlace
  <2>3. T = S \cup {x} /\ x \in Squares \ S /\ S \in SUBSET Squares
    <3>1. /\ Seg(d, i, j + 1) = Seg(d, i, (j + 1) - 1) \cup {Square(d, i, j + 1)}
          /\ Square(d, i, j + 1) \in Squares \ Seg(d, i, (j + 1) - 1) /\ Seg(d, i, (j + 1) - 1) \in SUBSET Squares
      BY <2>1, SegGrows
    <3>. QED BY <2>1, <3>1
  <2>4. a[S] = t[m(j)] /\ q[S] = m(j)
    BY <1>6
  <2>5. c[x] = IF j + 1 <= Len(v) THEN v[j + 1] ELSE 0
    BY <1>2, <2>1
  <2>. HIDE DEF x, S, T
  <2>6. a[S] \in Nat /\ q[S] \in Nat /\ a[S \cup {x}] = a[S] + Worths(c)[x] /\ q[S \cup {x}] = q[S] + Ones(c)[x]
    BY <2>3 DEF Sums, c
  <2>7. Worths(c)[x] = Worth(c[x]) /\ Ones(c)[x] = (IF c[x] = 0 THEN 0 ELSE 1)
    BY <1>2, <2>2, BoardSums
  <2>8. a[T] = a[S] + Worth(c[x]) /\ q[T] = q[S] + (IF c[x] = 0 THEN 0 ELSE 1)
    BY <2>3, <2>6, <2>7, Zenon
  <2>9. CASE j + 1 <= Len(v)
    <3>1. j + 1 \in 1 .. Len(v) /\ m(j) = j /\ m(j + 1) = j + 1 /\ c[x] = v[j + 1]
      BY <1>2, <2>1, <2>5, <2>9
    <3>2. v[j + 1] \in Nat \ {0}
      BY <1>2, <3>1
    <3>3. t[j + 1] = t[j] + Worth(v[j + 1])
      <4>1. t[j + 1] = t[(j + 1) - 1] + Worth(v[j + 1])
        BY <1>4, <3>1
      <4>. QED BY <2>1, <4>1
    <3>4. a[T] = t[m(j + 1)]
      BY <2>4, <2>8, <3>1, <3>3, Zenon
    <3>5. q[T] = m(j + 1)
      <4>1. q[T] = q[S] + 1
        BY <2>8, <3>1, <3>2
      <4>. QED BY <2>4, <3>1, <4>1
    <3>. HIDE DEF m
    <3>. QED BY <2>1, <3>4, <3>5 DEF T
  <2>10. CASE ~(j + 1 <= Len(v))
    <3>1. m(j) = Len(v) /\ m(j + 1) = Len(v) /\ c[x] = 0
      BY <1>2, <2>1, <2>5, <2>10
    <3>2. Worth(c[x]) = 0
      BY <3>1, WorthIs
    <3>3. a[T] = a[S] /\ q[T] = q[S]
      BY <2>6, <2>8, <3>1, <3>2
    <3>4. a[T] = t[m(j + 1)] /\ q[T] = m(j + 1)
      BY <2>4, <3>1, <3>3, Zenon
    <3>. HIDE DEF m
    <3>. QED BY <2>1, <3>4 DEF T
  <2>. QED BY <2>9, <2>10
<1>7. n \in P
  <2>. HIDE DEF P, n
  <2>. QED BY <1>1, <1>5, <1>6, UpTo0
<1>8. m(n) = Len(v)
  BY <1>1, <1>2
<1>. QED BY <1>3, <1>7, <1>8 DEF v

(* A line's tiles are worth as much more as merging them scored, and none  *)
(* of them is made of more than two.                                       *)
LEMMA LineSums ==
  ASSUME NEW b \in Boards, NEW d \in Directions, NEW i \in 0 .. Across(d) - 1,
         NEW a, Sums(a, Worths(b), Squares), NEW q, Sums(q, Ones(b), Squares),
         NEW x, Sums(x, Worths(Slid(b, d)), Squares), NEW y, Sums(y, Ones(Slid(b, d)), Squares)
  PROVE  /\ x[Seg(d, i, Along(d))] = a[Seg(d, i, Along(d))] + LineOf(b, d, i).got
         /\ q[Seg(d, i, Along(d))] <= 2 * y[Seg(d, i, Along(d))]
<1> DEFINE S == Seg(d, i, Along(d))
<1>1. PICK at : LineLoops(at, b, d, i)
  BY LineLoop
<1>2. Along(d) \in 0 .. Along(d)
  BY LineSizes
<1>3. Carries(at[Along(d)], a[S], q[S])
  BY <1>1, <1>2, LineCarries
<1>4. at[Along(d)] = LineOf(b, d, i)
  BY <1>1 DEF LineLoops
<1>. HIDE DEF LineOf
<1>5. Carries(LineOf(b, d, i), a[S], q[S])
  BY <1>3, <1>4, Zenon
<1>6. Weight(LineOf(b, d, i).out, LineOf(b, d, i).got + a[S]) /\ q[S] <= 2 * Len(LineOf(b, d, i).out)
  BY <1>5 DEF Carries
<1>7. x[S] = LineOf(b, d, i).got + a[S] /\ y[S] = Len(LineOf(b, d, i).out)
  <2> DEFINE w == LineOf(b, d, i).got + a[S]
  <2>1. Weight(LineOf(b, d, i).out, w)
    BY <1>6
  <2>. HIDE DEF w
  <2>2. x[Seg(d, i, Along(d))] = w /\ y[Seg(d, i, Along(d))] = Len(LineOf(b, d, i).out)
    BY <2>1, SlidSums
  <2>. QED BY <2>2 DEF w
<1>8. LineOf(b, d, i).got \in Nat
  BY SlidBoard
<1>9. a[S] \in Nat
  <2>1. S \in SUBSET Squares
    BY DEF Seg
  <2>. QED BY <2>1 DEF Sums
<1>. QED BY <1>6, <1>7, <1>8, <1>9

-----------------------------------------------------------------------------
(* 2048: what a slide gains, line by line.                                 *)
GainLoops(g, b, d) ==
  /\ g \in [0 .. Across(d) -> Nat] /\ g[0] = 0 /\ Gained(b, d) = g[Across(d)]
  /\ \A i \in 1 .. Across(d) : g[i] = g[i - 1] + LineOf(b, d, i - 1).got

LEMMA GainLoop ==
  ASSUME NEW b \in Boards, NEW d \in Directions
  PROVE  \E g : GainLoops(g, b, d)
<1> DEFINE n == Across(d)
           got(i) == LineOf(b, d, i - 1).got
           step == [p \in Nat \X (1 .. n) |-> p[1] + got(p[2])]
           F(f) == [i \in 0 .. Across(d) |-> IF i = 0 THEN 0 ELSE f[i - 1] + LineOf(b, d, i - 1).got]
<1>0. n \in Nat /\ 0 \in Nat
  BY LineSizes
<1>1. \A i \in 1 .. n : got(i) \in Nat
  <2> TAKE i \in 1 .. n
  <2>1. i - 1 \in 0 .. Across(d) - 1
    BY <1>0
  <2>. HIDE DEF LineOf
  <2>. QED BY <2>1, SlidBoard
<1>. HIDE DEF LineOf
<1>2. Steps(step, Nat, n)
  <2>. HIDE DEF got
  <2>. QED BY <1>1 DEF Steps
<1>3. \A s \in Nat, i \in 1 .. n : step[<<s, i>>] = s + got(i)
  OBVIOUS
<1>4. PICK f : f \in [0 .. n -> Nat] /\ f[0] = 0 /\ \A i \in 1 .. n : f[i] = step[<<f[i - 1], i>>]
  <2>. HIDE DEF n, step
  <2>1. \E f : Goes(f, Nat, 0, step, n)
    BY ONLY <1>0, <1>2, Recursion
  <2>. QED BY <2>1 DEF Goes
<1>. HIDE DEF step
<1>5. \A i \in 1 .. n : f[i] = f[i - 1] + got(i)
  <2> TAKE i \in 1 .. n
  <2>1. i - 1 \in 0 .. n
    BY <1>0
  <2>2. f[i - 1] \in Nat
    BY <2>1, <1>4
  <2>. HIDE DEF got
  <2>. QED BY <1>3, <1>4, <2>2
<1>6. f = F(f)
  <2>1. ASSUME NEW i \in 0 .. n PROVE f[i] = F(f)[i]
    <3>1. CASE i = 0
      BY <1>4, <3>1
    <3>2. CASE i # 0
      <4>1. i \in 1 .. n
        BY <3>2, <1>0
      <4>2. F(f)[i] = f[i - 1] + got(i)
        BY <3>2
      <4>3. f[i] = f[i - 1] + got(i)
        BY <1>5, <4>1
      <4>. HIDE DEF got, F
      <4>. QED BY <4>2, <4>3
    <3>. QED BY <3>1, <3>2
  <2>. QED BY <2>1, <1>4
<1> DEFINE g == CHOOSE g : g = F(g)
<1>7. Gained(b, d) = g[n]
  BY DEF Gained
<1>8. g = F(g)
  BY <1>6
<1>9. g[0] = 0 /\ \A i \in 1 .. n : g[i] = g[i - 1] + got(i)
  <2>1. ASSUME NEW h PROVE F(h)[0] = 0 /\ \A i \in 1 .. n : F(h)[i] = h[i - 1] + got(i)
    BY <1>0
  <2>. HIDE DEF g, F, got
  <2>. QED BY <1>8, <2>1
<1> DEFINE P == {i \in 0 .. n : g[i] \in Nat}
<1>10. \A i \in 0 .. n : i \in P
  <2>. HIDE DEF g, got
  <2>1. \A i \in 0 .. n - 1 : i \in P => i + 1 \in P
    <3> SUFFICES ASSUME NEW i \in 0 .. n - 1, g[i] \in Nat PROVE g[i + 1] \in Nat
      BY <1>0
    <3>1. i + 1 \in 1 .. n /\ (i + 1) - 1 = i
      BY <1>0
    <3>2. g[i + 1] = g[i] + got(i + 1)
      BY <1>9, <3>1
    <3>. QED BY <1>1, <3>1, <3>2
  <2>2. 0 \in P
    BY <1>0, <1>9
  <2>. HIDE DEF P, n
  <2>. QED BY <1>0, <2>1, <2>2, UpTo0
<1>11. g \in [0 .. n -> Nat]
  <2>1. g = [i \in 0 .. n |-> g[i]]
    <3>1. F(g) = [i \in 0 .. n |-> F(g)[i]]
      OBVIOUS
    <3>. HIDE DEF F, g
    <3>. QED BY <1>8, <3>1
  <2>. HIDE DEF g, n
  <2>. QED BY <1>10, <2>1 DEF P
<1>. HIDE DEF g
<1>12. GainLoops(g, b, d)
  BY <1>7, <1>9, <1>11 DEF GainLoops
<1>. QED BY <1>12

(* A slide: the tiles are worth as much more as it gains, and none of them *)
(* is made of more than two.                                               *)
LEMMA SlideSums ==
  ASSUME NEW b \in Boards, NEW d \in Directions,
         NEW a, Sums(a, Worths(b), Squares), NEW q, Sums(q, Ones(b), Squares),
         NEW x, Sums(x, Worths(Slid(b, d)), Squares), NEW y, Sums(y, Ones(Slid(b, d)), Squares)
  PROVE  x[Squares] = a[Squares] + Gained(b, d) /\ q[Squares] <= 2 * y[Squares] /\ Gained(b, d) \in Nat
<1> DEFINE n == Across(d)
           c == Slid(b, d)
<1>1. n \in Nat
  BY LineSizes
<1>2. PICK g : GainLoops(g, b, d)
  BY GainLoop
<1>3. g \in [0 .. n -> Nat] /\ g[0] = 0 /\ Gained(b, d) = g[n]
  BY <1>2 DEF GainLoops
<1> DEFINE P == {i \in 0 .. n : x[Band(d, i)] = a[Band(d, i)] + g[i] /\ q[Band(d, i)] <= 2 * y[Band(d, i)]}
<1>4. 0 \in P
  <2>1. 0 \in 0 .. Across(d) - 1
    BY LineSizes
  <2>2. Band(d, 0) = {}
    BY <2>1, BandGrows
  <2>3. x[Band(d, 0)] = 0 /\ a[Band(d, 0)] = 0 /\ q[Band(d, 0)] = 0 /\ y[Band(d, 0)] = 0
    BY <2>2 DEF Sums
  <2>. QED BY <1>1, <1>3, <2>3
<1>5. ASSUME NEW i \in 0 .. n - 1, i \in P PROVE i + 1 \in P
  <2> DEFINE S == Band(d, i)
             T == Seg(d, i, Along(d))
             U == Band(d, i + 1)
             got == LineOf(b, d, i).got
  <2>1. i + 1 \in 1 .. n /\ i + 1 \in 0 .. n /\ i \in 0 .. n /\ (i + 1) - 1 = i /\ i \in 0 .. Across(d) - 1
    BY <1>1
  <2>2. U = S \cup T /\ S \cap T = {} /\ S \in SUBSET Squares /\ T \in SUBSET Squares
    BY BandGrows
  <2>3. x[T] = a[T] + got /\ q[T] <= 2 * y[T]
    BY LineSums
  <2>4. got \in Nat
    <3>. HIDE DEF LineOf
    <3>. QED BY SlidBoard
  <2>5. x[S] = a[S] + g[i] /\ q[S] <= 2 * y[S]
    BY <1>5
  <2>6. g[i + 1] = g[i] + got /\ g[i] \in Nat
    <3>1. g[i + 1] = g[(i + 1) - 1] + LineOf(b, d, (i + 1) - 1).got
      BY <1>2, <2>1 DEF GainLoops
    <3>2. g[i + 1] = g[i] + got
      BY <2>1, <3>1, Zenon
    <3>. QED BY <1>3, <2>1, <3>2
  <2>. HIDE DEF S, T, U, got
  <2>7. c \in Boards
    BY SlidBoard
  <2>8. a[S \cup T] = a[S] + a[T] /\ a[S] \in Nat /\ a[T] \in Nat
    BY <2>2, BoardSums, SquaresFinite, SumUnion
  <2>9. q[S \cup T] = q[S] + q[T] /\ q[S] \in Nat /\ q[T] \in Nat
    BY <2>2, BoardSums, SquaresFinite, SumUnion
  <2>. HIDE DEF c
  <2>10. x[S \cup T] = x[S] + x[T] /\ x[S] \in Nat /\ x[T] \in Nat
    BY <2>2, <2>7, BoardSums, SquaresFinite, SumUnion DEF c
  <2>11. y[S \cup T] = y[S] + y[T] /\ y[S] \in Nat /\ y[T] \in Nat
    BY <2>2, <2>7, BoardSums, SquaresFinite, SumUnion DEF c
  <2>12. x[U] = x[S] + x[T] /\ y[U] = y[S] + y[T] /\ a[U] = a[S] + a[T] /\ q[U] = q[S] + q[T]
    BY <2>2, <2>8, <2>9, <2>10, <2>11, Zenon
  <2>13. x[U] = a[U] + g[i + 1] /\ q[U] <= 2 * y[U]
    BY <2>3, <2>4, <2>5, <2>6, <2>8, <2>9, <2>10, <2>11, <2>12
  <2>. QED BY <2>1, <2>13 DEF U
<1>6. n \in P
  <2>. HIDE DEF P, n
  <2>. QED BY <1>1, <1>4, <1>5, UpTo0
<1>7. Band(d, n) = Squares
  <2>1. 0 \in 0 .. Across(d) - 1
    BY LineSizes
  <2>. QED BY <2>1, BandGrows
<1>. QED BY <1>1, <1>3, <1>6, <1>7

(* The same of SumOf and Tiles.                                            *)
LEMMA BoardTotals ==
  ASSUME NEW b \in Boards
  PROVE  \E a, q : /\ Sums(a, Worths(b), Squares) /\ Sums(q, Ones(b), Squares)
                   /\ SumOf(Worths(b), Squares) = a[Squares] /\ Tiles(b) = q[Squares]
                   /\ a[Squares] \in Nat /\ q[Squares] \in Nat
<1>1. (\A s \in Squares : Worths(b)[s] \in Nat) /\ \A s \in Squares : Ones(b)[s] \in Nat
  BY BoardSums
<1> DEFINE f == Worths(b)
           g == Ones(b)
<1>2. Tiles(b) = SumOf(g, Squares)
  BY DEF Tiles, Ones
<1>. HIDE DEF f, g
<1>3. PICK a : Sums(a, f, Squares) /\ SumOf(f, Squares) = a[Squares]
  BY <1>1, SquaresFinite, SumOfIs DEF f
<1>4. PICK q : Sums(q, g, Squares) /\ SumOf(g, Squares) = q[Squares]
  BY <1>1, SquaresFinite, SumOfIs DEF g
<1>5. a[Squares] \in Nat /\ q[Squares] \in Nat
  BY <1>3, <1>4 DEF Sums
<1>. QED BY <1>2, <1>3, <1>4, <1>5 DEF f, g

LEMMA SlideTotals ==
  ASSUME NEW b \in Boards, NEW d \in Directions
  PROVE  /\ SumOf(Worths(Slid(b, d)), Squares) = SumOf(Worths(b), Squares) + Gained(b, d)
         /\ Tiles(b) <= 2 * Tiles(Slid(b, d)) /\ Gained(b, d) \in Nat
         /\ SumOf(Worths(b), Squares) \in Nat /\ Tiles(b) \in Nat
<1> DEFINE c == Slid(b, d)
<1>1. c \in Boards
  BY SlidBoard
<1>2. PICK a, q : /\ Sums(a, Worths(b), Squares) /\ Sums(q, Ones(b), Squares)
                  /\ SumOf(Worths(b), Squares) = a[Squares] /\ Tiles(b) = q[Squares]
                  /\ a[Squares] \in Nat /\ q[Squares] \in Nat
  BY BoardTotals
<1>. HIDE DEF c
<1>3. PICK x, y : /\ Sums(x, Worths(c), Squares) /\ Sums(y, Ones(c), Squares)
                  /\ SumOf(Worths(c), Squares) = x[Squares] /\ Tiles(c) = y[Squares]
  BY <1>1, BoardTotals
<1>4. x[Squares] = a[Squares] + Gained(b, d) /\ q[Squares] <= 2 * y[Squares] /\ Gained(b, d) \in Nat
  BY <1>2, <1>3, SlideSums DEF c
<1>. QED BY <1>2, <1>3, <1>4 DEF c

(* A new tile.                                                             *)
LEMMA TileTotals ==
  ASSUME NEW b \in Boards, NEW a \in WithTile(b)
  PROVE  /\ a \in Boards /\ \E s \in Squares : a[s] # 0
         /\ SumOf(Worths(a), Squares) = SumOf(Worths(b), Squares) + 4 * FoursIn(b, a)
         /\ FoursIn(b, a) \in Nat
<1>1. PICK s \in Squares, e \in {1, 2} : b[s] = 0 /\ a = [b EXCEPT ![s] = e]
  BY DEF WithTile
<1>2. a \in Boards /\ a[s] = e /\ \A r \in Squares \ {s} : a[r] = b[r]
  BY <1>1 DEF Boards
<1>3. PICK x, q : /\ Sums(x, Worths(b), Squares) /\ SumOf(Worths(b), Squares) = x[Squares] /\ x[Squares] \in Nat
  BY BoardTotals
<1>4. PICK y, r : /\ Sums(y, Worths(a), Squares) /\ SumOf(Worths(a), Squares) = y[Squares]
  BY <1>2, BoardTotals
<1>5. \A t \in Squares : Worths(b)[t] = Worth(b[t]) /\ Worths(a)[t] = Worth(a[t]) /\ Worths(b)[t] \in Nat /\ Worths(a)[t] \in Nat
  BY <1>2, BoardSums
<1> DEFINE f == Worths(b)
           g == Worths(a)
<1>6. \A t \in Squares \ {s} : f[t] = g[t]
  BY <1>2, <1>5
<1>. HIDE DEF f, g
<1>7. x[Squares] + g[s] = y[Squares] + f[s] /\ x[Squares] \in Nat /\ y[Squares] \in Nat
  BY <1>3, <1>4, <1>5, <1>6, SquaresFinite, SumChange DEF f, g
<1>8. f[s] = 0 /\ g[s] = Worth(e)
  <2>1. f[s] = Worth(b[s]) /\ g[s] = Worth(a[s])
    BY <1>5 DEF f, g
  <2>. QED BY <1>1, <1>2, <2>1, WorthIs
<1>9. FoursIn(b, a) = IF e = 2 THEN 1 ELSE 0
  <2> DEFINE S == {t \in Squares : a[t] # b[t] /\ a[t] = 2}
  <2>1. CASE e = 2
    <3>1. S = {s}
      BY <1>1, <1>2, <2>1
    <3>. HIDE DEF S
    <3>2. Cardinality(S) = 1
      BY <3>1, FS_Singleton
    <3>. QED BY <2>1, <3>2 DEF FoursIn, S
  <2>2. CASE e = 1
    <3>1. S = {}
      BY <1>1, <1>2, <2>2
    <3>. HIDE DEF S
    <3>2. Cardinality(S) = 0
      BY <3>1, FS_EmptySet
    <3>. QED BY <2>2, <3>2 DEF FoursIn, S
  <2>. QED BY <2>1, <2>2
<1>10. Worth(e) = 4 * FoursIn(b, a)
  BY <1>9, WorthIs
<1>11. y[Squares] = x[Squares] + 4 * FoursIn(b, a)
  BY <1>7, <1>8, <1>9, <1>10
<1>12. \E t \in Squares : a[t] # 0
  BY <1>1, <1>2
<1>. QED BY <1>2, <1>3, <1>4, <1>9, <1>11, <1>12

-----------------------------------------------------------------------------
(* 2048: a line that a slide leaves as it is has its tiles first, and no   *)
(* two that are equal meet.                                                *)
LEMMA StillLine ==
  ASSUME NEW b \in Boards, NEW d \in Directions, NEW i \in 0 .. Across(d) - 1, Slid(b, d) = b
  PROVE  \E m \in 0 .. Along(d) :
           /\ \A j \in 1 .. Along(d) : b[Square(d, i, j)] # 0 <=> j <= m
           /\ \A j \in 1 .. m - 1 : b[Square(d, i, j)] # b[Square(d, i, j + 1)]
<1> DEFINE n == Along(d)
           v == LineOf(b, d, i).out
           m == Len(v)
           e(j) == b[Square(d, i, j)]
<1>1. n \in Nat
  BY LineSizes
<1>2. v \in Seq(Nat \ {0}) /\ m \in 0 .. n /\ \A k \in 1 .. n : e(k) = IF k <= m THEN v[k] ELSE 0
  <2>. HIDE DEF LineOf
  <2>. QED BY SlidBoard
<1>3. PICK at : LineLoops(at, b, d, i)
  BY LineLoop
<1>4. at[n].out = v
  BY <1>3 DEF LineLoops
<1>. HIDE DEF v, m
<1>5. m = Len(v)
  BY DEF m
<1>6. ASSUME NEW k \in 1 .. n PROVE e(k) # 0 <=> k <= m
  <2>1. k <= m => k \in 1 .. Len(v)
    BY <1>2, <1>5
  <2>2. k \in 1 .. Len(v) => v[k] # 0
    BY <1>2
  <2>. QED BY <1>2, <2>1, <2>2
<1> DEFINE len(j) == Len(at[j].out)
<1>7. \A j \in 0 .. n : at[j] \in LineStates /\ at[j].out \in Seq(Nat \ {0}) /\ len(j) \in Nat /\ len(j) <= j
  <2>1. \A j \in 0 .. n : at[j].out \in Seq(Nat \ {0}) /\ Len(at[j].out) \in Nat /\ Len(at[j].out) <= j
    BY <1>3, LineLength
  <2>2. \A j \in 0 .. n : at[j] \in LineStates
    BY <1>3 DEF LineLoops
  <2>. QED BY <2>1, <2>2
<1>8. ASSUME NEW j \in 1 .. n
      PROVE  /\ Skips(at[j - 1], e(j), at[j]) \/ Merges(at[j - 1], e(j), at[j]) \/ Adds(at[j - 1], e(j), at[j])
             /\ e(j) \in Nat /\ j - 1 \in 0 .. n /\ j \in 0 .. n
  <2>1. j - 1 \in 0 .. n /\ j \in 0 .. n
    BY <1>1
  <2>2. e(j) \in Nat
    BY SquarePlace DEF Boards
  <2>3. at[j] = Met(at[j - 1], e(j))
    BY <1>3 DEF LineLoops
  <2>4. at[j - 1] \in LineStates
    BY <1>7, <2>1
  <2>. HIDE DEF e
  <2>5. Skips(at[j - 1], e(j), Met(at[j - 1], e(j))) \/ Merges(at[j - 1], e(j), Met(at[j - 1], e(j)))
        \/ Adds(at[j - 1], e(j), Met(at[j - 1], e(j)))
    BY <2>2, <2>4, MetCases
  <2>. QED BY <2>1, <2>2, <2>3, <2>5
<1>9. ASSUME NEW j \in 1 .. n
      PROVE  len(j) <= len(j - 1) + 1 /\ (len(j) = len(j - 1) + 1 => Adds(at[j - 1], e(j), at[j]))
  <2>1. at[j - 1].out \in Seq(Nat \ {0}) /\ len(j - 1) \in Nat
    BY <1>7, <1>8
  <2>2. CASE Skips(at[j - 1], e(j), at[j])
    <3>1. len(j) = len(j - 1)
      BY <2>2 DEF Skips
    <3>. HIDE DEF len
    <3>. QED BY <2>1, <3>1
  <2>3. CASE Merges(at[j - 1], e(j), at[j])
    <3>1. at[j].out = Append(Front(at[j - 1].out), e(j) + 1) /\ at[j - 1].out # <<>> /\ e(j) + 1 \in Nat \ {0}
      <4>. HIDE DEF e
      <4>1. e(j) \in Nat
        BY <1>8
      <4>2. e(j) + 1 \in Nat \ {0}
        BY <4>1
      <4>. QED BY <2>3, <4>2 DEF Merges
    <3>2. Front(at[j - 1].out) \in Seq(Nat \ {0}) /\ Len(Front(at[j - 1].out)) = len(j - 1) - 1
      BY <2>1, <3>1, LastOf
    <3>. HIDE DEF e
    <3>3. len(j) = Len(Front(at[j - 1].out)) + 1
      BY <3>1, <3>2, AppendProperties
    <3>. HIDE DEF len
    <3>. QED BY <2>1, <3>2, <3>3
  <2>4. CASE Adds(at[j - 1], e(j), at[j])
    <3>1. at[j].out = Append(at[j - 1].out, e(j)) /\ e(j) \in Nat \ {0}
      BY <1>8, <2>4 DEF Adds
    <3>. HIDE DEF e
    <3>2. len(j) = len(j - 1) + 1
      BY <2>1, <3>1, AppendProperties
    <3>. HIDE DEF len
    <3>. QED BY <2>1, <2>4, <3>2
  <2>. QED BY <1>8, <2>2, <2>3, <2>4
(* After the last tile nothing is added; so each of them was.              *)
<1> DEFINE P == {k \in 0 .. n - m : len(n - k) = m}
           Q == {k \in 0 .. m : len(m - k) = m - k}
<1>10. m \in Nat /\ n - m \in Nat
  BY <1>1, <1>2
<1>11. n - m \in P
  <2>1. len(n) = m
    BY <1>4, <1>5
  <2>2. 0 \in P
    <3>. HIDE DEF len
    <3>1. n - 0 = n
      BY <1>1
    <3>. QED BY <1>10, <2>1, <3>1
  <2>3. ASSUME NEW k \in 0 .. (n - m) - 1, k \in P PROVE k + 1 \in P
    <3>1. n - k \in 1 .. n /\ ~(n - k <= m) /\ n - (k + 1) = (n - k) - 1 /\ k + 1 \in 0 .. n - m
      BY <1>1, <1>10
    <3>2. e(n - k) = 0
      BY <1>6, <3>1
    <3>3. Skips(at[(n - k) - 1], e(n - k), at[n - k])
      <4>. HIDE DEF e
      <4>. QED BY <1>8, <3>1, <3>2 DEF Merges, Adds
    <3>4. len((n - k) - 1) = len(n - k)
      BY <3>3 DEF Skips
    <3>5. len(n - (k + 1)) = m
      <4>. HIDE DEF len
      <4>. QED BY <2>3, <3>1, <3>4
    <3>. HIDE DEF len
    <3>. QED BY <3>1, <3>5
  <2>. HIDE DEF P
  <2>. QED BY <1>10, <2>2, <2>3, UpTo0
<1>12. \A k \in 0 .. m : k \in Q
  <2>. HIDE DEF len
  <2>1. 0 \in Q
    <3>1. len(n - (n - m)) = m
      BY <1>11
    <3>2. n - (n - m) = m /\ m - 0 = m
      BY <1>1, <1>10
    <3>. QED BY <1>10, <3>1, <3>2
  <2>2. ASSUME NEW k \in 0 .. m - 1, k \in Q PROVE k + 1 \in Q
    <3>1. m - k \in 1 .. n /\ m - (k + 1) = (m - k) - 1 /\ m - (k + 1) \in 0 .. n /\ k + 1 \in 0 .. m
      BY <1>1, <1>2, <1>10
    <3>2. len(m - k) <= len((m - k) - 1) + 1
      BY <1>9, <3>1
    <3>3. len(m - (k + 1)) \in Nat /\ len(m - (k + 1)) <= m - (k + 1)
      BY <1>7, <3>1
    <3>4. len(m - k) = m - k
      BY <2>2
    <3>5. len(m - (k + 1)) = m - (k + 1)
      BY <1>10, <3>1, <3>2, <3>3, <3>4
    <3>. QED BY <3>1, <3>5
  <2>. HIDE DEF Q
  <2>. QED BY <1>10, <2>1, <2>2, UpTo0
<1>13. \A j \in 0 .. m : len(j) = j
  <2>. HIDE DEF len
  <2> TAKE j \in 0 .. m
  <2>1. m - j \in 0 .. m /\ m - (m - j) = j
    BY <1>10
  <2>. QED BY <1>12, <2>1
<1>14. ASSUME NEW j \in 1 .. m PROVE Adds(at[j - 1], e(j), at[j])
  <2>1. j \in 1 .. n /\ j \in 0 .. m /\ j - 1 \in 0 .. m
    BY <1>1, <1>2
  <2>2. len(j) = len(j - 1) + 1
    <3>. HIDE DEF len
    <3>1. len(j) = j /\ len(j - 1) = j - 1
      BY <1>13, <2>1
    <3>. QED BY <3>1
  <2>. HIDE DEF len, e
  <2>. QED BY <1>9, <2>1, <2>2
<1>15. ASSUME NEW j \in 1 .. m - 1 PROVE e(j) # e(j + 1)
  <2>1. j \in 1 .. m /\ j + 1 \in 1 .. m /\ (j + 1) - 1 = j /\ j \in 1 .. n
    <3>1. m \in Nat /\ n \in Nat /\ m <= n
      BY <1>1, <1>2
    <3>. HIDE DEF n
    <3>. QED BY ONLY <3>1, j \in 1 .. m - 1
  <2>2. Adds(at[j - 1], e(j), at[j]) /\ Adds(at[j], e(j + 1), at[j + 1])
    <3>1. Adds(at[(j + 1) - 1], e(j + 1), at[j + 1])
      BY <1>14, <2>1
    <3>. HIDE DEF e
    <3>. QED BY <1>14, <2>1, <3>1
  <2>3. at[j - 1].out \in Seq(Nat \ {0}) /\ e(j) \in Nat /\ e(j) # 0
    BY <1>7, <1>8, <2>1, <2>2 DEF Adds
  <2>. HIDE DEF e
  <2>4. at[j].out = Append(at[j - 1].out, e(j)) /\ ~at[j].merged
    BY <2>2 DEF Adds
  <2> DEFINE u == Append(at[j - 1].out, e(j))
  <2>5. u # <<>> /\ Last(u) = e(j)
    <3>1. Len(u) = Len(at[j - 1].out) + 1 /\ u[Len(at[j - 1].out) + 1] = e(j) /\ Len(at[j - 1].out) \in Nat
      BY <2>3, AppendProperties
    <3>. HIDE DEF u
    <3>. QED BY <3>1 DEF Last
  <2>. HIDE DEF u
  <2>6. at[j].out # <<>> /\ Last(at[j].out) = e(j)
    BY <2>4, <2>5 DEF u
  <2>. QED BY <2>2, <2>4, <2>6 DEF Adds
<1>. QED BY <1>2, <1>6, <1>15

(* Conversely, a full line of which no two tiles that meet are equal.      *)
LEMMA FreeLine ==
  ASSUME NEW b \in Boards, NEW d \in Directions, NEW i \in 0 .. Across(d) - 1,
         \A j \in 1 .. Along(d) : b[Square(d, i, j)] # 0,
         \A j \in 1 .. Along(d) - 1 : b[Square(d, i, j)] # b[Square(d, i, j + 1)]
  PROVE  \A j \in 1 .. Along(d) : Slid(b, d)[Square(d, i, j)] = b[Square(d, i, j)]
<1> DEFINE n == Along(d)
           e(j) == b[Square(d, i, j)]
<1>1. n \in Nat
  BY LineSizes
<1>2. PICK at : LineLoops(at, b, d, i)
  BY LineLoop
<1>3. \A j \in 1 .. n : e(j) \in Nat \ {0}
  BY SquarePlace DEF Boards
<1>4. at[0] = NoneMet /\ \A j \in 0 .. n : at[j] \in LineStates
  BY <1>2 DEF LineLoops
<1>5. \A j \in 1 .. n : at[j] = Met(at[j - 1], e(j))
  BY <1>2 DEF LineLoops
<1>6. \A j \in 1 .. n - 1 : e(j) # e(j + 1)
  OBVIOUS
<1>. HIDE DEF e
<1> DEFINE P == {j \in 0 .. n : Len(at[j].out) = j /\ ~at[j].merged /\ \A k \in 1 .. j : at[j].out[k] = e(k)}
<1>7. 0 \in P
  <2>1. at[0].out = <<>> /\ ~at[0].merged
    BY <1>4 DEF NoneMet
  <2>2. Len(at[0].out) = 0
    BY <2>1
  <2>. QED BY <1>1, <2>1, <2>2
<1>8. ASSUME NEW j \in 0 .. n - 1, j \in P PROVE j + 1 \in P
  <2> DEFINE s == at[j]
             t == at[j + 1]
  <2>1. j + 1 \in 1 .. n /\ (j + 1) - 1 = j /\ j + 1 \in 0 .. n /\ j \in 0 .. n
    BY <1>1
  <2>2. t = Met(s, e(j + 1))
    <3>1. at[j + 1] = Met(at[(j + 1) - 1], e(j + 1))
      BY <1>5, <2>1
    <3>. QED BY <2>1, <3>1
  <2>3. s \in LineStates /\ e(j + 1) \in Nat \ {0}
    BY <1>3, <1>4, <2>1
  <2>4. Len(s.out) = j /\ ~s.merged /\ \A k \in 1 .. j : s.out[k] = e(k)
    BY <1>8
  <2>. HIDE DEF s, t
  <2>5. s.out \in Seq(Nat \ {0})
    BY <2>3 DEF LineStates
  <2>6. s.out = <<>> \/ Last(s.out) # e(j + 1)
    <3>1. CASE s.out = <<>>
      BY <3>1
    <3>2. CASE s.out # <<>>
      <4>1. Last(s.out) = s.out[j] /\ j \in Nat \ {0}
        BY <2>4, <2>5, <3>2, LastOf
      <4>2. j \in 1 .. j /\ j \in 1 .. n - 1
        BY <4>1, <2>1, <1>1
      <4>3. s.out[j] = e(j) /\ e(j) # e(j + 1)
        BY <1>6, <2>4, <4>2
      <4>. QED BY <4>1, <4>3
    <3>. QED BY <3>1, <3>2
  <2>7. t = [out |-> Append(s.out, e(j + 1)), merged |-> FALSE, got |-> s.got]
    BY <2>2, <2>3, <2>6 DEF Met
  <2>8. t.out = Append(s.out, e(j + 1)) /\ ~t.merged
    BY <2>7
  <2> DEFINE u == Append(s.out, e(j + 1))
  <2>9. Len(u) = j + 1 /\ u[j + 1] = e(j + 1) /\ \A k \in 1 .. j : u[k] = s.out[k]
    BY <2>3, <2>4, <2>5, AppendProperties
  <2>. HIDE DEF u
  <2>10. \A k \in 1 .. j + 1 : u[k] = e(k)
    <3> TAKE k \in 1 .. j + 1
    <3>1. k = j + 1 \/ k \in 1 .. j
      BY <2>1
    <3>. QED BY <2>4, <2>9, <3>1
  <2>11. t.out = u
    BY <2>8 DEF u
  <2>12. Len(t.out) = j + 1 /\ ~t.merged /\ \A k \in 1 .. j + 1 : t.out[k] = e(k)
    BY <2>8, <2>9, <2>10, <2>11
  <2>. QED BY <2>1, <2>12 DEF t
<1>9. n \in P
  <2>. HIDE DEF P, n
  <2>. QED BY <1>1, <1>7, <1>8, UpTo0
<1>10. LineOf(b, d, i) = at[n]
  BY <1>2 DEF LineLoops
<1>. HIDE DEF LineOf
<1>11. Len(LineOf(b, d, i).out) = n /\ \A k \in 1 .. n : LineOf(b, d, i).out[k] = e(k)
  BY <1>9, <1>10
<1>12. \A k \in 1 .. n : Slid(b, d)[Square(d, i, k)] = IF k <= n THEN LineOf(b, d, i).out[k] ELSE 0
  BY <1>11, SlidBoard
<1>13. \A k \in 1 .. n : Slid(b, d)[Square(d, i, k)] = e(k)
  BY <1>1, <1>11, <1>12
<1>. QED BY <1>13 DEF e

-----------------------------------------------------------------------------
(* 2048: g2048_can_move() against the slides.                              *)
LEMMA SquareIs ==
  ASSUME NEW r \in 0 .. Rows - 1, NEW c \in 0 .. Columns - 1
  PROVE  /\ <<r, c>> \in Squares
         /\ Square("left", r, c + 1) = <<r, c>> /\ Square("right", r, Columns - c) = <<r, c>>
         /\ Square("up", c, r + 1) = <<r, c>> /\ Square("down", c, Rows - r) = <<r, c>>
         /\ c + 1 \in 1 .. Columns /\ Columns - c \in 1 .. Columns
         /\ r + 1 \in 1 .. Rows /\ Rows - r \in 1 .. Rows
<1>1. Rows \in Nat /\ Columns \in Nat
  BY Game2048Sizes
<1>2. (c + 1) - 1 = c /\ Columns - (Columns - c) = c /\ (r + 1) - 1 = r /\ Rows - (Rows - r) = r
  BY <1>1
<1>3. Square("left", r, c + 1) = <<r, c>> /\ Square("right", r, Columns - c) = <<r, c>>
  BY <1>2 DEF Square
<1>4. Square("up", c, r + 1) = <<r, c>> /\ Square("down", c, Rows - r) = <<r, c>>
  BY <1>2 DEF Square
<1>5. c + 1 \in 1 .. Columns /\ Columns - c \in 1 .. Columns /\ r + 1 \in 1 .. Rows /\ Rows - r \in 1 .. Rows
  BY <1>1
<1>. QED BY <1>3, <1>4, <1>5 DEF Squares

LEMMA StillSides ==
  /\ "left" \in Directions /\ Across("left") = Rows /\ Along("left") = Columns
  /\ "right" \in Directions /\ Across("right") = Rows /\ Along("right") = Columns
  /\ "up" \in Directions /\ Across("up") = Columns /\ Along("up") = Rows
  /\ "down" \in Directions /\ Across("down") = Columns /\ Along("down") = Rows
BY DEF Directions, Across, Along

LEMMA StillMeansStuck ==
  ASSUME NEW b \in Boards, NEW s \in Squares, b[s] # 0, \A d \in Directions : Slid(b, d) = b
  PROVE  ~CanMove(b)
<1>1. Rows \in Nat /\ Columns \in Nat
  BY Game2048Sizes
<1>2. s = <<s[1], s[2]>> /\ s[1] \in 0 .. Rows - 1 /\ s[2] \in 0 .. Columns - 1
  BY DEF Squares
<1>3. ASSUME NEW r \in 0 .. Rows - 1, NEW c \in 0 .. Columns - 1 PROVE b[<<r, c>>] # 0
  <2> DEFINE R == s[1]
             C == s[2]
  <2>1. R \in 0 .. Rows - 1 /\ C \in 0 .. Columns - 1 /\ b[<<R, C>>] # 0
    BY <1>2
  <2>. HIDE DEF R, C
  <2>2. b[<<r, C>>] # 0
    <3>1. PICK m \in 0 .. Rows : \A j \in 1 .. Rows : b[Square("up", C, j)] # 0 <=> j <= m
      BY <2>1, StillLine, StillSides
    <3>2. PICK k \in 0 .. Rows : \A j \in 1 .. Rows : b[Square("down", C, j)] # 0 <=> j <= k
      BY <2>1, StillLine, StillSides
    <3>3. /\ b[<<R, C>>] # 0 <=> R + 1 <= m
          /\ b[<<r, C>>] # 0 <=> r + 1 <= m
          /\ b[<<R, C>>] # 0 <=> Rows - R <= k
          /\ b[<<r, C>>] # 0 <=> Rows - r <= k
      <4>1. /\ Square("up", C, R + 1) = <<R, C>> /\ Square("down", C, Rows - R) = <<R, C>>
            /\ R + 1 \in 1 .. Rows /\ Rows - R \in 1 .. Rows
        BY <2>1, SquareIs
      <4>2. /\ Square("up", C, r + 1) = <<r, C>> /\ Square("down", C, Rows - r) = <<r, C>>
            /\ r + 1 \in 1 .. Rows /\ Rows - r \in 1 .. Rows
        BY <2>1, SquareIs
      <4>. QED BY <3>1, <3>2, <4>1, <4>2
    <3>. QED BY <1>1, <2>1, <3>3
  <2>3. PICK m \in 0 .. Columns : \A j \in 1 .. Columns : b[Square("left", r, j)] # 0 <=> j <= m
    BY <2>1, StillLine, StillSides
  <2>4. PICK k \in 0 .. Columns : \A j \in 1 .. Columns : b[Square("right", r, j)] # 0 <=> j <= k
    BY <2>1, StillLine, StillSides
  <2>5. /\ b[<<r, C>>] # 0 <=> C + 1 <= m
        /\ b[<<r, c>>] # 0 <=> c + 1 <= m
        /\ b[<<r, C>>] # 0 <=> Columns - C <= k
        /\ b[<<r, c>>] # 0 <=> Columns - c <= k
    <3>1. /\ Square("left", r, C + 1) = <<r, C>> /\ Square("right", r, Columns - C) = <<r, C>>
          /\ C + 1 \in 1 .. Columns /\ Columns - C \in 1 .. Columns
      BY <2>1, SquareIs
    <3>2. /\ Square("left", r, c + 1) = <<r, c>> /\ Square("right", r, Columns - c) = <<r, c>>
          /\ c + 1 \in 1 .. Columns /\ Columns - c \in 1 .. Columns
      BY SquareIs
    <3>. QED BY <2>3, <2>4, <3>1, <3>2
  <2>. QED BY <1>1, <2>1, <2>2, <2>5
<1>4. ASSUME NEW r \in 0 .. Rows - 1, NEW c \in 0 .. Columns - 1, c < Columns - 1 PROVE b[<<r, c>>] # b[<<r, c + 1>>]
  <2>1. PICK m \in 0 .. Columns :
          /\ \A j \in 1 .. Columns : b[Square("left", r, j)] # 0 <=> j <= m
          /\ \A j \in 1 .. m - 1 : b[Square("left", r, j)] # b[Square("left", r, j + 1)]
    BY StillLine, StillSides
  <2>2. c + 1 \in 0 .. Columns - 1 /\ (c + 1) + 1 \in 1 .. Columns
    BY <1>1, <1>4
  <2>3. Square("left", r, c + 1) = <<r, c>> /\ Square("left", r, (c + 1) + 1) = <<r, c + 1>>
    BY <2>2, SquareIs
  <2>4. (c + 1) + 1 <= m
    BY <1>3, <2>1, <2>2, <2>3
  <2>5. c + 1 \in 1 .. m - 1
    BY <1>1, <2>4
  <2>6. b[Square("left", r, c + 1)] # b[Square("left", r, (c + 1) + 1)]
    BY <2>1, <2>5
  <2>. QED BY <2>3, <2>6
<1>5. ASSUME NEW r \in 0 .. Rows - 1, NEW c \in 0 .. Columns - 1, r < Rows - 1 PROVE b[<<r, c>>] # b[<<r + 1, c>>]
  <2>1. PICK m \in 0 .. Rows :
          /\ \A j \in 1 .. Rows : b[Square("up", c, j)] # 0 <=> j <= m
          /\ \A j \in 1 .. m - 1 : b[Square("up", c, j)] # b[Square("up", c, j + 1)]
    BY StillLine, StillSides
  <2>2. r + 1 \in 0 .. Rows - 1 /\ (r + 1) + 1 \in 1 .. Rows
    BY <1>1, <1>5
  <2>3. Square("up", c, r + 1) = <<r, c>> /\ Square("up", c, (r + 1) + 1) = <<r + 1, c>>
    BY <2>2, SquareIs
  <2>4. (r + 1) + 1 <= m
    BY <1>3, <2>1, <2>2, <2>3
  <2>5. r + 1 \in 1 .. m - 1
    BY <1>1, <2>4
  <2>6. b[Square("up", c, r + 1)] # b[Square("up", c, (r + 1) + 1)]
    BY <2>1, <2>5
  <2>. QED BY <2>3, <2>6
<1>. QED BY <1>3, <1>4, <1>5 DEF CanMove

LEMMA StuckMeansStill ==
  ASSUME NEW b \in Boards, ~CanMove(b)
  PROVE  \A d \in Directions : Slid(b, d) = b
<1>1. Rows \in Nat /\ Columns \in Nat
  BY Game2048Sizes
<1>2. ASSUME NEW r \in 0 .. Rows - 1, NEW c \in 0 .. Columns - 1
      PROVE  /\ b[<<r, c>>] # 0
             /\ c < Columns - 1 => b[<<r, c>>] # b[<<r, c + 1>>]
             /\ r < Rows - 1 => b[<<r, c>>] # b[<<r + 1, c>>]
  BY DEF CanMove
<1>3. ASSUME NEW s \in Squares PROVE b[s] # 0
  <2>1. s = <<s[1], s[2]>> /\ s[1] \in 0 .. Rows - 1 /\ s[2] \in 0 .. Columns - 1
    BY DEF Squares
  <2>2. b[<<s[1], s[2]>>] # 0
    BY <1>2, <2>1
  <2>. QED BY <2>1, <2>2
<1>4. ASSUME NEW d \in Directions, NEW i \in 0 .. Across(d) - 1, NEW j \in 1 .. Along(d) - 1
      PROVE  b[Square(d, i, j)] # b[Square(d, i, j + 1)]
  <2>1. CASE d = "left"
    <3>1. i \in 0 .. Rows - 1 /\ j - 1 \in 0 .. Columns - 1 /\ j - 1 < Columns - 1 /\ (j - 1) + 1 = j /\ (j + 1) - 1 = j
      BY <1>1, <2>1, StillSides
    <3>2. Square(d, i, j) = <<i, j - 1>> /\ Square(d, i, j + 1) = <<i, (j + 1) - 1>>
      BY <2>1 DEF Square
    <3>3. b[<<i, j - 1>>] # b[<<i, (j - 1) + 1>>]
      BY <1>2, <3>1
    <3>. QED BY <3>1, <3>2, <3>3
  <2>2. CASE d = "right"
    <3> DEFINE c == Columns - (j + 1)
    <3>1. i \in 0 .. Rows - 1 /\ c \in 0 .. Columns - 1 /\ c < Columns - 1 /\ c + 1 = Columns - j
      BY <1>1, <2>2, StillSides
    <3>2. Square(d, i, j) = <<i, Columns - j>> /\ Square(d, i, j + 1) = <<i, c>>
      BY <2>2 DEF Square
    <3>. HIDE DEF c
    <3>3. b[<<i, c>>] # b[<<i, c + 1>>]
      BY <1>2, <3>1
    <3>. QED BY <3>1, <3>2, <3>3
  <2>3. CASE d = "up"
    <3>1. i \in 0 .. Columns - 1 /\ j - 1 \in 0 .. Rows - 1 /\ j - 1 < Rows - 1 /\ (j - 1) + 1 = j /\ (j + 1) - 1 = j
      BY <1>1, <2>3, StillSides
    <3>2. Square(d, i, j) = <<j - 1, i>> /\ Square(d, i, j + 1) = <<(j + 1) - 1, i>>
      BY <2>3 DEF Square
    <3>3. b[<<j - 1, i>>] # b[<<(j - 1) + 1, i>>]
      BY <1>2, <3>1
    <3>. QED BY <3>1, <3>2, <3>3
  <2>4. CASE d = "down"
    <3> DEFINE r == Rows - (j + 1)
    <3>1. i \in 0 .. Columns - 1 /\ r \in 0 .. Rows - 1 /\ r < Rows - 1 /\ r + 1 = Rows - j
      BY <1>1, <2>4, StillSides
    <3>2. Square(d, i, j) = <<Rows - j, i>> /\ Square(d, i, j + 1) = <<r, i>>
      BY <2>4 DEF Square
    <3>. HIDE DEF r
    <3>3. b[<<r, i>>] # b[<<r + 1, i>>]
      BY <1>2, <3>1
    <3>. QED BY <3>1, <3>2, <3>3
  <2>. QED BY <2>1, <2>2, <2>3, <2>4 DEF Directions
<1> TAKE d \in Directions
<1>5. \A i \in 0 .. Across(d) - 1, j \in 1 .. Along(d) : b[Square(d, i, j)] # 0
  BY <1>3, SquarePlace
<1>6. ASSUME NEW s \in Squares PROVE Slid(b, d)[s] = b[s]
  <2>1. PICK i \in 0 .. Across(d) - 1, j \in 1 .. Along(d) : s = Square(d, i, j)
    BY SquarePlace
  <2>2. Slid(b, d)[Square(d, i, j)] = b[Square(d, i, j)]
    BY <1>4, <1>5, FreeLine
  <2>. QED BY <2>1, <2>2
<1>7. Slid(b, d) \in Boards
  BY SlidBoard
<1>. QED BY <1>6, <1>7 DEF Boards

-----------------------------------------------------------------------------
(* 2048: a game.                                                           *)
G2048Inv ==
  part = "2048" =>
    /\ tiles \in Boards /\ (\E s \in Squares : tiles[s] # 0) /\ points \in Nat /\ fours \in Nat
    /\ points + 4 * fours = SumOf(Worths(tiles), Squares)
    /\ gover <=> ~CanMove(tiles)

LEMMA G2048InvHolds == G2048Inv => (part = "2048" => G2048AddsUp)
<1> SUFFICES ASSUME G2048Inv, part = "2048" PROVE G2048AddsUp
  OBVIOUS
<1>1. /\ tiles \in Boards /\ (\E s \in Squares : tiles[s] # 0)
      /\ points + 4 * fours = SumOf(Worths(tiles), Squares) /\ (gover <=> ~CanMove(tiles))
  BY DEF G2048Inv
<1>2. points + 4 * fours = SumOf([s \in Squares |-> Worth(tiles[s])], Squares)
  BY <1>1 DEF Worths
<1>3. \A d \in Directions : 2 * Tiles(Slid(tiles, d)) >= Tiles(tiles)
  <2> TAKE d \in Directions
  <2>1. Tiles(tiles) <= 2 * Tiles(Slid(tiles, d)) /\ Tiles(tiles) \in Nat
    BY <1>1, SlideTotals
  <2>2. Tiles(Slid(tiles, d)) \in Nat
    <3>1. Slid(tiles, d) \in Boards
      BY <1>1, SlidBoard
    <3> DEFINE c == Slid(tiles, d)
    <3>. HIDE DEF c
    <3>2. Tiles(c) \in Nat
      BY <3>1, BoardTotals DEF c
    <3>. QED BY <3>2 DEF c
  <2>. QED BY <2>1, <2>2
<1>4. gover <=> \A d \in Directions : Slid(tiles, d) = tiles
  BY <1>1, StillMeansStuck, StuckMeansStill
<1>. QED BY <1>2, <1>3, <1>4 DEF G2048AddsUp

LEMMA G2048Frame ==
  ASSUME [AppsNext]_appsVars
  PROVE  /\ part' = part
         /\ \/ part = "2048" /\ (G2048Step \/ Open2048)
            \/ part # "2048" /\ UNCHANGED g2048
            \/ UNCHANGED <<g2048, app, prefsVars>>
<1>1. CASE UNCHANGED appsVars
  BY <1>1 DEF appsVars, vars
<1>2. CASE \E p \in {"files", "snake", "tetris", "settings", "scripts", "shell", "calculator", "statistics",
                     "functions", "equations", "menus", "python", "console", "input", "colours"} : In(p)
  BY <1>2 DEF In
<1>3. CASE In("2048") /\ G2048Step
  BY <1>3 DEF In
<1>4. CASE Open2048
  BY <1>4 DEF Open2048, In
<1>5. OpenApp => Open2048 \/ \E p \in {"snake", "tetris", "settings", "statistics", "scripts", "shell",
                        "calculator", "functions", "equations", "python"} : In(p)
  BY DEF OpenApp, OpenSnake, OpenTetris, OpenSettings, OpenStatistics, OpenScripts, OpenShell, OpenCalculator,
         OpenFunctions, OpenEquations, OpenPython
<1>. QED BY <1>1, <1>2, <1>3, <1>4, <1>5 DEF AppsNext

LEMMA NothingWorth == NoTiles \in Boards /\ SumOf(Worths(NoTiles), Squares) = 0
<1>1. NoTiles \in Boards
  BY DEF NoTiles, Boards
<1>2. PICK a, q : Sums(a, Worths(NoTiles), Squares) /\ SumOf(Worths(NoTiles), Squares) = a[Squares]
  BY <1>1, BoardTotals
<1>3. \A s \in Squares : Worths(NoTiles)[s] = 0
  BY WorthIs DEF Worths, NoTiles
<1> DEFINE P == {S \in SUBSET Squares : a[S] = 0}
           f == Worths(NoTiles)
<1>. HIDE DEF f
<1>4. Sums(a, f, Squares) /\ \A s \in Squares : f[s] = 0
  BY <1>2, <1>3 DEF f
<1>5. {} \in P
  BY <1>4 DEF Sums
<1>6. ASSUME NEW S \in SUBSET Squares, NEW x \in Squares \ S, S \in P PROVE S \cup {x} \in P
  <2>1. a[S \cup {x}] = a[S] + f[x] /\ f[x] = 0 /\ a[S] = 0
    BY <1>4, <1>6 DEF Sums
  <2>2. a[S \cup {x}] = 0
    BY <2>1
  <2>. QED BY <2>2
<1>7. \A S \in SUBSET Squares : S \in P
  <2>. HIDE DEF P
  <2>. QED BY <1>5, <1>6, SquaresFinite, OneByOne
<1>. QED BY <1>1, <1>2, <1>7

(* A game begins with two tiles, and with somewhere to go.                 *)
LEMMA StartBoards ==
  ASSUME NEW b \in Starts
  PROVE  /\ b \in Boards /\ (\E s \in Squares : b[s] # 0) /\ FoursIn(NoTiles, b) \in Nat
         /\ 0 + 4 * FoursIn(NoTiles, b) = SumOf(Worths(b), Squares) /\ CanMove(b)
<1>1. PICK a \in WithTile(NoTiles) : b \in WithTile(a)
  BY DEF Starts
<1>2. /\ a \in Boards /\ SumOf(Worths(a), Squares) = SumOf(Worths(NoTiles), Squares) + 4 * FoursIn(NoTiles, a)
      /\ FoursIn(NoTiles, a) \in Nat
  BY <1>1, NothingWorth, TileTotals
<1>3. /\ b \in Boards /\ (\E s \in Squares : b[s] # 0) /\ FoursIn(a, b) \in Nat
      /\ SumOf(Worths(b), Squares) = SumOf(Worths(a), Squares) + 4 * FoursIn(a, b)
  BY <1>1, <1>2, TileTotals
<1>4. PICK s \in Squares, e \in {1, 2} : NoTiles[s] = 0 /\ a = [NoTiles EXCEPT ![s] = e]
  BY <1>1 DEF WithTile
<1>5. PICK t \in Squares, f \in {1, 2} : a[t] = 0 /\ b = [a EXCEPT ![t] = f]
  BY <1>1 DEF WithTile
<1>6. /\ a[s] = e /\ \A x \in Squares \ {s} : a[x] = 0
      /\ s # t /\ b[t] = f /\ \A x \in Squares \ {t} : b[x] = a[x]
  BY <1>2, <1>4, <1>5, NothingWorth DEF Boards, NoTiles
<1>7. FoursIn(NoTiles, b) = FoursIn(NoTiles, a) + FoursIn(a, b) /\ FoursIn(NoTiles, b) \in Nat
  <2> DEFINE S == {x \in Squares : a[x] # NoTiles[x] /\ a[x] = 2}
             T == {x \in Squares : b[x] # a[x] /\ b[x] = 2}
             U == {x \in Squares : b[x] # NoTiles[x] /\ b[x] = 2}
  <2>1. \A x \in Squares : NoTiles[x] = 0
    BY DEF NoTiles
  <2>2. U = S \cup T /\ S \cap T = {}
    BY <1>6, <2>1
  <2>3. IsFiniteSet(S) /\ IsFiniteSet(T) /\ IsFiniteSet(U)
    BY SquaresFinite, FS_Subset
  <2>. HIDE DEF S, T, U
  <2>4. Cardinality(S \cup T) = Cardinality(S) + Cardinality(T) - Cardinality(S \cap T)
    BY <2>3, FS_Union
  <2>5. Cardinality(S \cap T) = 0
    BY <2>2, FS_EmptySet
  <2>6. Cardinality(S) \in Nat /\ Cardinality(T) \in Nat
    BY <2>3, FS_CardinalityType
  <2>7. Cardinality(U) = Cardinality(S) + Cardinality(T)
    BY <2>2, <2>4, <2>5, <2>6
  <2>8. FoursIn(NoTiles, b) = Cardinality(U) /\ FoursIn(NoTiles, a) = Cardinality(S) /\ FoursIn(a, b) = Cardinality(T)
    BY DEF FoursIn, S, T, U
  <2>. QED BY <2>6, <2>7, <2>8
<1>8. CanMove(b)
  <2>1. Rows \in Nat /\ Columns \in Nat /\ Rows >= 2 /\ Columns >= 2
    BY Game2048Sizes
  <2>2. 0 \in 0 .. Rows - 1 /\ 1 \in 0 .. Rows - 1 /\ 0 \in 0 .. Columns - 1 /\ 1 \in 0 .. Columns - 1
    BY <2>1
  <2>3. <<0, 0>> \in Squares /\ <<0, 1>> \in Squares /\ <<1, 0>> \in Squares
    BY <2>2 DEF Squares
  <2>4. b[<<0, 0>>] = 0 \/ b[<<0, 1>>] = 0 \/ b[<<1, 0>>] = 0
    <3>1. \A x \in Squares \ {s, t} : b[x] = 0
      BY <1>6
    <3>2. <<0, 0>> # <<0, 1>> /\ <<0, 0>> # <<1, 0>> /\ <<0, 1>> # <<1, 0>>
      OBVIOUS
    <3>3. <<0, 0>> \notin {s, t} \/ <<0, 1>> \notin {s, t} \/ <<1, 0>> \notin {s, t}
      BY <3>2
    <3>. QED BY <2>3, <3>1, <3>3
  <2>. QED BY <2>2, <2>4 DEF CanMove
<1>. QED BY <1>2, <1>3, <1>7, <1>8, NothingWorth

LEMMA G2048Starts == AppsInit => G2048Inv
<1> SUFFICES ASSUME AppsInit PROVE G2048Inv
  OBVIOUS
<1>1. tiles \in Starts /\ fours = FoursIn(NoTiles, tiles) /\ points = 0 /\ gover = FALSE
  BY DEF AppsInit, G2048Init
<1>. QED BY <1>1, StartBoards DEF G2048Inv

(* One move.                                                               *)
LEMMA G2048Moves ==
  ASSUME G2048Inv, part = "2048", G2048Move
  PROVE  G2048Inv' /\ points' \in Nat
<1>1. PICK d \in Directions :
        LET b == Slid(tiles, d)
        IN  /\ b # tiles /\ points' = points + Gained(tiles, d)
            /\ tiles' \in WithTile(b) /\ fours' = fours + FoursIn(b, tiles')
  BY DEF G2048Move
<1> DEFINE b == Slid(tiles, d)
<1>2. points' = points + Gained(tiles, d) /\ tiles' \in WithTile(b) /\ fours' = fours + FoursIn(b, tiles')
  BY <1>1
<1>3. /\ tiles \in Boards /\ points \in Nat /\ fours \in Nat
      /\ points + 4 * fours = SumOf(Worths(tiles), Squares)
  BY DEF G2048Inv
<1>4. SumOf(Worths(b), Squares) = SumOf(Worths(tiles), Squares) + Gained(tiles, d) /\ Gained(tiles, d) \in Nat
  BY <1>3, SlideTotals
<1>5. b \in Boards
  BY <1>3, SlidBoard
<1>. HIDE DEF b
<1>6. /\ tiles' \in Boards /\ (\E s \in Squares : tiles'[s] # 0) /\ FoursIn(b, tiles') \in Nat
      /\ SumOf(Worths(tiles'), Squares) = SumOf(Worths(b), Squares) + 4 * FoursIn(b, tiles')
  BY <1>2, <1>5, TileTotals
<1>7. points' \in Nat /\ fours' \in Nat /\ points' + 4 * fours' = SumOf(Worths(tiles'), Squares)
  BY <1>2, <1>3, <1>4, <1>6
<1>8. (gover' <=> ~CanMove(tiles'))
  BY DEF G2048Move
<1>9. Worths(tiles)' = Worths(tiles') /\ CanMove(tiles)' = CanMove(tiles')
  BY DEF Worths, CanMove
<1>. QED BY <1>6, <1>7, <1>8, <1>9 DEF G2048Inv

LEMMA G2048Keeps == ASSUME G2048Inv, [AppsNext]_appsVars PROVE G2048Inv'
<1>0. part' = part
  BY G2048Frame
<1>1. CASE UNCHANGED g2048
  BY <1>0, <1>1 DEF G2048Inv, g2048
<1>2. CASE part = "2048" /\ Open2048
  BY <1>0, <1>2 DEF Open2048, G2048Inv, g2048
<1>3. CASE part = "2048" /\ G2048Move
  BY <1>3, G2048Moves
<1>4. CASE part = "2048" /\ G2048Again
  <2>1. tiles' \in Starts /\ fours' = FoursIn(NoTiles, tiles') /\ points' = 0 /\ gover' = FALSE
    BY <1>4 DEF G2048Again
  <2>2. /\ tiles' \in Boards /\ (\E s \in Squares : tiles'[s] # 0) /\ FoursIn(NoTiles, tiles') \in Nat
        /\ 0 + 4 * FoursIn(NoTiles, tiles') = SumOf(Worths(tiles'), Squares) /\ CanMove(tiles')
    BY <2>1, StartBoards
  <2>. QED BY <2>1, <2>2 DEF G2048Inv
<1>5. CASE part = "2048" /\ G2048Leave
  BY <1>0, <1>5 DEF G2048Leave, G2048Inv, g2048
<1>. QED BY <1>1, <1>2, <1>3, <1>4, <1>5, G2048Frame DEF G2048Step

-----------------------------------------------------------------------------
(* Settings and best scores.                                               *)
PrefsFit == prefs = [k \in PrefKeys |-> prefs[k]] /\ \A k \in PrefKeys : prefs[k] \in Allowed[k]
PrefsSaved == mounted /\ ~outside => Parsed(prefsFile) = prefs
PrefsInv == PrefsFit /\ PrefsSaved

LEMMA ParsedFits ==
  ASSUME NEW file
  PROVE  /\ Parsed(file) = [k \in PrefKeys |-> Parsed(file)[k]]
         /\ \A k \in PrefKeys : Parsed(file)[k] \in Allowed[k]
BY PrefsAllowed DEF Parsed

LEMMA LoadedFits ==
  ASSUME prefs' = PrefsLoaded PROVE PrefsFit'
<1>1. CASE mounted
  BY <1>1, ParsedFits DEF PrefsLoaded, PrefsFit
<1>2. CASE ~mounted
  BY <1>2, PrefsAllowed DEF PrefsLoaded, PrefsFit
<1>. QED BY <1>1, <1>2

(* prefs_save() of values that a setting may have.                         *)
LEMMA SaveTells == ASSUME PrefsFit', PrefsSave, mounted' = mounted PROVE PrefsSaved'
<1>1. CASE mounted /\ prefsFile' = prefs'
  <2>1. Parsed(prefsFile') = prefs'
    BY <1>1 DEF Parsed, PrefsFit
  <2>. QED BY <2>1 DEF PrefsSaved
<1>2. CASE outside' = TRUE
  BY <1>2 DEF PrefsSaved
<1>. QED BY <1>1, <1>2 DEF PrefsSave

LEMMA SetFits ==
  ASSUME PrefsFit, NEW k \in PrefKeys, NEW v \in Allowed[k], prefs' = [prefs EXCEPT ![k] = v]
  PROVE  PrefsFit' /\ prefs'[k] = v /\ \A j \in PrefKeys \ {k} : prefs'[j] = prefs[j]
<1>1. DOMAIN prefs = PrefKeys
  BY DEF PrefsFit
<1>2. prefs'[k] = v /\ (\A j \in PrefKeys \ {k} : prefs'[j] = prefs[j]) /\ DOMAIN prefs' = PrefKeys
  BY <1>1
<1>3. prefs' = [j \in PrefKeys |-> prefs'[j]]
  BY <1>1
<1>. QED BY <1>2, <1>3 DEF PrefsFit

(* A score that is better is saved, or it is known that it could not be.   *)
LEMMA BestKeeps ==
  ASSUME PrefsInv, NEW g \in Games, NEW n \in Nat, NewBest(g, n)
  PROVE  PrefsInv'
<1>1. CASE n > prefs[g]
  <2>1. prefs' = [prefs EXCEPT ![g] = n] /\ PrefsSave /\ mounted' = mounted
    BY <1>1 DEF NewBest
  <2>2. PrefsFit'
    BY <2>1, SetFits, BestAllowed DEF PrefsInv
  <2>. QED BY <2>1, <2>2, SaveTells DEF PrefsInv
<1>2. CASE ~(n > prefs[g])
  BY <1>2 DEF NewBest, PrefsInv, PrefsFit, PrefsSaved
<1>. QED BY <1>1, <1>2

-----------------------------------------------------------------------------
(* A level of the battery: the first threshold that is not reached.        *)
LEMMA LevelOfIs ==
  ASSUME NEW t, NEW mv, \A i \in 1 .. 3 : t[i] \in Int, mv \in Int
  PROVE  /\ LevelOf(t, mv) \in 0 .. 3
         /\ LevelOf(t, mv) < 3 => mv < t[LevelOf(t, mv) + 1]
         /\ \A j \in 1 .. LevelOf(t, mv) : mv >= t[j]
<1> DEFINE IsFirst(i) == mv < t[i] /\ \A j \in 1 .. i - 1 : mv >= t[j]
<1>1. CASE \E i \in 1 .. 3 : mv < t[i]
  <2>1. \E i \in 1 .. 3 : IsFirst(i)
    <3>1. mv < t[1] => IsFirst(1)
      OBVIOUS
    <3>2. mv >= t[1] /\ mv < t[2] => IsFirst(2)
      OBVIOUS
    <3>3. mv >= t[1] /\ mv >= t[2] /\ mv < t[3] => IsFirst(3)
      OBVIOUS
    <3>4. mv < t[1] \/ mv < t[2] \/ mv < t[3]
      BY <1>1
    <3>. HIDE DEF IsFirst
    <3>. QED BY <3>1, <3>2, <3>3, <3>4
  <2> DEFINE c == CHOOSE i \in 1 .. 3 : IsFirst(i)
  <2>2. c \in 1 .. 3 /\ IsFirst(c)
    <3>. HIDE DEF IsFirst
    <3>. QED BY <2>1
  <2>3. LevelOf(t, mv) = c - 1
    BY <1>1 DEF LevelOf
  <2>. HIDE DEF c
  <2>. QED BY <2>2, <2>3
<1>2. CASE ~\E i \in 1 .. 3 : mv < t[i]
  BY <1>2 DEF LevelOf
<1>. QED BY <1>1, <1>2

LEMMA LevelForIs ==
  ASSUME NEW mv \in Int, NEW p \in 0 .. 3
  PROVE  /\ LevelFor(mv, p) \in 0 .. 3
         /\ LevelFor(mv, p) < p => mv < Thresholds[LevelFor(mv, p) + 1] - HYSTERESIS_MV
         /\ LevelFor(mv, p) > p => mv >= Thresholds[LevelFor(mv, p)] + HYSTERESIS_MV
<1> DEFINE t == [i \in 1 .. 3 |-> IF i <= p THEN Thresholds[i] - HYSTERESIS_MV ELSE Thresholds[i] + HYSTERESIS_MV]
           l == LevelFor(mv, p)
<1>1. \A i \in 1 .. 3 : t[i] \in Int
  BY BatterySizes
<1>2. l = LevelOf(t, mv)
  BY DEF LevelFor
<1>3. /\ l \in 0 .. 3
      /\ l < 3 => mv < t[l + 1]
      /\ \A j \in 1 .. l : mv >= t[j]
  <2>. HIDE DEF t, l
  <2>. QED BY <1>1, <1>2, LevelOfIs
<1>4. ASSUME l < p PROVE mv < Thresholds[l + 1] - HYSTERESIS_MV
  <2>1. l + 1 \in 1 .. 3 /\ l < 3 /\ l + 1 <= p
    BY <1>3, <1>4
  <2>2. t[l + 1] = Thresholds[l + 1] - HYSTERESIS_MV
    BY <2>1
  <2>. QED BY <1>3, <2>1, <2>2
<1>5. ASSUME l > p PROVE mv >= Thresholds[l] + HYSTERESIS_MV
  <2>1. l \in 1 .. 3 /\ l \in 1 .. l /\ ~(l <= p)
    BY <1>3, <1>5
  <2>2. t[l] = Thresholds[l] + HYSTERESIS_MV
    BY <2>1
  <2>. QED BY <1>3, <2>1, <2>2
<1>. QED BY <1>3, <1>4, <1>5

LevelInv ==
  /\ level \in 0 .. 3 /\ turned.from \in 0 .. 3 /\ turned.mv \in Nat
  /\ turned.from # level => level = LevelFor(turned.mv, turned.from)

LEMMA ThresholdsAscend == \A i, j \in 1 .. 3 : i <= j => Thresholds[i] \in Nat /\ Thresholds[j] \in Nat /\ Thresholds[i] <= Thresholds[j]
BY BatterySizes

(* A change back is a change by more than twice the hysteresis.            *)
LEMMA BackIsFar ==
  ASSUME NEW a \in 0 .. 3, NEW b \in 0 .. 3, a # b, NEW m \in Nat, NEW n \in Nat,
         b = LevelFor(m, a), a = LevelFor(n, b)
  PROVE  n - m >= 2 * HYSTERESIS_MV \/ m - n >= 2 * HYSTERESIS_MV
<1>1. HYSTERESIS_MV \in Nat
  BY BatterySizes
<1>2. CASE a < b
  <2>1. m >= Thresholds[b] + HYSTERESIS_MV
    BY <1>2, LevelForIs
  <2>2. n < Thresholds[a + 1] - HYSTERESIS_MV
    BY <1>2, LevelForIs
  <2>3. a + 1 \in 1 .. 3 /\ b \in 1 .. 3 /\ a + 1 <= b
    BY <1>2
  <2>. QED BY <1>1, <2>1, <2>2, <2>3, ThresholdsAscend
<1>3. CASE b < a
  <2>1. n >= Thresholds[a] + HYSTERESIS_MV
    BY <1>3, LevelForIs
  <2>2. m < Thresholds[b + 1] - HYSTERESIS_MV
    BY <1>3, LevelForIs
  <2>3. b + 1 \in 1 .. 3 /\ a \in 1 .. 3 /\ b + 1 <= a
    BY <1>3
  <2>. QED BY <1>1, <2>1, <2>2, <2>3, ThresholdsAscend
<1>. QED BY <1>2, <1>3

-----------------------------------------------------------------------------
PcPrefs == UNCHANGED settings /\ app # "restart" /\ \E file \in StartFiles : PcWrites(file)

(* A step of the settings or of their file, or one that leaves both alone. *)
LEMMA SettingsFrame ==
  ASSUME [AppsNext]_appsVars
  PROVE  /\ part' = part
         /\ \/ part = "settings" /\ (SettingsStep \/ PcPrefs \/ OpenSettings)
            \/ part # "settings" /\ UNCHANGED settings
            \/ UNCHANGED <<settings, prefsVars, app>>
<1>1. CASE UNCHANGED appsVars
  BY <1>1 DEF appsVars, vars
<1>2. CASE \E p \in {"files", "tetris", "2048", "snake", "scripts", "shell", "calculator", "statistics",
                     "functions", "equations", "menus", "python", "console", "input", "colours"} : In(p)
  BY <1>2 DEF In
<1>3. CASE In("settings") /\ (SettingsStep \/ PcPrefs)
  BY <1>3 DEF In
<1>4. CASE OpenSettings
  BY <1>4 DEF OpenSettings, In
<1>5. OpenApp => OpenSettings \/ \E p \in {"tetris", "2048", "snake", "statistics", "scripts", "shell",
                        "calculator", "functions", "equations", "python"} : In(p)
  BY DEF OpenApp, OpenTetris, Open2048, OpenSnake, OpenStatistics, OpenScripts, OpenShell, OpenCalculator,
         OpenFunctions, OpenEquations, OpenPython
<1>. QED BY <1>1, <1>2, <1>3, <1>4, <1>5 DEF AppsNext, PcPrefs

LampInv ==
  app # "restart" =>
    /\ lamp = prefs["led"] /\ colour = lamp /\ wanted = prefs["brightness"] /\ lang = prefs["lang"]
    /\ pwm = Show(colour, charge, suspended)
    /\ usb <=> charge # "none"

SettingsInv ==
  /\ LevelInv
  /\ part = "settings" => PrefsFit /\ LampInv /\ (app \notin {"settings", "restart"} => PrefsSaved)

LEMMA SettingsFacts == SettingsInv /\ part = "settings" => LampTells /\ SettingsKept
BY DEF SettingsInv, LampInv, LampTells, Show, PrefsFit, PrefsSaved, SettingsKept

(* battery_poll() and battery_init().                                      *)
LEMMA LevelKeeps == ASSUME LevelInv, SettingsStep PROVE LevelInv'
<1>1. CASE UNCHANGED battery
  BY <1>1 DEF battery, LevelInv
<1>2. CASE BatteryPoll
  <2>1. PICK mv \in Millivolts : /\ level' = LevelFor(mv, level)
                                 /\ turned' = IF level' = level THEN turned ELSE [from |-> level, mv |-> mv]
    BY <1>2 DEF BatteryPoll
  <2>2. mv \in Nat /\ level \in 0 .. 3
    BY BatterySizes DEF LevelInv
  <2>3. level' \in 0 .. 3
    BY <2>1, <2>2, LevelForIs
  <2>4. CASE level' = level
    BY <2>1, <2>4 DEF LevelInv
  <2>5. CASE level' # level
    <3>1. turned'.from = level /\ turned'.mv = mv
      BY <2>1, <2>5
    <3>. QED BY <2>1, <2>2, <2>3, <3>1 DEF LevelInv
  <2>. QED BY <2>4, <2>5
<1>3. CASE PowerUp
  <2>1. PICK first \in Millivolts, mv \in Millivolts :
          /\ level' = LevelFor(mv, LevelOf(Thresholds, first)) /\ turned' = [from |-> level', mv |-> mv]
    BY <1>3 DEF PowerUp, SettingsStart
  <2>2. first \in Nat /\ mv \in Nat
    BY BatterySizes
  <2>3. LevelOf(Thresholds, first) \in 0 .. 3
    BY <2>2, BatterySizes, LevelOfIs
  <2>4. level' \in 0 .. 3 /\ turned'.from = level' /\ turned'.mv = mv
    BY <2>1, <2>2, <2>3, LevelForIs
  <2>. QED BY <2>2, <2>4 DEF LevelInv
<1>4. SettingsStep => UNCHANGED battery \/ BatteryPoll \/ PowerUp
  BY DEF SettingsStep, SettingsRow, SettingsLamp, SettingsBright, SettingsLang, SettingsLeave, SettingsReset,
         LedSleep, ResetButton, InSettings, settings
<1>. QED BY <1>1, <1>2, <1>3, <1>4

LEMMA SettingsStepKeeps ==
  ASSUME PrefsFit, LampInv, app \notin {"settings", "restart"} => PrefsSaved, SettingsStep
  PROVE  PrefsFit' /\ LampInv' /\ (app' \notin {"settings", "restart"} => PrefsSaved')
<1>0. /\ "led" \in PrefKeys /\ "brightness" \in PrefKeys /\ "lang" \in PrefKeys
      /\ Allowed["led"] = 0 .. Colours - 1 /\ Colours \in Nat \ {0}
      /\ Allowed["brightness"] = 0 .. BACKLIGHT_MAX /\ Allowed["lang"] = {"nl", "en"}
  BY SettingsAllowed
<1>1. CASE SettingsRow
  BY <1>1 DEF SettingsRow, prefsVars, led, battery, PrefsFit, LampInv, PrefsSaved
<1>2. CASE SettingsLamp
  <2>1. /\ app = "settings" /\ app' = app /\ LedSet(lamp') /\ prefs' = [prefs EXCEPT !["led"] = lamp']
        /\ UNCHANGED <<wanted, lang, usb>>
    BY <1>2 DEF SettingsLamp, InSettings, battery
  <2>2. lamp' \in Allowed["led"]
    <3>1. lamp \in 0 .. Colours - 1
      BY <1>0, <2>1 DEF LampInv, PrefsFit
    <3>2. PICK step \in {1, Colours - 1} : lamp' = (lamp + step) % Colours
      BY <1>2 DEF SettingsLamp
    <3>3. lamp + step \in Nat
      BY <1>0, <3>1
    <3>. QED BY <1>0, <3>2, <3>3
  <2>3. PrefsFit' /\ prefs'["led"] = lamp' /\ \A k \in PrefKeys \ {"led"} : prefs'[k] = prefs[k]
    BY <1>0, <2>1, <2>2, SetFits
  <2>4. prefs'["brightness"] = prefs["brightness"] /\ prefs'["lang"] = prefs["lang"]
    BY <1>0, <2>3
  <2>5. LampInv'
    BY <2>1, <2>3, <2>4 DEF LampInv, LedSet
  <2>. QED BY <2>1, <2>3, <2>5
<1>3. CASE SettingsBright
  <2>1. /\ app = "settings" /\ app' = app /\ prefs' = [prefs EXCEPT !["brightness"] = wanted']
        /\ wanted' \in Allowed["brightness"] /\ UNCHANGED <<lamp, colour, charge, suspended, pwm, lang, usb>>
    BY <1>0, <1>3 DEF SettingsBright, InSettings, battery, led
  <2>2. PrefsFit' /\ prefs'["brightness"] = wanted' /\ \A k \in PrefKeys \ {"brightness"} : prefs'[k] = prefs[k]
    BY <1>0, <2>1, SetFits
  <2>3. prefs'["led"] = prefs["led"] /\ prefs'["lang"] = prefs["lang"]
    BY <1>0, <2>2
  <2>. QED BY <2>1, <2>2, <2>3 DEF LampInv
<1>4. CASE SettingsLang
  <2>1. /\ app = "settings" /\ app' = app /\ prefs' = [prefs EXCEPT !["lang"] = lang']
        /\ lang' \in Allowed["lang"] /\ UNCHANGED <<lamp, colour, charge, suspended, pwm, wanted, usb>>
    BY <1>0, <1>4 DEF SettingsLang, InSettings, battery, led
  <2>2. PrefsFit' /\ prefs'["lang"] = lang' /\ \A k \in PrefKeys \ {"lang"} : prefs'[k] = prefs[k]
    BY <1>0, <2>1, SetFits
  <2>3. prefs'["led"] = prefs["led"] /\ prefs'["brightness"] = prefs["brightness"]
    BY <1>0, <2>2
  <2>. QED BY <2>1, <2>2, <2>3 DEF LampInv
<1>5. CASE SettingsLeave \/ SettingsReset
  <2>1. UNCHANGED prefs /\ mounted' = mounted /\ PrefsSave /\ UNCHANGED settings /\ app = "settings"
    BY <1>5 DEF SettingsLeave, SettingsReset
  <2>2. PrefsFit'
    BY <2>1 DEF PrefsFit
  <2>3. LampInv'
    BY <2>1 DEF LampInv, settings, led, battery
  <2>. QED BY <2>1, <2>2, <2>3, SaveTells
<1>6. CASE LedSleep
  BY <1>6 DEF LedSleep, prefsVars, battery, PrefsFit, LampInv, PrefsSaved
<1>7. CASE BatteryPoll
  <2>1. UNCHANGED <<app, prefs, prefsFile, mounted, outside, lamp, wanted, lang>>
    BY <1>7 DEF BatteryPoll, prefsVars
  <2>2. PICK charging \in BOOLEAN :
          LedSetCharge(IF ~usb' THEN "none" ELSE IF charging THEN "charging" ELSE "full")
    BY <1>7 DEF BatteryPoll
  <2>3. (usb' <=> charge' # "none") /\ pwm' = Show(colour', charge', suspended') /\ colour' = colour
    BY <2>2 DEF LedSetCharge
  <2>. QED BY <2>1, <2>3 DEF PrefsFit, LampInv, PrefsSaved
<1>8. CASE PowerUp
  <2>1. /\ prefs' = PrefsLoaded /\ UNCHANGED <<prefsFile, mounted, outside>>
        /\ lamp' = prefs'["led"] /\ colour' = prefs'["led"] /\ suspended' = FALSE
        /\ wanted' = prefs'["brightness"] /\ lang' = prefs'["lang"]
        /\ charge' \in (IF usb' THEN {"charging", "full"} ELSE {"none"})
        /\ pwm' = Show(colour', charge', FALSE)
    BY <1>8 DEF PowerUp, SettingsStart
  <2>2. PrefsFit'
    BY <2>1, LoadedFits
  <2>3. usb' <=> charge' # "none"
    BY <2>1
  <2>4. LampInv'
    BY <2>1, <2>3 DEF LampInv
  <2>5. PrefsSaved'
    BY <2>1 DEF PrefsSaved, PrefsLoaded
  <2>. QED BY <2>2, <2>4, <2>5
<1>9. CASE ResetButton
  BY <1>9 DEF ResetButton, prefsVars, PrefsFit, LampInv
<1>. QED BY <1>1, <1>2, <1>3, <1>4, <1>5, <1>6, <1>7, <1>8, <1>9 DEF SettingsStep

LEMMA SettingsKeeps ==
  ASSUME SettingsInv, [AppsNext]_appsVars
  PROVE  SettingsInv'
<1>1. CASE part = "settings" /\ SettingsStep /\ part' = part
  BY <1>1, LevelKeeps, SettingsStepKeeps DEF SettingsInv
<1>2. CASE part = "settings" /\ PcPrefs /\ part' = part
  <2>1. UNCHANGED <<settings, app, prefs>> /\ outside' = TRUE
    BY <1>2 DEF PcPrefs, PcWrites
  <2>. QED BY <1>2, <2>1 DEF SettingsInv, LevelInv, LampInv, PrefsFit, PrefsSaved, settings, led, battery
<1>3. CASE part = "settings" /\ OpenSettings /\ part' = part
  <2>1. UNCHANGED <<settings, prefsVars>> /\ app' = "settings" /\ app \in {"home", "games", "files"}
    BY <1>3 DEF OpenSettings, Opening
  <2>. QED BY <1>3, <2>1 DEF SettingsInv, LevelInv, LampInv, PrefsFit, settings, led, battery, prefsVars
<1>4. CASE part # "settings" /\ UNCHANGED settings /\ part' = part
  BY <1>4 DEF SettingsInv, LevelInv, settings, battery
<1>5. CASE UNCHANGED <<settings, prefsVars, app>> /\ part' = part
  BY <1>5 DEF SettingsInv, LevelInv, LampInv, PrefsFit, PrefsSaved, settings, led, battery, prefsVars
<1>. QED BY <1>1, <1>2, <1>3, <1>4, <1>5, SettingsFrame

LEMMA SettingsStarts ==
  ASSUME AppsInit PROVE SettingsInv
<1>1. PrefsInit /\ SettingsInit
  BY DEF AppsInit
<1>2. LevelInv
  BY <1>1 DEF SettingsInit, LevelInv
<1>3. PrefsFit
  BY <1>1, ParsedFits, PrefsAllowed DEF PrefsInit, PrefsLoaded, PrefsFit
<1>4. PrefsSaved
  BY <1>1 DEF PrefsInit, PrefsLoaded, PrefsSaved
<1>5. LampInv
  BY <1>1 DEF SettingsInit, LampInv
<1>. QED BY <1>2, <1>3, <1>4, <1>5 DEF SettingsInv

LEMMA LevelIsSteady ==
  ASSUME SettingsInv, [AppsNext]_appsVars, app # "restart", level' # level, level' = turned.from
  PROVE  turned'.mv - turned.mv >= 2 * HYSTERESIS_MV \/ turned.mv - turned'.mv >= 2 * HYSTERESIS_MV
<1>1. BatteryPoll
  <2>1. SettingsStep \/ UNCHANGED settings
    BY SettingsFrame DEF PcPrefs, OpenSettings
  <2>. QED BY <2>1 DEF SettingsStep, SettingsRow, SettingsLamp, SettingsBright, SettingsLang, SettingsLeave,
                       SettingsReset, LedSleep, PowerUp, ResetButton, InSettings, settings, battery
<1>2. PICK mv \in Millivolts : /\ level' = LevelFor(mv, level)
                               /\ turned' = IF level' = level THEN turned ELSE [from |-> level, mv |-> mv]
  BY <1>1 DEF BatteryPoll
<1>3. mv \in Nat /\ turned'.mv = mv
  BY <1>2, BatterySizes
<1>4. /\ level \in 0 .. 3 /\ turned.from \in 0 .. 3 /\ turned.mv \in Nat
      /\ level = LevelFor(turned.mv, turned.from) /\ turned.from = LevelFor(mv, level)
  BY <1>2 DEF SettingsInv, LevelInv
<1>5. mv - turned.mv >= 2 * HYSTERESIS_MV \/ turned.mv - mv >= 2 * HYSTERESIS_MV
  BY <1>3, <1>4, BackIsFar
<1>. QED BY <1>3, <1>5

(* The battery's level goes back only when the voltage came back by twice  *)
(* the hysteresis, whatever was read in between.                           *)
THEOREM BatterySteady == AppsSpec => LevelSteady
<1>1. SettingsInv /\ [AppsNext]_appsVars =>
        [app # "restart" /\ level' # level /\ level' = turned.from =>
           turned'.mv - turned.mv >= 2 * HYSTERESIS_MV \/ turned.mv - turned'.mv >= 2 * HYSTERESIS_MV]_battery
  BY LevelIsSteady
<1>. QED BY <1>1, SettingsStarts, SettingsKeeps, PTL DEF AppsSpec, LevelSteady

-----------------------------------------------------------------------------
(* The games together, and their best scores.                              *)
GamesInv == TetrisInv /\ SnakeInv /\ G2048Inv
BestInv == part \in Games => PrefsInv

LEMMA GamesStarts == AppsInit => GamesInv
BY TetrisStarts, SnakeStarts, G2048Starts DEF GamesInv

LEMMA GamesKeep == GamesInv /\ [AppsNext]_appsVars => GamesInv'
BY TetrisKeeps, SnakeKeeps, G2048Keeps DEF GamesInv

LEMMA GamesHold == GamesInv => GamesAddUp
BY TetrisInvHolds, SnakeInvHolds, G2048InvHolds DEF GamesInv, GamesAddUp

LEMMA BestKept ==
  ASSUME GamesInv, GamesInv', BestInv, [AppsNext]_appsVars
  PROVE  BestInv'
<1>1. score' \in Nat /\ eaten \in Nat /\ (part = "2048" => points \in Nat)
  <2>1. Len(body) \in Nat /\ Len(body) >= 3 /\ eaten = 10 * (Len(body) - 3)
    BY DEF GamesInv, SnakeInv, Ring
  <2>2. eaten \in Nat
    BY <2>1
  <2>. QED BY <2>2 DEF GamesInv, TetrisInv, G2048Inv
<1>2. part' = part
  BY TetrisFrame
<1>3. CASE UNCHANGED prefsVars
  BY <1>2, <1>3 DEF BestInv, PrefsInv, PrefsFit, PrefsSaved, prefsVars
<1>4. CASE part = "tetris"
  <2>1. UNCHANGED prefsVars \/ NewBest("tetris", score')
    <3>1. TetrisStep => UNCHANGED prefsVars \/ NewBest("tetris", score')
      BY DEF TetrisStep, TetrisSteer, TetrisDown, TetrisDrop, TetrisAgain, TetrisLeave, Lock, Move
    <3>. QED BY <1>4, <3>1, TetrisFrame DEF OpenTetris
  <2>2. "tetris" \in Games
    BY DEF Games
  <2>. QED BY <1>1, <1>2, <1>3, <1>4, <2>1, <2>2, BestKeeps DEF BestInv
<1>5. CASE part = "snake"
  <2>1. UNCHANGED prefsVars \/ NewBest("snake", eaten)
    <3>1. SnakeNext => UNCHANGED prefsVars \/ NewBest("snake", eaten)
      BY DEF SnakeNext, SnakeStep, SnakeSteer, SnakeAgain, SnakeLeave
    <3>. QED BY <1>5, <3>1, SnakeFrame DEF OpenSnake
  <2>2. "snake" \in Games
    BY DEF Games
  <2>. QED BY <1>1, <1>2, <1>3, <1>5, <2>1, <2>2, BestKeeps DEF BestInv
<1>6. CASE part = "2048"
  <2>1. UNCHANGED prefsVars \/ NewBest("2048", points') \/ NewBest("2048", points)
    <3>1. G2048Step => UNCHANGED prefsVars \/ NewBest("2048", points') \/ NewBest("2048", points)
      BY DEF G2048Step, G2048Move, G2048Again, G2048Leave
    <3>. QED BY <1>6, <3>1, G2048Frame DEF Open2048
  <2>2. "2048" \in Games
    BY DEF Games
  <2>3. points \in Nat /\ points' \in Nat
    BY <1>1, <1>2, <1>6 DEF GamesInv, G2048Inv
  <2>. QED BY <1>2, <1>3, <1>6, <2>1, <2>2, <2>3, BestKeeps DEF BestInv
<1>. QED BY <1>2, <1>4, <1>5, <1>6 DEF BestInv, Games

LEMMA BestStarts == AppsInit => BestInv
<1> SUFFICES ASSUME AppsInit PROVE BestInv
  OBVIOUS
<1>1. PrefsInit
  BY DEF AppsInit
<1>2. PrefsFit
  BY <1>1, ParsedFits, PrefsAllowed DEF PrefsInit, PrefsLoaded, PrefsFit
<1>3. PrefsSaved
  BY <1>1 DEF PrefsInit, PrefsLoaded, PrefsSaved
<1>. QED BY <1>2, <1>3 DEF BestInv, PrefsInv

LEMMA BestHolds == SettingsInv /\ BestInv => SettingsTell
<1> SUFFICES ASSUME SettingsInv, BestInv PROVE SettingsTell
  OBVIOUS
<1>1. CASE part = "settings"
  BY <1>1, SettingsFacts DEF SettingsTell
<1>2. CASE part \in Games
  <2>1. SettingsKept /\ part # "settings"
    BY <1>2 DEF BestInv, PrefsInv, PrefsFit, PrefsSaved, SettingsKept, Games
  <2>. QED BY <2>1 DEF SettingsTell
<1>3. CASE part # "settings" /\ part \notin Games
  BY <1>3 DEF SettingsTell, Games
<1>. QED BY <1>1, <1>2, <1>3

(* The games keep count: whatever is played, Tetris's cells and cleared    *)
(* lines are those of its pieces, the snake is a whole one as long as its  *)
(* score says, and 2048's points are what its tiles were merged for; it    *)
(* merges in pairs only, and it is over when nothing moves.                *)
THEOREM GamesKeepCount == AppsSpec => []GamesAddUp
BY GamesStarts, GamesKeep, GamesHold, PTL DEF AppsSpec

(* Settings and best scores: what a restart would load is what is in use,  *)
(* and the LED, the backlight and the language are what was chosen.        *)
THEOREM SettingsTold == AppsSpec => []SettingsTell
<1>1. SettingsInv /\ [AppsNext]_appsVars => SettingsInv'
  BY SettingsKeeps
<1>2. GamesInv /\ GamesInv' /\ BestInv /\ [AppsNext]_appsVars => BestInv'
  BY BestKept
<1>3. AppsInit => SettingsInv
  BY SettingsStarts
<1>. QED BY <1>1, <1>2, <1>3, GamesStarts, GamesKeep, BestStarts, BestHolds, PTL DEF AppsSpec
=============================================================================

------------------------------ MODULE Formulas ------------------------------
(***************************************************************************)
(* apps/common: what an expression means (expr.c) and what the figures of  *)
(* a list of numbers are (stats.c), each against another definition of the *)
(* same.  An expression is typed key by key: digits that follow each other *)
(* are one number, a name that is followed by a letter or a digit becomes  *)
(* an unknown one, and a second * makes **, which is ^.  Its value is the  *)
(* tree of what is computed, in that order; what + does is the C library's.*)
(***************************************************************************)
EXTENDS Integers, Sequences, FiniteSetsExt, SequencesExt

CONSTANTS
  MAX_DEPTH,      \* of expr.c
  MaxTokens,      \* bound: the length of an expression
  MaxSample       \* bound: the length of a list; its numbers are 1, 2, 3

VARIABLES tokens, sample
formulas == <<tokens, sample>>

Keys == {"2", "x", "+", "-", "*", "^", "(", ")", "sin("}
Atoms == {"2", "x"}

TypeKey(k) ==
  LET last == IF tokens = <<>> THEN "" ELSE Last(tokens)
      is(t) == tokens' = Append(Front(tokens), t)
  IN  CASE last = "2" /\ k = "2" -> UNCHANGED tokens
        [] last \in {"x", "?"} /\ k \in Atoms -> is("?")
        [] last \in {"x", "?"} /\ k = "sin(" -> tokens' = Append(Front(tokens), "?") \o <<"(">>
        [] last = "*" /\ k = "*" -> is("^")
        [] OTHER -> tokens' = Append(tokens, k)

-----------------------------------------------------------------------------
(* The parser: where it is, how deep, whether it failed, what it computed. *)
At(ps) == IF ps.at <= Len(tokens) THEN tokens[ps.at] ELSE ""
Past(ps) == [ps EXCEPT !.at = @ + 1]
Fail(ps) == [ps EXCEPT !.ok = FALSE]
Enter(ps) == IF ps.depth + 1 > MAX_DEPTH THEN [Fail(ps) EXCEPT !.deep = TRUE] ELSE [ps EXCEPT !.depth = @ + 1]
Leave(ps) == [ps EXCEPT !.depth = @ - 1]
Gives(ps, v) == [ps EXCEPT !.v = v]

RECURSIVE ParseExpr(_), ParseSum(_), ParseProduct(_), ParseUnary(_), ParsePower(_)

(* parse_primary(): the closing bracket must be there.                     *)
Closed(ps, v) == IF ps.ok /\ At(ps) = ")" THEN Gives(Past(ps), v) ELSE Fail(ps)
ParsePrimary(ps) ==
  CASE At(ps) = "("    -> LET e == ParseExpr(Past(ps)) IN Closed(e, e.v)
    [] At(ps) = "sin(" -> LET e == ParseExpr(Past(ps)) IN Closed(e, <<"sin", e.v>>)
    [] At(ps) \in Atoms -> Gives(Past(ps), <<At(ps)>>)
    [] OTHER -> Fail(ps)

\* mutant: the exponent is not a power itself: 2^3^2 is (2^3)^2
ParsePowerLeft(ps) ==
  LET e == Enter(ps)  b == IF e.ok THEN ParsePrimary(e) ELSE e
      u == IF b.ok /\ At(b) = "^" THEN ParsePrimary(Past(b)) ELSE b
  IN  IF b.ok /\ At(b) = "^" THEN Leave(Gives(u, <<"^", b.v, u.v>>)) ELSE Leave(b)

(* parse_power(), parse_unary()                                            *)
ParsePower(ps) ==
  LET e == Enter(ps)  b == IF e.ok THEN ParsePrimary(e) ELSE e
      u == IF b.ok /\ At(b) = "^" THEN ParseUnary(Past(b)) ELSE b
  IN  IF b.ok /\ At(b) = "^" THEN Leave(Gives(u, <<"^", b.v, u.v>>)) ELSE Leave(b)
ParseUnary(ps) ==
  LET e == Enter(ps)
      u == IF ~e.ok THEN e ELSE IF At(e) \in {"-", "+"} THEN ParseUnary(Past(e)) ELSE ParsePower(e)
  IN  Leave(IF e.ok /\ At(e) = "-" THEN Gives(u, <<"neg", u.v>>) ELSE u)

(* parse_term(): the loop goes on with what stands next to each other.     *)
ParseProduct(ps) ==
  IF ~ps.ok THEN ps
  ELSE CASE At(ps) = "*" -> LET u == ParseUnary(Past(ps)) IN ParseProduct(Gives(u, <<"*", ps.v, u.v>>))
         [] At(ps) \in Atoms \cup {"(", "sin(", "?"} -> LET u == ParsePower(ps) IN ParseProduct(Gives(u, <<"*", ps.v, u.v>>))
         [] OTHER -> ps
ParseTerm(ps) == ParseProduct(ParseUnary(ps))

(* parse_expr() *)
ParseSum(ps) ==
  IF ps.ok /\ At(ps) \in {"+", "-"}
  THEN LET u == ParseTerm(Past(ps)) IN ParseSum(Gives(u, <<At(ps), ps.v, u.v>>))
  ELSE ps
ParseExpr(ps) == LET e == Enter(ps) IN IF e.ok THEN Leave(ParseSum(ParseTerm(e))) ELSE e

(* expr_eval(): all of the text.                                           *)
ParsedAll == ParseExpr([at |-> 1, depth |-> 0, ok |-> TRUE, deep |-> FALSE, v |-> <<>>])
Eval(e) == IF e.ok /\ e.at = Len(tokens) + 1 THEN e.v ELSE <<"error">>

-----------------------------------------------------------------------------
(* stats1(), in halves: twice the median and the quartiles, which are the  *)
(* medians of the halves.                                                  *)
Sorted(s) == SortSeq(s, LAMBDA a, b : a < b)
MedianOf(v, first, n) ==
  IF n % 2 = 1 THEN 2 * v[first + (n \div 2)] ELSE v[first + (n \div 2) - 1] + v[first + (n \div 2)]

\* mutant: the upper half begins with the middle
FiguresMiddle(s) ==
  LET v == Sorted(s)  n == Len(s)  half == n \div 2
  IN  [median |-> MedianOf(v, 1, n), q1 |-> IF n = 1 THEN 2 * v[1] ELSE MedianOf(v, 1, half),
       q3 |-> IF n = 1 THEN 2 * v[1] ELSE MedianOf(v, 1 + half, half)]

Figures(s) ==
  LET v == Sorted(s)  n == Len(s)  half == n \div 2
  IN  [median |-> MedianOf(v, 1, n), q1 |-> IF n = 1 THEN 2 * v[1] ELSE MedianOf(v, 1, half),
       q3 |-> IF n = 1 THEN 2 * v[1] ELSE MedianOf(v, 1 + n - half, half)]

(* draw_box_hist() of the statistics app: Sturges' number of bins, the bin *)
(* of a value, and how high a bin's bar is, at most HIST_HIGH.             *)
HIST_HIGH == 7
Smallest(s) == Min(ToSet(s))
Width(s) == Max(ToSet(s)) - Smallest(s)      \* of all bins together
Bins(s) == Min({k \in 1 .. 11 : 2 ^ (k - 1) >= Len(s)} \cup {12})

\* mutant: the largest value is in a bin of its own
BinOfPast(s, x) == IF Width(s) = 0 THEN 0 ELSE ((x - Smallest(s)) * Bins(s)) \div Width(s)

BinOf(s, x) ==
  LET b == IF Width(s) = 0 THEN 0 ELSE ((x - Smallest(s)) * Bins(s)) \div Width(s)
  IN  IF b >= Bins(s) THEN Bins(s) - 1 ELSE b

Counts(s) ==
  FoldLeft(LAMBDA count, x : [count EXCEPT ![BinOf(s, x)] = @ + 1], [b \in 0 .. Bins(s) - 1 |-> 0], s)
Bars(s) ==
  LET top == Max({1} \cup {Counts(s)[b] : b \in DOMAIN Counts(s)})
  IN  [b \in DOMAIN Counts(s) |-> (Counts(s)[b] * HIST_HIGH) \div top]

(* stats_linreg(): y = ax + b through the points, as fractions; with r^2,  *)
(* or NoR when every y is the same.  Differences from the means are kept   *)
(* times the number of points.                                             *)
NoFit == <<>>
NoR == <<0, 0>>
SumOver(q) == FoldLeft(LAMBDA a, b : a + b, 0, q)

\* mutant: b of the mean of y alone
RegressionFlat(s) ==
  LET n == Len(s)  sx == SumOver([i \in DOMAIN s |-> s[i][1]])  sy == SumOver([i \in DOMAIN s |-> s[i][2]])
      sxx == SumOver([i \in DOMAIN s |-> (n * s[i][1] - sx) * (n * s[i][1] - sx)])
      sxy == SumOver([i \in DOMAIN s |-> (n * s[i][1] - sx) * (n * s[i][2] - sy)])
      syy == SumOver([i \in DOMAIN s |-> (n * s[i][2] - sy) * (n * s[i][2] - sy)])
  IN  IF n < 2 \/ sxx = 0 THEN NoFit
      ELSE [a |-> <<sxy, sxx>>, b |-> <<sy, n>>, r2 |-> IF syy = 0 THEN NoR ELSE <<sxy * sxy, sxx * syy>>]

Regression(s) ==
  LET n == Len(s)  sx == SumOver([i \in DOMAIN s |-> s[i][1]])  sy == SumOver([i \in DOMAIN s |-> s[i][2]])
      sxx == SumOver([i \in DOMAIN s |-> (n * s[i][1] - sx) * (n * s[i][1] - sx)])
      sxy == SumOver([i \in DOMAIN s |-> (n * s[i][1] - sx) * (n * s[i][2] - sy)])
      syy == SumOver([i \in DOMAIN s |-> (n * s[i][2] - sy) * (n * s[i][2] - sy)])
  IN  IF n < 2 \/ sxx = 0 THEN NoFit
      ELSE [a |-> <<sxy, sxx>>, b |-> <<sy * sxx - sxy * sx, n * sxx>>,
            r2 |-> IF syy = 0 THEN NoR ELSE <<sxy * sxy, sxx * syy>>]

-----------------------------------------------------------------------------
FormulasInit == tokens = <<>> /\ sample = <<>>
TypeIt ==
  /\ sample = <<>> /\ Len(tokens) < MaxTokens /\ \E k \in Keys : TypeKey(k)
  /\ UNCHANGED sample
AddIt ==
  /\ tokens = <<>> /\ Len(sample) < MaxSample /\ \E n \in 1 .. 3 : sample' = Append(sample, n)
  /\ UNCHANGED tokens
Anew == (tokens # <<>> \/ sample # <<>>) /\ tokens' = <<>> /\ sample' = <<>>
FormulasStep == TypeIt \/ AddIt \/ Anew

-----------------------------------------------------------------------------
(* What an expression means on paper, read from where it splits instead of *)
(* from left to right: at the last + or - between two operands; else at    *)
(* the last product, written or not; else it is a sign and an operand;     *)
(* else at the first ^; else it is a bracket or an atom.                   *)
Depth(i, j) ==
  Cardinality({k \in i .. j : tokens[k] \in {"(", "sin("}}) - Cardinality({k \in i .. j : tokens[k] = ")"})
Ends(k) == tokens[k] \in Atoms \cup {")", "?"}
Begins(k) == tokens[k] \in Atoms \cup {"(", "sin(", "?"}
Top(i, j, k) == Depth(i, k - 1) = 0
Sums(i, j) == {k \in i + 1 .. j - 1 : Top(i, j, k) /\ tokens[k] \in {"+", "-"} /\ Ends(k - 1)}
Stars(i, j) == {k \in i + 1 .. j - 1 : Top(i, j, k) /\ tokens[k] = "*" /\ Ends(k - 1)}
Gaps(i, j) == {k \in i + 1 .. j : Top(i, j, k) /\ Ends(k - 1) /\ Begins(k)}
Hats(i, j) == {k \in i + 1 .. j - 1 : Top(i, j, k) /\ tokens[k] = "^"}

RECURSIVE Means(_, _)
Both(op, a, b) == IF a = <<"error">> \/ b = <<"error">> THEN <<"error">> ELSE <<op, a, b>>
With(op, a) == IF a = <<"error">> THEN a ELSE IF op = "+" THEN a ELSE <<op, a>>
Means(i, j) ==
  LET products == Stars(i, j) \cup Gaps(i, j)
  IN  IF i > j THEN <<"error">>
      ELSE IF Sums(i, j) # {}
      THEN LET k == Max(Sums(i, j)) IN Both(tokens[k], Means(i, k - 1), Means(k + 1, j))
      ELSE IF products # {}
      THEN LET k == Max(products)
           IN  Both("*", Means(i, k - 1), Means(IF k \in Stars(i, j) THEN k + 1 ELSE k, j))
      ELSE IF tokens[i] \in {"-", "+"}
      THEN With(IF tokens[i] = "-" THEN "neg" ELSE "+", Means(i + 1, j))
      ELSE IF Hats(i, j) # {}
      THEN LET k == Min(Hats(i, j)) IN Both("^", Means(i, k - 1), Means(k + 1, j))
      ELSE IF tokens[i] \in {"(", "sin("} /\ tokens[j] = ")" /\ i < j
      THEN With(IF tokens[i] = "(" THEN "+" ELSE "sin", Means(i + 1, j - 1))
      ELSE IF i = j /\ tokens[i] \in Atoms THEN <<tokens[i]>> ELSE <<"error">>

(* Every expression that can be typed is taken for what it means on paper, *)
(* "-2^2 = -4 and 2^3^2 = 2^9", 1/2x and -2^-2 x included, or is an error  *)
(* when it means nothing; unless it is nested too deeply.                  *)
ParsesRight ==
  LET e == ParsedAll
  IN  IF e.deep THEN ~e.ok ELSE Eval(e) = Means(1, Len(tokens)) /\ (e.ok => e.depth = 0)

(* Half of the values are not above the median and half not below it; no   *)
(* more than a quarter (and the middle) are beyond each of the quartiles,  *)
(* which leave at least that quarter: for an odd and an even number.       *)
FiguresRight ==
  LET s == sample  n == Len(s)  f == Figures(s)
      below(m) == Cardinality({i \in DOMAIN s : 2 * s[i] < m})
      above(m) == Cardinality({i \in DOMAIN s : 2 * s[i] > m})
  IN  n > 0 =>
        /\ 2 * below(f.median) <= n /\ 2 * above(f.median) <= n
        /\ 4 * below(f.q1) <= n /\ 4 * above(f.q3) <= n
        /\ 4 * (n - above(f.q1)) >= n - 1 /\ 4 * (n - below(f.q3)) >= n - 1

(* The parts of the box are in order, every value is counted once, between *)
(* the ends of its bin, and higher bars have more values: the highest is   *)
(* as high as there is room for.                                           *)
HistogramRight ==
  LET s == sample  k == Bins(s)  f == Figures(s)  m == Smallest(s)  h == Bars(s)
      inBin(b, x) == /\ b * Width(s) <= (x - m) * k
                     /\ (x - m) * k < (b + 1) * Width(s) \/ (b = k - 1 /\ x = m + Width(s)) \/ Width(s) = 0
  IN  s # <<>> =>
        /\ 2 * m <= f.q1 /\ f.q1 <= f.median /\ f.median <= f.q3 /\ f.q3 <= 2 * (m + Width(s))
        /\ \A i \in DOMAIN s : BinOf(s, s[i]) \in 0 .. k - 1 /\ inBin(BinOf(s, s[i]), s[i])
        /\ \A b, c \in 0 .. k - 1 : Counts(s)[b] < Counts(s)[c] => h[b] <= h[c]
        /\ \E b \in 0 .. k - 1 : h[b] = HIST_HIGH

(* There is a line when two points differ in x; what it leaves of every y  *)
(* adds up to nothing, on its own and times x, which makes it the one of   *)
(* least squares; and 1 - r^2 is the share of the squares that it leaves.  *)
(* Points are the list's numbers two by two.                               *)
Points2 == [i \in 1 .. Len(sample) \div 2 |-> <<sample[2 * i - 1], sample[2 * i]>>]
LineRight ==
  LET s == Points2  f == Regression(s)  n == Len(s)  sy == SumOver([i \in DOMAIN s |-> s[i][2]])
      left(p) == f.b[2] * p[2] - f.b[1] - n * f.a[1] * p[1]
  IN  /\ (f = NoFit) = (\A i, j \in DOMAIN s : s[i][1] = s[j][1])
      /\ f # NoFit =>
           /\ SumOver([i \in DOMAIN s |-> left(s[i])]) = 0 /\ SumOver([i \in DOMAIN s |-> left(s[i]) * s[i][1]]) = 0
           /\ (f.r2 = NoR) = (\A i, j \in DOMAIN s : s[i][2] = s[j][2])
           /\ f.r2 # NoR =>
                SumOver([i \in DOMAIN s |-> left(s[i]) * left(s[i])]) * n * n * f.r2[2]
                  = (f.r2[2] - f.r2[1]) * f.b[2] * f.b[2] * SumOver([i \in DOMAIN s |-> (n * s[i][2] - sy) * (n * s[i][2] - sy)])
FormulasRight == ParsesRight /\ FiguresRight /\ HistogramRight /\ LineRight
=============================================================================

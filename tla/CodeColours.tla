---------------------------- MODULE CodeColours -----------------------------
(***************************************************************************)
(* apps/text_editor/text_editor.c, draw_code(): a line of Python in        *)
(* colour.  The line is cut into tokens from its start; what lies next to  *)
(* each other in one colour is a run, and a run is drawn as far as it      *)
(* falls in the columns that are visible.                                  *)
(***************************************************************************)
EXTENDS Integers, Sequences, SequencesExt

CONSTANTS
  KEYWORDS, BUILTINS,    \* sets of words
  CODE_COLS,             \* COLS: the columns that are visible
  MaxCode                \* bound: the length of a line

ASSUME CodeSizes == CODE_COLS \in Nat \ {0} /\ KEYWORDS \cap BUILTINS = {}

VARIABLE code

Letters == {"a"}         \* and "_"
Digits == {"1"}
Quotes == {"'", "\""}
Operators == {"+"}
CodeChars == Letters \cup Digits \cup Quotes \cup Operators \cup {"#", "\\", ".", " "}

-----------------------------------------------------------------------------
(* The token that starts at i: where the next one starts, and its colour.  *)
(* Positions are counted from 0, as columns are.                           *)
Char(j) == code[j + 1]
Size == Len(code)
EndOf(j, chars) ==   \* the first position from j on that holds none of chars
  IF \E k \in j .. Size - 1 : Char(k) \notin chars
  THEN CHOOSE k \in j .. Size - 1 : Char(k) \notin chars /\ \A l \in j .. k - 1 : Char(l) \in chars
  ELSE Size
Word(i, j) == SubSeq(code, i + 1, j)

\* mutant: a backslash at the end goes on past the end of the line
StringEndOpen(q, from) ==
  LET end[j \in Nat] == IF j >= Size THEN j ELSE IF Char(j) = q THEN j + 1 ELSE end[j + (IF Char(j) = "\\" THEN 2 ELSE 1)]
  IN  end[from]

StringEnd(q, from) ==
  LET end[j \in Nat] == IF j >= Size THEN Size ELSE IF Char(j) = q THEN j + 1 ELSE end[j + (IF Char(j) = "\\" THEN 2 ELSE 1)]
  IN  end[from]

Token(i) ==
  LET c == Char(i)
      word == EndOf(i + 1, Letters \cup Digits)
  IN  CASE c = "#" -> [to |-> Size, colour |-> "comment"]
        [] c \in Quotes -> [to |-> StringEnd(c, i + 1), colour |-> "string"]
        [] c \in Digits \/ (c = "." /\ i + 1 < Size /\ Char(i + 1) \in Digits) ->
             [to |-> EndOf(i + 1, Letters \cup Digits \cup {"."}), colour |-> "number"]
        [] c \in Letters ->
             [to |-> word, colour |-> IF Word(i, word) \in KEYWORDS THEN "keyword"
                                      ELSE IF Word(i, word) \in BUILTINS THEN "builtin" ELSE "text"]
        [] c \in Operators -> [to |-> i + 1, colour |-> "operator"]
        [] OTHER -> [to |-> i + 1, colour |-> "text"]

Tokens ==
  LET from[i \in Nat] == IF i >= Size THEN <<>> ELSE <<[from |-> i] @@ Token(i)>> \o from[Token(i).to]
  IN  from[0]

-----------------------------------------------------------------------------
(* run_flush(), run_add(): what is drawn is a sequence of pieces.          *)
Larger(x, y) == IF x > y THEN x ELSE y
Smaller(x, y) == IF x < y THEN x ELSE y
RunFlush(r) ==
  LET a == Larger(r.a, r.first)  b == Smaller(r.b, r.first + CODE_COLS)
  IN  [r EXCEPT !.a = r.b,
         !.drawn = IF b > a THEN Append(@, [x |-> a - r.first, from |-> a, to |-> b, colour |-> r.colour]) ELSE @]

RunAdd(r, t) ==
  LET f == IF t.colour # r.colour \/ t.from # r.b THEN [RunFlush(r) EXCEPT !.a = t.from, !.colour = t.colour] ELSE r
  IN  [f EXCEPT !.b = t.to]

DrawCode(first, py) ==
  LET r == [first |-> first, a |-> 0, b |-> 0, colour |-> "text", drawn |-> <<>>]
  IN  RunFlush(FoldLeft(RunAdd, r, IF py THEN Tokens ELSE <<[from |-> 0, to |-> Size, colour |-> "text"]>>)).drawn

-----------------------------------------------------------------------------
CodeInit == code = <<>>
CodeType == Len(code) < MaxCode /\ \E c \in CodeChars : code' = Append(code, c)
CodeAnew == code # <<>> /\ code' = <<>>
CodeStep == CodeType \/ CodeAnew

-----------------------------------------------------------------------------
(* What a character is, from what stands before it, one by one.            *)
Fresh(i) ==
  LET c == Char(i)
  IN  CASE c = "#" -> "comment" [] c = "'" -> "single" [] c = "\"" -> "double"
        [] c \in Digits -> "number" [] c = "." /\ i + 1 < Size /\ Char(i + 1) \in Digits -> "number"
        [] c \in Letters -> "word" [] c \in Operators -> "operator" [] OTHER -> "text"
Escaped == [single |-> "single\\", double |-> "double\\"]
InText(m) == m \in {"single", "double", "single\\", "double\\"}
After(m, i) ==
  CASE m = "comment" -> m
    [] m \in {"single", "double"} ->
         IF Char(i) = "\\" THEN Escaped[m] ELSE IF Char(i) = (IF m = "single" THEN "'" ELSE "\"") THEN "closed" ELSE m
    [] m = "single\\" -> "single" [] m = "double\\" -> "double"
    [] m = "number" /\ Char(i) \in Letters \cup Digits \cup {"."} -> m
    [] m = "word" /\ Char(i) \in Letters \cup Digits -> m
    [] OTHER -> Fresh(i)
ModeAt(i) == FoldLeft(After, "text", [k \in 1 .. i + 1 |-> k - 1])
WordAround(i) ==
  LET from == CHOOSE a \in 0 .. i : (\A k \in a .. i : ModeAt(k) = "word") /\ (a = 0 \/ ModeAt(a - 1) # "word")
      to == CHOOSE b \in i .. Size - 1 : (\A k \in i .. b : ModeAt(k) = "word") /\ (b = Size - 1 \/ ModeAt(b + 1) # "word")
  IN  Word(from, to + 1)
ColourOf(i) ==
  LET m == ModeAt(i)
  IN  CASE InText(m) \/ m = "closed" -> "string"
        [] m = "word" -> IF WordAround(i) \in KEYWORDS THEN "keyword" ELSE IF WordAround(i) \in BUILTINS THEN "builtin" ELSE "text"
        [] OTHER -> m

(* Every column that is visible is drawn once, at its place and in the     *)
(* colour of what it is part of, however far the line is scrolled; nothing *)
(* past the end of the line is.                                            *)
CodeShown ==
  \A first \in 0 .. MaxCode, py \in BOOLEAN :
    LET d == DrawCode(first, py)
    IN  /\ \A c \in 0 .. CODE_COLS - 1 :
             LET pieces == {k \in DOMAIN d : d[k].x <= c /\ c < d[k].x + d[k].to - d[k].from}
             IN  IF first + c >= Size THEN pieces = {}
                 ELSE \E k \in pieces : /\ pieces = {k} /\ d[k].from - d[k].x = first
                                        /\ d[k].colour = IF py THEN ColourOf(first + c) ELSE "text"
        /\ \A k \in DOMAIN d : d[k].to <= Size
=============================================================================

----------------------------- MODULE PythonApp ------------------------------
(***************************************************************************)
(* apps/python_app/python_app.c: a line that is typed, lines that make a   *)
(* block, and the modules that were imported.  A line is a sequence of     *)
(* " ", ":" and "x"; whether a block is complete is MicroPython's choice.  *)
(***************************************************************************)
EXTENDS AppState, SequencesExt

CONSTANTS LINE_MAX, BLOCK_MAX, INDENT

ASSUME PythonSizes == {LINE_MAX, BLOCK_MAX, INDENT} \subseteq Nat \ {0}

VARIABLES
  pyLine, pyLast,      \* s_line, s_last
  block, continuing,   \* s_block as lines, s_cont
  echoed,              \* history: the lines on the screen from the last ">>> " on, blank ones as <<>>
  wentAway,            \* s_left
  cached               \* modules in memory: "none", "fresh", or "old": imported before the app was left

python == <<pyLine, pyLast, block, continuing, echoed, wentAway, cached>>

-----------------------------------------------------------------------------
Blank(s) == \A i \in DOMAIN s : s[i] = " "
Spaces(n) == [i \in 1 .. n |-> " "]
(* next_indent(): that of the line before, deeper after a colon.           *)
IndentOf(s) == CHOOSE n \in 0 .. Len(s) : (\A i \in 1 .. n : s[i] = " ") /\ (n = Len(s) \/ s[n + 1] # " ")
EndsInColon(s) == \E i \in DOMAIN s : s[i] = ":" /\ \A j \in i + 1 .. Len(s) : s[j] = " "
NextIndent(s) ==
  LET n == IndentOf(s) + (IF EndsInColon(s) THEN INDENT ELSE 0) IN IF n < LINE_MAX - 1 THEN n ELSE LINE_MAX - 1

(* The length of s_block: the lines, joined by newlines.                   *)
BlockLen(b) ==
  LET len[i \in 0 .. Len(b)] ==
        IF i = 0 THEN 0 ELSE len[i - 1] + (IF i = 1 THEN 0 ELSE 1) + Len(b[i])
  IN  len[Len(b)]

InPython == app = "python" /\ UNCHANGED <<app, files, redraw, prefsVars>>

PyType ==
  /\ InPython /\ Len(pyLine) < LINE_MAX - 1 /\ \E c \in {" ", ":", "x"} : pyLine' = Append(pyLine, c)
  /\ UNCHANGED <<pyLast, block, continuing, echoed, wentAway, cached>>

(* BACKSPACE takes a whole level of indentation away.                      *)
PyErase ==
  /\ InPython /\ pyLine # <<>>
  /\ pyLine' = SubSeq(pyLine, 1, IF Blank(pyLine) THEN ((Len(pyLine) - 1) \div INDENT) * INDENT ELSE Len(pyLine) - 1)
  /\ UNCHANGED <<pyLast, block, continuing, echoed, wentAway, cached>>

PyRecall == InPython /\ pyLine' = pyLast /\ UNCHANGED <<pyLast, block, continuing, echoed, wentAway, cached>>

-----------------------------------------------------------------------------
(* enter_line().  A line is written on the screen before it is known       *)
(* whether there is room for it.                                           *)
Entered == IF Blank(pyLine) THEN <<>> ELSE pyLine
Enters == InPython /\ (continuing \/ ~Blank(pyLine)) /\ pyLast' = IF Blank(pyLine) THEN pyLast ELSE pyLine
Whole == IF continuing THEN Append(block, Entered) ELSE <<Entered>>
FitsBlock == BlockLen(block) + (IF continuing THEN 1 ELSE 0) + Len(Entered) < BLOCK_MAX

\* mutant: the lines stay, and the next line goes on with them
PyTooLongKeeps ==
  /\ Enters /\ ~FitsBlock /\ continuing' = FALSE /\ pyLine' = <<>> /\ echoed' = <<>>
  /\ UNCHANGED <<block, wentAway, cached>>

PyTooLong ==
  /\ Enters /\ ~FitsBlock /\ block' = <<>> /\ continuing' = FALSE /\ pyLine' = <<>> /\ echoed' = <<>>
  /\ UNCHANGED <<wentAway, cached>>

PyContinue ==
  /\ Enters /\ FitsBlock /\ block' = Whole /\ continuing' = TRUE /\ pyLine' = Spaces(NextIndent(Entered))
  /\ echoed' = Append(echoed, Entered) /\ UNCHANGED <<wentAway, cached>>

(* run_block(): mp_forget_imports() first when the app was left; the code  *)
(* may import.                                                             *)
PyRun ==
  /\ Enters /\ FitsBlock /\ block' = <<>> /\ continuing' = FALSE /\ pyLine' = <<>> /\ echoed' = <<>>
  /\ wentAway' = FALSE
  /\ LET kept0 == IF wentAway THEN "none" ELSE cached
     IN  cached' \in {kept0, IF kept0 = "none" THEN "fresh" ELSE kept0}

\* mutant: only BACK says so
PyLeaveBack ==
  /\ app = "python" /\ app' = "home" /\ wentAway' \in {wentAway, TRUE}
  /\ cached' = (IF cached = "none" THEN "none" ELSE "old")
  /\ UNCHANGED <<files, redraw, prefsVars, pyLine, pyLast, block, continuing, echoed>>

(* HOME, BACK.  Files are closed then: module PythonFiles.                 *)
PyLeave ==
  /\ app = "python" /\ app' = "home" /\ wentAway' = TRUE /\ cached' = (IF cached = "none" THEN "none" ELSE "old")
  /\ UNCHANGED <<files, redraw, prefsVars, pyLine, pyLast, block, continuing, echoed>>

PyInit ==
  /\ pyLine = <<>> /\ pyLast = <<>> /\ block = <<>> /\ continuing = FALSE /\ echoed = <<>>
  /\ wentAway = FALSE /\ cached = "none"

PyStep == PyType \/ PyErase \/ PyRecall \/ PyTooLong \/ PyContinue \/ PyRun \/ PyLeave

-----------------------------------------------------------------------------
(* The block that will run is the lines on the screen since the last       *)
(* ">>> ", also after one that was too long and after the app was left and *)
(* opened again; it fits; and a module imported before the app was left is *)
(* read again before anything uses it.                                     *)
RunsWhatIsShown ==
  /\ block = echoed /\ (continuing <=> block # <<>>) /\ BlockLen(block) < BLOCK_MAX
  /\ Len(pyLine) < LINE_MAX
  /\ cached = "old" => wentAway
=============================================================================

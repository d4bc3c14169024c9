-------------------------------- MODULE Shell --------------------------------
(***************************************************************************)
(* shell/shell.c: the ring of printed lines, the line that is typed on the *)
(* keypad or over the UART (hal/uart.c), the ring of commands, and what of *)
(* these is on the screen.  A command (shell/commands.c) prints, changes a *)
(* file, or switches to another app; which word does what is data.         *)
(***************************************************************************)
EXTENDS AppState, SequencesExt

CONSTANTS
  SHELL_ROWS, SHELL_COLS,          \* ROWS and COLS of shell.c
  SHELL_LINE_LEN, SHELL_HISTORY,
  LineLimit,                       \* 1000000: s_nlines starts again
  RX_BUF,                          \* of uart.c
  Typeable, Newline, Prompt,       \* characters
  Outputs                          \* what is printed: sequences of characters

ASSUME ShellSizes ==
  /\ {SHELL_ROWS, SHELL_COLS, SHELL_HISTORY} \subseteq Nat \ {0}
  /\ Outputs \subseteq Seq(UNION {Range(t) : t \in Outputs})

VARIABLES
  ring,                     \* s_lines and s_nlines
  cmdInput, mods,              \* s_input; s_shift
  cmdHist, head, count, pos,   \* s_hist, s_hist_head, s_hist_cnt, s_hist_pos
  dirty,                    \* s_dirty
  screen,                   \* what was drawn last, or <<>> for another app
  rx, serial,               \* the ring of uart.c; shell_tick() is in its loop
  said, ran                 \* history: the last lines printed, the last commands

typing == <<cmdInput, mods>>
commands == <<cmdHist, head, count, pos, ran>>
shell == <<ring, typing, commands, dirty, screen, rx, serial, said>>

-----------------------------------------------------------------------------
(* shell_puts(): a line that is full ends, and a newline right after it is *)
(* part of that end.                                                       *)

\* mutant: the count starts again as if nothing had been printed
NextLineZero(r) ==
  LET n == IF r.n + 1 > LineLimit THEN (r.n + 1) % SHELL_ROWS ELSE r.n + 1
  IN  [n |-> n, lines |-> [r.lines EXCEPT ![n % SHELL_ROWS] = <<>>]]

NextLine(r) ==
  LET n == IF r.n + 1 > LineLimit THEN SHELL_ROWS + ((r.n + 1) % SHELL_ROWS) ELSE r.n + 1
  IN  [n |-> n, lines |-> [r.lines EXCEPT ![n % SHELL_ROWS] = <<>>]]

Put(s, c) ==
  LET row == s.ring.n % SHELL_ROWS
      r   == [s.ring EXCEPT !.lines[row] = Append(@, c)]
  IN  IF c = Newline THEN [ring |-> IF s.full THEN s.ring ELSE NextLine(s.ring), full |-> FALSE]
      ELSE IF Len(r.lines[row]) >= SHELL_COLS THEN [ring |-> NextLine(r), full |-> TRUE]
      ELSE [ring |-> r, full |-> FALSE]
Printed(r, t) ==
  LET at[i \in 0 .. Len(t)] == IF i = 0 THEN [ring |-> r, full |-> FALSE] ELSE Put(at[i - 1], t[i])
  IN  at[Len(t)].ring

(* The same text on paper, of which the last SHELL_ROWS lines are kept.    *)
Feed(p) == Append(IF Len(p) < SHELL_ROWS THEN p ELSE Tail(p), <<>>)
PutOnPaper(s, c) ==
  LET p == [s.paper EXCEPT ![Len(s.paper)] = Append(@, c)]
  IN  IF c = Newline THEN [paper |-> IF s.full THEN s.paper ELSE Feed(s.paper), full |-> FALSE]
      ELSE IF Len(Last(p)) = SHELL_COLS THEN [paper |-> Feed(p), full |-> TRUE]
      ELSE [paper |-> p, full |-> FALSE]
OnPaper(p, t) ==
  LET at[i \in 0 .. Len(t)] == IF i = 0 THEN [paper |-> p, full |-> FALSE] ELSE PutOnPaper(at[i - 1], t[i])
  IN  at[Len(t)].paper

Puts(t) == ring' = Printed(ring, t) /\ said' = OnPaper(said, t)

(* draw_output(): the last rows, the line that is printed at the bottom.   *)
ScreenRows(r) ==
  [i \in 1 .. SHELL_ROWS |->
     LET l == r.n - SHELL_ROWS + i IN IF l >= 0 THEN r.lines[l % SHELL_ROWS] ELSE <<>>]
Drawn(r, i, m) == [rows |-> ScreenRows(r), cmdInput |-> i, mods |-> m]

\* mutant: only what this key or character changed
RefreshNew(set) ==
  /\ dirty' = (set /\ app' # "shell")
  /\ screen' = IF app' # "shell" THEN <<>> ELSE IF set THEN Drawn(ring', cmdInput', mods') ELSE screen

(* refresh(), after what set s_dirty, or did not: nothing is drawn then,   *)
(* also where the title has changed.                                       *)
Refresh(set) ==
  LET changed == dirty \/ set
  IN  /\ dirty' = (changed /\ app' # "shell")
      /\ screen' = IF app' # "shell" THEN <<>> ELSE IF changed THEN Drawn(ring', cmdInput', mods') ELSE screen

-----------------------------------------------------------------------------
(* execute(): echo, history, the command itself, an empty line again.      *)
(* shell_puts() asks the kernel for a redraw while the shell is shown.     *)

Remembered ==
  /\ cmdHist' = [cmdHist EXCEPT ![head] = cmdInput] /\ head' = (head + 1) % SHELL_HISTORY
  /\ count' = (IF count < SHELL_HISTORY THEN count + 1 ELSE count) /\ pos' = -1
  /\ ran' = SubSeq(<<cmdInput>> \o ran, 1, IF Len(ran) < SHELL_HISTORY THEN Len(ran) + 1 ELSE SHELL_HISTORY)

TouchOrRm == \E n \in Names : files' = [files EXCEPT ![n] = IF @ = NoFile THEN <<>> ELSE NoFile]
Execute ==
  IF cmdInput = <<>> THEN UNCHANGED <<files, app, ring, said, cmdInput, commands, redraw>>
  ELSE /\ Remembered /\ cmdInput' = <<>> /\ redraw' = TRUE
       /\ \E t \in Outputs : Puts(<<Prompt>> \o cmdInput \o <<Newline>> \o t)
       /\ \/ UNCHANGED <<files, app>>
          \/ TouchOrRm /\ UNCHANGED app
          \/ app' = "files" /\ UNCHANGED files

-----------------------------------------------------------------------------
(* shell_handle_event()                                                    *)
ShellKey == app = "shell" /\ ~serial /\ UNCHANGED <<prefsVars, rx, serial>>
Quiet == UNCHANGED <<files, app, redraw, ring, said>>

ShellExe == ShellKey /\ Execute /\ mods' = FALSE /\ Refresh(cmdInput # <<>>)

ShellMods == ShellKey /\ Quiet /\ mods' = ~mods /\ UNCHANGED <<cmdInput, commands>> /\ Refresh(TRUE)

ShellErase ==
  /\ ShellKey /\ Quiet /\ cmdInput' = (IF cmdInput = <<>> THEN cmdInput ELSE Front(cmdInput))
  /\ UNCHANGED <<mods, commands>> /\ Refresh(TRUE)

\* mutant: one further back
RecalledNext(p) == cmdHist[((head - 2 - p) + SHELL_HISTORY) % SHELL_HISTORY]

(* UP: the commands from the last one back, and again.                     *)
Recalled(p) == cmdHist[((head - 1 - p) + SHELL_HISTORY) % SHELL_HISTORY]
ShellUp ==
  /\ ShellKey /\ Quiet /\ count > 0
  /\ pos' = (pos + 1) % count /\ cmdInput' = Recalled(pos')
  /\ UNCHANGED <<mods, cmdHist, head, count, ran>> /\ Refresh(TRUE)

LineRoom == Len(cmdInput) < SHELL_LINE_LEN
Typed(c) == cmdInput' = IF LineRoom THEN Append(cmdInput, c) ELSE cmdInput
ShellType ==
  /\ ShellKey /\ Quiet /\ (\E c \in Typeable : Typed(c)) /\ UNCHANGED <<mods, commands>> /\ Refresh(LineRoom)

ShellHome ==
  /\ ShellKey /\ app' = "home" /\ screen' = <<>>
  /\ UNCHANGED <<files, redraw, ring, said, typing, commands, dirty>>

-----------------------------------------------------------------------------
(* USART6_IRQHandler(): a character that finds the ring full is dropped.   *)
Receive ==
  /\ Len(rx) < RX_BUF - 1 /\ \E c \in Typeable \cup {Newline, "erase"} : rx' = Append(rx, c)
  /\ UNCHANGED <<files, app, redraw, prefsVars, ring, typing, commands, dirty, screen, serial, said>>

(* shell_tick(), a character at a time; the screen waits for the last one, *)
(* and the rest of the ring for the shell, when a command leaves it.       *)
ShellTick ==
  /\ app = "shell" /\ rx # <<>> /\ rx' = Tail(rx)
  /\ CASE Head(rx) = Newline -> Execute
       [] Head(rx) = "erase" -> Quiet /\ cmdInput' = (IF cmdInput = <<>> THEN cmdInput ELSE Front(cmdInput)) /\ UNCHANGED commands
       [] OTHER -> Quiet /\ Typed(Head(rx)) /\ UNCHANGED commands
  /\ dirty' = TRUE /\ serial' = (app' = "shell")
  /\ screen' = (IF app' = "shell" THEN screen ELSE <<>>)
  /\ UNCHANGED <<prefsVars, mods>>
ShellTicked ==
  /\ serial /\ rx = <<>> /\ serial' = FALSE
  /\ Quiet /\ UNCHANGED <<prefsVars, rx, typing, commands>> /\ Refresh(FALSE)

(* Python and others print while another app is shown: no redraw.          *)
PrintAway ==
  /\ app # "shell" /\ (\E t \in Outputs : Puts(t)) /\ dirty' = TRUE
  /\ UNCHANGED <<files, app, redraw, prefsVars, typing, commands, screen, rx, serial>>

(* shell_redraw(): the kernel, on entering and for a redraw that was asked.*)
ShellShown ==
  /\ screen' = Drawn(ring, cmdInput, mods) /\ dirty' = FALSE /\ UNCHANGED <<ring, typing, commands, rx, serial, said>>
ShellRedraw ==
  /\ app = "shell" /\ redraw /\ ~serial /\ redraw' = FALSE /\ ShellShown /\ UNCHANGED <<files, app, prefsVars>>

ShellInit ==
  /\ ring = [n |-> 0, lines |-> [r \in 0 .. SHELL_ROWS - 1 |-> <<>>]] /\ said = <<<<>>>>
  /\ cmdInput = <<>> /\ mods = FALSE /\ cmdHist = [h \in 0 .. SHELL_HISTORY - 1 |-> <<>>]
  /\ head = 0 /\ count = 0 /\ pos = -1 /\ ran = <<>>
  /\ dirty = FALSE /\ screen = <<>> /\ rx = <<>> /\ serial = FALSE

ShellStep ==
  \/ ShellExe \/ ShellMods \/ ShellErase \/ ShellUp \/ ShellType \/ ShellHome
  \/ Receive \/ ShellTick \/ ShellTicked \/ PrintAway \/ ShellRedraw

-----------------------------------------------------------------------------
(* The ring of lines, also after its count starts again, holds the last    *)
(* lines of all that was printed, in their order, and they are what the    *)
(* shell's screen shows once its loop is done, with the line as typed:     *)
(* whether keys, serial characters, or other apps brought them.  The title *)
(* never hides a SHIFT or ALPHA that is on; it may show one that is off,   *)
(* after EXE on an empty line, until the next thing that is drawn.         *)
ShellTells ==
  /\ LET r == ScreenRows(ring) IN \A i \in 0 .. Len(said) - 1 : r[SHELL_ROWS - i] = said[Len(said) - i]
  /\ app = "shell" /\ ~serial =>
       screen.rows = ScreenRows(ring) /\ screen.cmdInput = cmdInput /\ (mods => screen.mods)

(* UP gives the commands that ran last, the latest first, and none that    *)
(* did not run, however the ring of commands has turned.                   *)
ShellRecalls ==
  /\ count = Len(ran) /\ \A p \in 0 .. count - 1 : Recalled(p) = ran[p + 1]
  /\ pos \in -1 .. count - 1
=============================================================================

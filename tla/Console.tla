------------------------------ MODULE Console -------------------------------
(***************************************************************************)
(* micropython-port/mp_port.c: what a script that runs and its user see of *)
(* each other.  Output goes to the app's lines at once, and from there to  *)
(* the screen at most every SHOW_MS; keys are looked at every POLL_MS, and *)
(* BACK stops the script; input() takes a line (module LineInput); what    *)
(* the script drew stays until a key is pressed.  Output is counted in     *)
(* pieces, of which the first is the app's own echo.                       *)
(***************************************************************************)
EXTENDS Integers, Sequences

CONSTANTS
  SHOW_MS, POLL_MS,     \* in units of time in which the VM calls nwos_mp_poll() at least once
  KBD_ROOM,             \* the size of the keyboard's queue
  MaxOut                \* bound: pieces of output of a script

ASSUME ConsoleTimes == {SHOW_MS, POLL_MS, KBD_ROOM} \subseteq Nat \ {0}

VARIABLES
  script,               \* "none", "running", "sleeping", "reading", "pausing"
  written,              \* what the app's lines hold
  pending, graphics,    \* s_pending, s_graphics
  sinceShow, sincePoll, \* the time since s_last_show, and since the keys were looked at
  looked,               \* nwos_mp_poll() was called in this unit of time
  pressed,              \* the keyboard's queue
  interrupt,                 \* a KeyboardInterrupt is scheduled
  seen,                 \* on the screen: pieces of output, or Drawing
  told,                 \* history: what was written when the script printed last
  late, backFor,        \* history: the time that output was not on the screen, that BACK was not seen
  asked                 \* history: input() was called since the script drew last

console ==
  <<script, written, pending, graphics, sinceShow, sincePoll, looked, pressed, interrupt, seen, told, late, backFor, asked>>

Drawing == -1

-----------------------------------------------------------------------------
(* show_output(), with out to be shown, drawn over or not.                 *)

\* mutant: output that comes too soon after the last is taken for shown
ShowOutputForgets(owed, force, out) ==
  /\ pending' = (owed /\ graphics)
  /\ IF ~owed \/ graphics \/ (~force /\ sinceShow < SHOW_MS) THEN UNCHANGED <<seen, sinceShow>>
     ELSE seen' = out /\ sinceShow' = 0

ShowOutput(owed, force, out) ==
  IF ~owed \/ graphics \/ (~force /\ sinceShow < SHOW_MS) THEN pending' = owed /\ UNCHANGED <<seen, sinceShow>>
  ELSE pending' = FALSE /\ seen' = out /\ sinceShow' = 0

(* begin_run(), from the Python app or the shell.                           *)
ScriptBegins ==
  /\ script = "none" /\ script' = "running" /\ graphics' = FALSE /\ pending' = FALSE
  /\ sinceShow' = SHOW_MS /\ written' = 1 /\ seen' = 0 /\ told' = 0 /\ late' = 0 /\ backFor' = 0
  /\ interrupt' = FALSE /\ looked' = FALSE /\ asked' = FALSE /\ UNCHANGED <<sincePoll, pressed>>

InScript(at) == script \in at /\ UNCHANGED backFor

(* (history)                                                               *)
Lateness == late' = IF ~graphics /\ seen' >= told' THEN 0 ELSE late

(* out_strn() *)
ScriptPrints ==
  /\ InScript({"running"}) /\ written < MaxOut /\ written' = written + 1 /\ told' = written'
  /\ ShowOutput(TRUE, FALSE, written') /\ Lateness
  /\ UNCHANGED <<script, graphics, sincePoll, looked, pressed, interrupt, asked>>

(* nwos_mp_display_used(), and what is drawn.                              *)
ScriptDraws ==
  /\ InScript({"running"}) /\ graphics' = TRUE /\ seen' = Drawing /\ asked' = FALSE
  /\ UNCHANGED <<script, written, pending, sinceShow, sincePoll, looked, pressed, interrupt, told, late>>

(* nwos_mp_poll(), from the VM's loop or while the script sleeps.          *)
Poll ==
  /\ script \in {"running", "sleeping"} /\ looked' = TRUE
  /\ UNCHANGED <<script, written, graphics, told, asked>>
  /\ IF sincePoll < POLL_MS THEN UNCHANGED <<sincePoll, pressed, interrupt, pending, sinceShow, seen, late, backFor>>
     ELSE /\ sincePoll' = 0 /\ pressed' = <<>> /\ backFor' = 0
          /\ interrupt' = (interrupt \/ \E i \in DOMAIN pressed : pressed[i] = "back")
          /\ ShowOutput(pending, FALSE, written) /\ Lateness

(* time.sleep(): nwos_mp_wait_ms()                                         *)
ScriptSleeps ==
  /\ InScript({"running"}) /\ script' = "sleeping" /\ ShowOutput(pending, TRUE, written)
  /\ UNCHANGED <<written, graphics, sincePoll, looked, pressed, interrupt, told, asked>> /\ Lateness
ScriptWakes ==
  /\ InScript({"sleeping"}) /\ script' = "running"
  /\ UNCHANGED <<written, pending, graphics, sinceShow, sincePoll, looked, pressed, interrupt, seen, told, late, asked>>

-----------------------------------------------------------------------------
(* readline(): the prompt, the output so far, and line_input(), which      *)
(* draws the output with every line.                                       *)
ScriptAsks ==
  /\ InScript({"running"}) /\ written < MaxOut /\ script' = "reading" /\ asked' = TRUE
  /\ \E prompt \in BOOLEAN :
       /\ written' = (IF prompt THEN written + 1 ELSE written) /\ told' = (IF prompt THEN written' ELSE told)
       /\ pending' = (graphics /\ (pending \/ prompt))
       /\ sinceShow' = IF graphics \/ ~(pending \/ prompt) THEN sinceShow ELSE 0
  /\ seen' = written' /\ late' = 0 /\ UNCHANGED <<graphics, sincePoll, looked, pressed, interrupt>>

(* A key of the line; BACK or HOME ends it, EXE may.                       *)
LineKey ==
  /\ InScript({"reading"}) /\ pressed # <<>> /\ Head(pressed) # "back" /\ pressed' = Tail(pressed)
  /\ UNCHANGED <<script, written, pending, graphics, sinceShow, sincePoll, looked, interrupt, seen, told, late, asked>>

(* The echo of the line, and the newline; without a line, after BACK or a   *)
(* Ctrl-C from the serial port, a KeyboardInterrupt.                       *)
LineEnds ==
  /\ script = "reading" /\ script' = "running"
  /\ \/ UNCHANGED pressed /\ interrupt' \in {interrupt, TRUE}
     \/ /\ pressed # <<>> /\ pressed' = Tail(pressed)
        /\ interrupt' = (interrupt \/ Head(pressed) = "back")
  /\ backFor' = 0 /\ written' = written + 1 /\ told' = written' /\ ShowOutput(TRUE, FALSE, written') /\ Lateness
  /\ looked' = FALSE /\ UNCHANGED <<graphics, sincePoll, asked>>

-----------------------------------------------------------------------------
(* The end of run_block() or cmd_run_script(): with a note when a file     *)
(* could not be saved; mp_pause_after_graphics(); the app draws itself.    *)
ScriptEnds ==
  /\ InScript({"running"})
  /\ \E note \in 0 .. 1 : written' = written + note
  /\ IF graphics THEN script' = "pausing" /\ UNCHANGED seen ELSE script' = "none" /\ seen' = written'
  /\ graphics' = FALSE /\ interrupt' = FALSE /\ late' = 0 /\ told' = written'
  /\ UNCHANGED <<pending, sinceShow, sincePoll, looked, pressed, asked>>

(* A KeyboardInterrupt, which the script may catch.                        *)
Interrupted ==
  /\ InScript({"running", "sleeping"}) /\ interrupt /\ interrupt' = FALSE /\ script' = "running"
  /\ UNCHANGED <<written, pending, graphics, sinceShow, sincePoll, looked, pressed, seen, told, late, asked>>

PauseEnds ==
  /\ InScript({"pausing"}) /\ pressed # <<>> /\ pressed' = Tail(pressed) /\ script' = "none" /\ seen' = written
  /\ UNCHANGED <<written, pending, graphics, sinceShow, sincePoll, looked, interrupt, told, late, asked>>

-----------------------------------------------------------------------------
PressKey ==
  /\ script # "none" /\ Len(pressed) < KBD_ROOM /\ \E k \in {"back", "other"} : pressed' = Append(pressed, k)
  /\ UNCHANGED <<script, written, pending, graphics, sinceShow, sincePoll, looked, interrupt, seen, told, late, backFor, asked>>

(* The app gets the keys that are left.                                    *)
AppKey ==
  /\ script = "none" /\ pressed # <<>> /\ pressed' = Tail(pressed)
  /\ UNCHANGED <<script, written, pending, graphics, sinceShow, sincePoll, looked, interrupt, seen, told, late, backFor, asked>>

UpTo(t, most) == IF t < most THEN t + 1 ELSE t
(* A unit of time.  A script that runs or sleeps has polled in it; the     *)
(* line and the pause look at the keys all the time.                       *)
TimePasses ==
  /\ script \in {"running", "sleeping"} => looked
  /\ script \in {"reading", "pausing"} => pressed = <<>>
  /\ looked' = FALSE /\ sinceShow' = UpTo(sinceShow, SHOW_MS) /\ sincePoll' = UpTo(sincePoll, POLL_MS)
  /\ late' = (IF script \in {"running", "sleeping"} /\ ~graphics /\ seen < told THEN UpTo(late, SHOW_MS + POLL_MS) ELSE late)
  /\ backFor' = (IF script \in {"running", "sleeping"} /\ \E i \in DOMAIN pressed : pressed[i] = "back" THEN UpTo(backFor, POLL_MS + 1) ELSE backFor)
  /\ UNCHANGED <<script, written, pending, graphics, pressed, interrupt, seen, told, asked>>

ConsoleInit ==
  /\ script = "none" /\ written = 0 /\ pending = FALSE /\ graphics = FALSE /\ sinceShow = 0 /\ sincePoll = 0
  /\ looked = FALSE /\ pressed = <<>> /\ interrupt = FALSE /\ seen = 0 /\ told = 0 /\ late = 0 /\ backFor = 0 /\ asked = FALSE

ConsoleStep ==
  \/ ScriptBegins \/ ScriptPrints \/ ScriptDraws \/ Poll \/ ScriptSleeps \/ ScriptWakes
  \/ ScriptAsks \/ LineKey \/ LineEnds \/ ScriptEnds \/ Interrupted \/ PauseEnds
  \/ PressKey \/ AppKey \/ TimePasses

-----------------------------------------------------------------------------
(* What a script prints is on the screen within SHOW_MS and a poll, and    *)
(* before the script sleeps or waits for a line, unless it draws; what it  *)
(* draws is not printed over, and stays until a key is pressed; BACK is    *)
(* seen within POLL_MS; and in the end all that was printed is there.      *)
ConsoleTells ==
  /\ late < SHOW_MS + POLL_MS /\ backFor <= POLL_MS
  /\ script = "sleeping" /\ ~graphics => seen >= told
  /\ script = "reading" \/ script = "none" => seen = written
  /\ (graphics \/ script = "pausing") /\ ~asked => seen = Drawing
=============================================================================

-------------------------------- MODULE Kernel --------------------------------
(***************************************************************************)
(* kernel/kernel.c over the keyboard driver: the tasks for input and for   *)
(* the apps with the event queue between them, sleeping and waking, and    *)
(* what sleeping switches off: clocks (hal/clocks.c), SysTick's period     *)
(* (hal/hal.c), panel, LED and backlight (hal/backlight.c).  The order in  *)
(* which the tasks run is the scheduler's (module Scheduler): any.         *)
(***************************************************************************)
EXTENDS Keyboard

CONSTANTS
  OnOff,       \* KEY_ONOFF
  EvtQueue,    \* EVT_QUEUE_SIZE
  Levels       \* LEVELS of the backlight

ASSUME KernelSizes == OnOff \in Keys /\ EvtQueue \in Nat \ {0} /\ Levels \in Nat \ {0}

VARIABLES
  pc,             \* where the main loop is
  back,           \* power_sleep(): where it returns to in task_input()
  woken,          \* power_sleep(): wake
  evq,            \* how many events are in s_evq
  redraw,         \* s_redraw_pending
  idle,           \* AUTO_SLEEP_MS have passed since s_last_input
  vbus, low,      \* battery_usb_powered(); power_sleep(): low
  clk, tick,      \* the core's clock; SysTick: its period, and the clock it counts for
  parts,          \* what has power: a subset of {"panel", "led"}
  light,          \* the backlight: on, level, wanted, and the chip's own level
  grace           \* history: just woken: no ON/OFF, no AUTO_SLEEP_MS since

power == <<vbus, low, clk, tick, parts, light>>
vars == <<contact, state, debounce, anyDown, any, row, due, buf, rep, boot, steady, told, lost,
          pc, back, woken, evq, redraw, idle, vbus, low, clk, tick, parts, light, grace>>

Period(ms, c) == [ms |-> ms, clk |-> c]
Awake == pc \in {"loop", "input", "check", "shell"}

-----------------------------------------------------------------------------
(* hal/backlight.c: the chip cannot be read back, only stepped down.       *)

Pulses(level, wanted) ==
  IF level >= wanted THEN level - wanted ELSE Levels + level - wanted

(* apply() *)
Applied(l) ==
  [l EXCEPT !.chip = (l.chip - Pulses(l.level, l.wanted) + Levels) % Levels, !.level = l.wanted]

SetLevel(l, w) == IF l.on THEN Applied([l EXCEPT !.wanted = w]) ELSE [l EXCEPT !.wanted = w]

\* mutant: the count goes on where it was
LightOnGoesOn(l) == Applied([l EXCEPT !.on = TRUE, !.chip = Levels - 1])

(* backlight_power(): switched on, the chip starts at its brightest.       *)
LightOn(l) ==
  IF l.on THEN l ELSE Applied([l EXCEPT !.on = TRUE, !.chip = Levels - 1, !.level = Levels - 1])
LightOff(l) == [l EXCEPT !.on = FALSE, !.chip = 0]

-----------------------------------------------------------------------------
(* Tasks.  An event that finds the queue full is dropped.                  *)

Posted == IF evq = EvtQueue - 1 THEN evq ELSE evq + 1

Start(task) ==
  /\ pc = "loop" /\ EndOfBoot /\ pc' = task
  /\ UNCHANGED <<kbd, back, woken, evq, redraw, idle, power, grace>>

PowerSleep(return) ==
  /\ pc' = "sleep" /\ back' = return
  /\ light' = LightOff(light) /\ parts' = {} /\ tick' = Period(20, clk) /\ low' = FALSE
  /\ UNCHANGED <<vbus, clk>>

Press(e, k) == e.action = "press" /\ e.key = k

(* task_input(): an event goes to the apps, but ON/OFF puts to sleep.      *)
InputEvent ==
  LET e == Head(Filled)
  IN  /\ pc = "input" /\ Polled /\ Filled # <<>>
      /\ idle' = (idle /\ e.action # "press") /\ grace' = (grace /\ ~Press(e, OnOff))
      /\ IF Press(e, OnOff) THEN PowerSleep("check") /\ UNCHANGED evq
         ELSE evq' = Posted /\ UNCHANGED <<pc, back, power>>
      /\ UNCHANGED <<woken, redraw>>

InputDone ==
  /\ pc = "input" /\ Polled /\ Filled = <<>> /\ pc' = "check"
  /\ UNCHANGED <<back, woken, evq, redraw, idle, power, grace>>

(* After a long time without a key press, sleep as well.                   *)
InputCheck ==
  /\ pc = "check"
  /\ IF idle THEN PowerSleep("loop") ELSE pc' = "loop" /\ UNCHANGED <<back, power>>
  /\ UNCHANGED <<kbd, woken, evq, redraw, idle, grace>>

(* task_shell(): the app gets an event; the settings may set the level.    *)
ShellEvent ==
  /\ pc = "shell" /\ evq > 0 /\ evq' = evq - 1
  /\ light' \in {light} \cup {SetLevel(light, w) : w \in 0 .. Levels - 1}
  /\ UNCHANGED <<kbd, pc, back, woken, redraw, idle, vbus, low, clk, tick, parts, grace>>

(* Then the redraw, the transfers and the battery.                         *)
ShellEnd ==
  /\ pc = "shell" /\ evq = 0 /\ pc' = "loop"
  /\ redraw' = FALSE
  /\ UNCHANGED <<kbd, back, woken, evq, idle, power, grace>>

Tasks == InputEvent \/ InputDone \/ InputCheck \/ ShellEvent \/ ShellEnd

-----------------------------------------------------------------------------
(* power_sleep() *)

\* mutants: SysTick still counts for the other clock; the PLL is not started again,
\* or USB power is not looked at again
SleepClocksOnly ==
  /\ pc = "sleep" /\ pc' = "delay" /\ low' = ~vbus
  /\ clk' = (IF low' # low THEN IF low' THEN "low" ELSE "high" ELSE clk)
  /\ UNCHANGED <<tick, kbd, back, woken, evq, redraw, idle, vbus, parts, light, grace>>
SleepClocksDown ==
  /\ pc = "sleep" /\ pc' = "delay" /\ low' = (low \/ ~vbus)
  /\ IF low' # low THEN clk' = "low" /\ tick' = Period(20, clk') ELSE UNCHANGED <<clk, tick>>
  /\ UNCHANGED <<kbd, back, woken, evq, redraw, idle, vbus, parts, light, grace>>

(* Each round: the clocks follow the USB power, and SysTick the clocks.    *)
SleepClocks ==
  /\ pc = "sleep" /\ pc' = "delay" /\ low' = ~vbus
  /\ IF low' # low
     THEN clk' = (IF low' THEN "low" ELSE "high") /\ tick' = Period(20, clk')
     ELSE UNCHANGED <<clk, tick>>
  /\ UNCHANGED <<kbd, back, woken, evq, redraw, idle, vbus, parts, light, grace>>

(* Time passes: what was not due may be, and nothing is due less.          *)
TimePasses ==
  /\ rep' \in {rep, [rep EXCEPT !.due = rep.key # NoKey]}
  /\ UNCHANGED <<contact, state, debounce, anyDown, any, row, buf, boot, steady, told, lost,
                 back, evq, redraw, power>>

(* hal_delay_ms(SLEEP_TICK_MS) is longer than SCAN_PERIOD_MS; s_last_input *)
(* is not looked at before Wake sets it.                                   *)
SleepDelay ==
  /\ pc = "delay" /\ pc' = "drain" /\ due' = TRUE /\ woken' = FALSE
  /\ TimePasses /\ UNCHANGED <<idle, grace>>

\* mutant: the release counts
SleepEventRelease ==
  /\ pc = "drain" /\ Polled /\ Filled # <<>>
  /\ woken' = (woken \/ Head(Filled) = Event(OnOff, "release"))
  /\ UNCHANGED <<pc, back, evq, redraw, idle, power, grace>>

(* Every event is taken, whether it wakes or not.                          *)
SleepEvent ==
  /\ pc = "drain" /\ Polled /\ Filled # <<>>
  /\ woken' = (woken \/ Press(Head(Filled), OnOff))
  /\ UNCHANGED <<pc, back, evq, redraw, idle, power, grace>>

SleepDrained ==
  /\ pc = "drain" /\ Polled /\ Filled = <<>>
  /\ pc' = (IF woken THEN "wake" ELSE "rest")
  /\ UNCHANGED <<back, woken, evq, redraw, idle, power, grace>>

(* The charge state for the LED, and the transfers: only with the clocks   *)
(* that USB needs.                                                         *)
SleepRest ==
  /\ pc = "rest" /\ pc' = "sleep"
  /\ UNCHANGED <<kbd, back, woken, evq, redraw, idle, power, grace>>

Woken(c, q, since, again) ==
  /\ pc = "wake" /\ pc' = back
  /\ clk' = c /\ evq' = q /\ idle' = since /\ redraw' = again
  /\ tick' = Period(1, clk') /\ parts' = {"panel", "led"} /\ light' = LightOn(light)
  /\ back' = "loop" /\ woken' = FALSE /\ low' = FALSE
  /\ grace' = TRUE
  /\ UNCHANGED <<kbd, vbus>>

\* a mutant: the time of the last key is not set
WakeIdle == Woken("high", 0, idle, TRUE)

(* Everything is switched on again, and what was queued before is dropped. *)
Wake == Woken(IF low THEN "high" ELSE clk, 0, FALSE, TRUE)

Sleeping == SleepClocks \/ SleepDelay \/ SleepEvent \/ SleepDrained \/ SleepRest \/ Wake

-----------------------------------------------------------------------------
(* The scan of a poll that is due; keyboard_init() before everything.      *)
KbdStep ==
  /\ \/ Scan /\ (~EndOfBoot \/ pc \in {"input", "drain"})
     \/ InitPass
  /\ UNCHANGED <<pc, back, woken, evq, redraw, idle, power, grace>>

Elapse ==
  /\ pc \in {"loop", "shell"} /\ EndOfBoot /\ due' \in {due, TRUE} /\ TimePasses
  /\ idle' \in {idle, TRUE} /\ grace' = (grace /\ idle' = idle)
  /\ UNCHANGED <<pc, woken>>

UserKey == Contact /\ UNCHANGED <<pc, back, woken, evq, redraw, idle, power, grace>>

Cable ==
  /\ vbus' = ~vbus
  /\ UNCHANGED <<kbd, pc, back, woken, evq, redraw, idle, low, clk, tick, parts, light, grace>>

Init ==
  /\ KbdInit
  /\ pc = "loop" /\ back = "loop" /\ woken = FALSE /\ evq = 0 /\ redraw = FALSE /\ idle = FALSE
  /\ vbus \in BOOLEAN /\ low = FALSE /\ clk = "high" /\ tick = Period(1, "high")
  /\ parts = {"panel", "led"}
  /\ \E w \in 0 .. Levels - 1 : light = [on |-> TRUE, level |-> w, wanted |-> w, chip |-> w]
  /\ grace = FALSE

Main == Start("input") \/ Start("shell") \/ Tasks \/ Sleeping \/ KbdStep
Next == Main \/ Elapse \/ UserKey \/ Cable
Spec == Init /\ [][Next]_vars

(* The main loop goes on.                                                  *)
FairSpec == Spec /\ WF_vars(Main)

-----------------------------------------------------------------------------
(* Properties *)

(* Whatever happened while asleep - the cable in and out, the level set    *)
(* before - an awake calculator has all its parts on, its clocks up and    *)
(* the backlight at the level that was asked for.                          *)
AwakeRestored ==
  Awake => parts = {"panel", "led"} /\ light.on /\ light.chip = light.wanted /\ clk = "high"

(* SysTick counts CPU cycles: its period is always that of the clock that  *)
(* runs, so that milliseconds stay milliseconds.                           *)
TickRight == tick.clk = clk /\ tick.ms = IF Awake THEN 1 ELSE 20

(* "USB needs the PLL's 48 MHz": no transfers while the clocks are low.    *)
UsbHasClocks == pc = "rest" /\ ~low => clk = "high"

(* While the cable comes and goes during sleep the clocks change any       *)
(* number of times: milliseconds and transfers follow them.                *)
ClocksRight == TickRight /\ UsbHasClocks

(* Once woken, the calculator stays awake until ON/OFF is pressed again or *)
(* nothing is pressed for AUTO_SLEEP_MS.                                   *)
WakeLasts == [][Awake /\ ~Awake' => ~grace']_vars

(* Held down, ON/OFF ends a sleep.                                         *)
OnOffWakes ==
  ~Awake /\ OnOff \notin state /\ OnOff \in contact ~> Awake \/ OnOff \notin contact \/ OnOff \in lost

(* "With it, the clocks stay up so PC transfers keep working": a PC that   *)
(* stays connected is served, asleep too, also if it came after that.      *)
UsbServedAsleep == <>[](vbus /\ ~Awake) => []<>(pc = "rest" /\ ~low)

(* Asleep, the calculator goes on serving its key and its cable.           *)
SleepServes == OnOffWakes /\ UsbServedAsleep
=============================================================================

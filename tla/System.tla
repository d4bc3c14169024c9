------------------------------- MODULE System -------------------------------
(***************************************************************************)
(* Under the apps: the loader that starts the OS, the flash driver, the    *)
(* tasks, the display, and the two sides of the USB device.  They share no *)
(* state but by the calls that the modules name as theirs, so a behaviour  *)
(* looks at one of them, while the others stay as they started.            *)
(***************************************************************************)
EXTENDS UsbDevice, UsbControl, Scheduler, Display, Loader

CONSTANT Parts        \* those that are looked at

VARIABLE part

usbVars == vars
systemVars == <<part, usbVars, control, schedVars, display, startVars>>

-----------------------------------------------------------------------------
In(p) ==
  /\ part = p /\ UNCHANGED part
  /\ IF p = "usb" THEN TRUE ELSE UNCHANGED usbVars
  /\ IF p = "control" THEN TRUE ELSE UNCHANGED control
  /\ IF p = "tasks" THEN TRUE ELSE UNCHANGED schedVars
  /\ IF p = "display" THEN TRUE ELSE UNCHANGED display
  /\ IF p = "start" THEN TRUE ELSE UNCHANGED startVars

(* What is not looked at starts with any state it may start with.          *)
Idled(p, v, S) == IF part = p THEN TRUE ELSE v = CHOOSE s \in S : TRUE

SystemInit ==
  /\ part \in Parts
  /\ Idled("start", cells, {[u \in Units |-> Erased]}) /\ Idled("start", defect, {"none"})
  /\ Idled("start", cont, {FALSE}) /\ Idled("start", dpd, {FALSE}) /\ Idled("start", qe, {TRUE})
  /\ Idled("start", held, {FALSE}) /\ Idled("start", image, {TRUE})
  /\ Idled("control", host0, {[req |-> Nothing, got |-> <<>>, coding |-> CHOOSE c \in Codings : TRUE, stage |-> "idle"]})
  /\ Init /\ ControlInit /\ SchedInit /\ DisplayInit /\ StartInit

SystemNext ==
  \/ In("usb") /\ Next
  \/ In("control") /\ ControlStep
  \/ In("tasks") /\ SchedNext
  \/ In("display") /\ DisplayStep
  \/ In("start") /\ StartNext

(* The program goes on: interrupts are taken, the main loop takes its      *)
(* steps, and WFI ends once a tick is pending.  What it works with goes on *)
(* too: SysTick, and a PC that has configured the device and goes on       *)
(* reading.  The main loop does not leave received bytes alone for ever.   *)
(* Only one part moves: what is said of their steps together is said of    *)
(* each.                                                                   *)
Program ==
  \/ In("usb") /\ (Irq \/ Main)
  \/ In("control") /\ Irq0
  \/ In("tasks") /\ (Loop \/ (Wfi /\ pending))
Surroundings ==
  \/ In("usb") /\ (Configured \/ HostIn)
  \/ In("control") /\ (HostTakes \/ HostGives \/ HostStalled)
  \/ In("tasks") /\ Tick

SystemSpec ==
  /\ SystemInit /\ [][SystemNext]_systemVars
  /\ WF_systemVars(Program) /\ WF_systemVars(Surroundings) /\ SF_systemVars(In("usb") /\ Reading)

-----------------------------------------------------------------------------
(* No task of the highest priority starves.                                *)
TasksRun ==
  \A t \in Tasks : (\A u \in Tasks : Prio[u] <= Prio[t]) =>
    []<>(part = "tasks" => spc = "run" /\ current = t)

(* Flash operations tell the truth, and leave the program its code.        *)
FlashTells == part = "start" => AnswersTrue /\ CodeReadable

(* The OS starts, again after every reset, from flash that can be read;    *)
(* recovery takes over only where there is a cause.                        *)
StartsEach == part = "start" => StartsRight /\ StartGoesOn
=============================================================================

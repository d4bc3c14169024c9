------------------------------ MODULE Scheduler ------------------------------
(***************************************************************************)
(* kernel/scheduler.c and the idle task of kernel/kernel.c: cooperative    *)
(* tasks, woken by a timer interrupt that may come between any two reads   *)
(* of the loop that picks the next task, and a CPU that stops in WFI when  *)
(* there is nothing to do.                                                 *)
(***************************************************************************)
EXTENDS Integers, FiniteSets

CONSTANTS
  N,            \* s_ntasks
  Prio,         \* Prio[t]: the priority of task t
  MaxSleep,     \* the ticks a task may ask for
  MaxPassed     \* bound: how far the overtakings of a task are counted

Tasks == 0 .. N - 1
Idle == 0                 \* kernel_run() adds it first
Nobody == -1

ASSUME SomeTasks ==
  /\ N \in Nat \ {0} /\ Prio \in [Tasks -> Nat] /\ Prio[Idle] = 0
  /\ \A t \in Tasks \ {Idle} : Prio[t] > 0
  /\ MaxSleep \in Nat \ {0} /\ MaxPassed \in Nat

VARIABLES
  waiting,          \* waiting of each task: ticks left to sleep
  current,          \* s_current
  spc,               \* the main loop
  i, best,          \* the loop of scheduler_run_next()
  masked, pending,  \* PRIMASK, and a SysTick interrupt that waits for it
  readyAtStart,     \* history: the tasks ready when the loop began
  passed            \* history: runs of other tasks since a task became ready

schedVars == <<waiting, current, spc, i, best, masked, pending, readyAtStart, passed>>

Ready == {t \in Tasks : waiting[t] = 0}
ReadyAbove(prio) == {t \in Ready : Prio[t] > prio}

-----------------------------------------------------------------------------
(* SysTick_Handler(), scheduler_tick() *)

(* A task that waits has one tick less to wait.                            *)
Ticked == [t \in Tasks |-> IF waiting[t] > 0 THEN waiting[t] - 1 ELSE 0]

Tick ==
  /\ IF masked THEN pending' = TRUE /\ UNCHANGED waiting
     ELSE waiting' = Ticked /\ UNCHANGED pending
  /\ UNCHANGED <<current, spc, i, best, masked, readyAtStart, passed>>

-----------------------------------------------------------------------------
(* scheduler_run_next() *)

\* mutant: the loop always begins with the same task
AtFixed(k) == k

(* (s_current + 1 + i) % s_ntasks *)
At(k) == LET j == current + 1 + k IN IF j < N THEN j ELSE j - N

\* mutant: the first ready task
BetterAny(t) == waiting[t] = 0 /\ best = Nobody
Better(t) == waiting[t] = 0 /\ (best = Nobody \/ Prio[t] > Prio[best])

Begin ==
  /\ spc = "begin" /\ spc' = "scan" /\ i' = 0 /\ best' = Nobody /\ readyAtStart' = Ready
  /\ UNCHANGED <<waiting, current, masked, pending, passed>>

Scan ==
  /\ spc = "scan" /\ i < N
  /\ best' = (IF Better(At(i)) THEN At(i) ELSE best) /\ i' = i + 1
  /\ UNCHANGED <<waiting, current, spc, masked, pending, readyAtStart, passed>>

Passed(runs) ==
  [t \in Tasks |-> IF t = runs \/ waiting[t] > 0 THEN 0
                   ELSE IF passed[t] < MaxPassed THEN passed[t] + 1 ELSE MaxPassed]

Pick ==
  /\ spc = "scan" /\ i = N
  /\ IF best = Nobody THEN spc' = "begin" /\ UNCHANGED <<current, passed>>
     ELSE /\ current' = best /\ passed' = Passed(best)
          /\ spc' = (IF best = Idle THEN "idle" ELSE "run")
  /\ UNCHANGED <<waiting, i, best, masked, pending, readyAtStart>>

(* A task, with scheduler_sleep() at its end.                              *)
Run ==
  /\ spc = "run" /\ spc' = "begin"
  /\ \E ticks \in 0 .. MaxSleep : waiting' = [waiting EXCEPT ![current] = ticks]
  /\ UNCHANGED <<current, i, best, masked, pending, readyAtStart, passed>>

-----------------------------------------------------------------------------
(* task_idle() *)

\* mutant: no cpsid
IdleMaskNot ==
  /\ spc = "idle" /\ spc' = "check"
  /\ UNCHANGED <<waiting, current, i, best, masked, pending, readyAtStart, passed>>

IdleMask ==
  /\ spc = "idle" /\ spc' = "check" /\ masked' = TRUE
  /\ UNCHANGED <<waiting, current, i, best, pending, readyAtStart, passed>>

IdleCheck ==
  /\ spc = "check" /\ spc' = (IF ReadyAbove(Prio[Idle]) = {} THEN "wfi" ELSE "unmask")
  /\ UNCHANGED <<waiting, current, i, best, masked, pending, readyAtStart, passed>>

(* A pending interrupt ends WFI; so does one of another source.            *)
Wfi ==
  /\ spc = "wfi" /\ spc' = "unmask"
  /\ UNCHANGED <<waiting, current, i, best, masked, pending, readyAtStart, passed>>

(* cpsie: what was pending is taken at once.                               *)
IdleUnmask ==
  /\ spc = "unmask" /\ spc' = "begin" /\ masked' = FALSE /\ pending' = FALSE
  /\ waiting' = (IF pending THEN Ticked ELSE waiting)
  /\ UNCHANGED <<current, i, best, readyAtStart, passed>>

-----------------------------------------------------------------------------
SchedInit ==
  /\ waiting = [t \in Tasks |-> 0] /\ current = 0
  /\ spc = "begin" /\ i = 0 /\ best = Nobody
  /\ masked = FALSE /\ pending = FALSE
  /\ readyAtStart = {} /\ passed = [t \in Tasks |-> 0]

Loop == Begin \/ Scan \/ Pick \/ Run \/ IdleMask \/ IdleCheck \/ IdleUnmask
SchedNext == Tick \/ Loop \/ Wfi
SchedSpec == SchedInit /\ [][SchedNext]_schedVars

-----------------------------------------------------------------------------
(* Properties *)

(* Types, and the idle task never waits.                                   *)
TypeOK ==
  /\ waiting \in [Tasks -> 0 .. MaxSleep] /\ waiting[Idle] = 0
  /\ current \in Tasks /\ i \in 0 .. N /\ best \in Tasks \cup {Nobody}
  /\ spc \in {"begin", "scan", "run", "idle", "check", "wfi", "unmask"}
  /\ masked \in BOOLEAN /\ pending \in BOOLEAN
  /\ readyAtStart \subseteq Tasks /\ passed \in [Tasks -> 0 .. MaxPassed]

(* "a tick that wakes a task between the check and WFI isn't missed": the  *)
(* CPU only waits while there is nothing to do, or an interrupt is pending *)
(* that ends the wait.                                                     *)
NoSleepThroughWork == spc = "wfi" => ReadyAbove(Prio[Idle]) = {} \/ pending

(* "Higher priority tasks always run before lower ones": the task picked   *)
(* has the highest priority of those that were ready when the loop began,  *)
(* whatever ticks came meanwhile.                                          *)
HighestRuns ==
  spc = "scan" /\ i = N =>
    \A t \in readyAtStart : best # Nobody /\ Prio[best] >= Prio[t]

(* Whenever the CPU waits or a task is picked, nothing that should run is  *)
(* passed over.                                                            *)
RightTaskRuns == NoSleepThroughWork /\ HighestRuns

(* "tasks of equal priority take turns": a task that is ready, and that    *)
(* none of higher priority keeps waiting, sees each other task run at most *)
(* once before its turn, the one that was picked while it woke up included.*)
TakeTurns ==
  \A t \in Tasks : Prio[t] > 0 /\ (\A u \in Tasks : Prio[u] <= Prio[t]) => passed[t] <= N - 1

=============================================================================

----------------------------- MODULE SystemProofs -----------------------------
(***************************************************************************)
(* Proofs about System and its parts: the scheduler, for any tasks; the    *)
(* loader and the storage driver, for a flash of any size, over any resets *)
(* and power cuts; the display's invariant, for a screen of any size and   *)
(* whatever is drawn; the invariant of the requests on endpoint 0, for     *)
(* replies and packets of any length; and the parts' theorems, with those  *)
(* of UsbDeviceProofs, for the behaviours of the whole.                    *)
(***************************************************************************)
EXTENDS System, UsbDeviceProofs

-----------------------------------------------------------------------------
(***************************************************************************)
(* The scheduler, for any number of tasks, any priorities and any sleeping *)
(* times.                                                                  *)
(***************************************************************************)

(***************************************************************************)
(* The CPU's part of the inductive invariant: the idle task never sleeps,  *)
(* and while it looks for work and waits no tick can change what it saw.   *)
(***************************************************************************)
IdleInv ==
  /\ TypeOK
  /\ spc = "run" => current # Idle
  /\ spc \in {"check", "wfi"} => masked
  /\ spc = "wfi" => ReadyAbove(Prio[Idle]) = {}

USE DEF Tasks, Idle, Nobody

LEMMA TaskZero == Idle \in Tasks /\ Nobody \notin Tasks /\ N \in Nat \ {0}
BY SomeTasks

(* The index the loop reads is that of a task.                             *)
LEMMA AtType == ASSUME current \in Tasks, NEW k \in 0 .. N - 1 PROVE At(k) \in Tasks
BY SomeTasks DEF At

(* A tick leaves every waiting within its range.                           *)
LEMMA TickedType ==
  ASSUME TypeOK
  PROVE  Ticked \in [Tasks -> 0 .. MaxSleep] /\ Ticked[Idle] = 0
<1>1. \A t \in Tasks : waiting[t] \in 0 .. MaxSleep
  BY DEF TypeOK
<1>2. \A t \in Tasks : (IF waiting[t] > 0 THEN waiting[t] - 1 ELSE 0) \in 0 .. MaxSleep
  BY <1>1, SomeTasks
<1>3. Ticked \in [Tasks -> 0 .. MaxSleep]
  BY <1>2 DEF Ticked
<1>4. Ticked[Idle] = 0
  BY TaskZero DEF Ticked, TypeOK
<1>. QED BY <1>3, <1>4

(* The counts of overtakings stay within their bound.                      *)
LEMMA PassedType ==
  ASSUME TypeOK, NEW u \in Tasks
  PROVE  Passed(u) \in [Tasks -> 0 .. MaxPassed]
<1>1. \A t \in Tasks : passed[t] \in 0 .. MaxPassed
  BY DEF TypeOK
<1>2. \A t \in Tasks : (IF t = u \/ waiting[t] > 0 THEN 0
                        ELSE IF passed[t] < MaxPassed THEN passed[t] + 1 ELSE MaxPassed)
                       \in 0 .. MaxPassed
  BY <1>1, SomeTasks
<1>. QED BY <1>2 DEF Passed

-----------------------------------------------------------------------------
LEMMA IdleInvInit == SchedInit => IdleInv
<1>. SUFFICES ASSUME SchedInit PROVE IdleInv
  OBVIOUS
<1>1. 0 \in 0 .. MaxSleep /\ 0 \in 0 .. MaxPassed /\ 0 \in 0 .. N
  BY SomeTasks
<1>2. waiting \in [Tasks -> 0 .. MaxSleep] /\ passed \in [Tasks -> 0 .. MaxPassed]
  BY <1>1 DEF SchedInit
<1>3. TypeOK
  BY <1>1, <1>2, TaskZero DEF SchedInit, TypeOK
<1>. QED BY <1>3 DEF SchedInit, IdleInv

LEMMA IdleInvNext == IdleInv /\ [SchedNext]_schedVars => IdleInv'
<1>. SUFFICES ASSUME IdleInv, [SchedNext]_schedVars PROVE IdleInv'
  OBVIOUS
<1>. USE TaskZero, SomeTasks DEF IdleInv, TypeOK
<1>1. CASE Tick
  <2>1. CASE masked
    BY <1>1, <2>1 DEF Tick, ReadyAbove, Ready
  <2>2. CASE ~masked
    BY <1>1, <2>2, TickedType DEF Tick
  <2>. QED BY <2>1, <2>2
<1>2. CASE Begin
  BY <1>2 DEF Begin, Ready
<1>3. CASE Scan
  <2>1. i \in 0 .. N - 1 /\ i + 1 \in 0 .. N
    BY <1>3 DEF Scan
  <2>2. At(i) \in Tasks
    BY <2>1, AtType
  <2>3. best' \in Tasks \cup {Nobody}
    BY <1>3, <2>2 DEF Scan
  <2>. QED BY <1>3, <2>1, <2>3 DEF Scan
<1>4. CASE Pick
  <2>1. CASE best = Nobody
    BY <1>4, <2>1 DEF Pick
  <2>2. CASE best # Nobody
    BY <1>4, <2>2, PassedType DEF Pick
  <2>. QED BY <2>1, <2>2
<1>5. CASE Run
  <2>1. PICK ticks \in 0 .. MaxSleep : waiting' = [waiting EXCEPT ![current] = ticks]
    BY <1>5 DEF Run
  <2>2. waiting' \in [Tasks -> 0 .. MaxSleep] /\ waiting'[Idle] = 0
    BY <1>5, <2>1 DEF Run
  <2>. QED BY <1>5, <2>2 DEF Run
<1>6. CASE IdleMask
  BY <1>6 DEF IdleMask
<1>7. CASE IdleCheck
  BY <1>7 DEF IdleCheck, ReadyAbove, Ready
<1>8. CASE IdleUnmask
  BY <1>8, TickedType DEF IdleUnmask
<1>9. CASE Wfi
  BY <1>9 DEF Wfi
<1>10. CASE UNCHANGED schedVars
  BY <1>10 DEF schedVars, ReadyAbove, Ready
<1>. QED BY <1>1, <1>2, <1>3, <1>4, <1>5, <1>6, <1>7, <1>8, <1>9, <1>10 DEF SchedNext, Loop

(* The types of the scheduler's variables, and that the idle task, which   *)
(* must always be there to be picked, never waits.                         *)
THEOREM SchedulerTypes == SchedSpec => []TypeOK
<1>1. IdleInv => TypeOK
  BY DEF IdleInv
<1>. QED BY <1>1, IdleInvInit, IdleInvNext, PTL DEF SchedSpec

(* The CPU never stops in WFI while a task above the idle task is ready,   *)
(* unless an interrupt is pending that ends the wait.                      *)
THEOREM NoSleep == SchedSpec => []NoSleepThroughWork
<1>1. IdleInv => NoSleepThroughWork
  BY DEF IdleInv, NoSleepThroughWork
<1>. QED BY <1>1, IdleInvInit, IdleInvNext, PTL DEF SchedSpec
-----------------------------------------------------------------------------
(***************************************************************************)
(* The loop's part: a task that was ready when it began is ready still,    *)
(* and the best so far is at least as good as each of those it has seen.   *)
(***************************************************************************)
Seen(k) == At(k) \in readyAtStart => best # Nobody /\ Prio[best] >= Prio[At(k)]

ScanInv ==
  spc = "scan" => readyAtStart \subseteq Ready /\ \A k \in 0 .. i - 1 : Seen(k)

(* The indexes of the loop reach every task.                               *)
LEMMA AtCovers ==
  ASSUME current \in Tasks, NEW t \in Tasks PROVE \E k \in 0 .. N - 1 : At(k) = t
<1>1. CASE t > current
  <2>1. t - current - 1 \in 0 .. N - 1 /\ At(t - current - 1) = t
    BY <1>1, SomeTasks DEF At
  <2>. QED BY <2>1
<1>2. CASE t <= current
  <2>1. t - current - 1 + N \in 0 .. N - 1 /\ At(t - current - 1 + N) = t
    BY <1>2, SomeTasks DEF At
  <2>. QED BY <2>1
<1>. QED BY <1>1, <1>2

(* A tick keeps what is ready ready.                                       *)
LEMMA TickKeepsReady ==
  ASSUME TypeOK, waiting' = Ticked PROVE Ready \subseteq Ready'
BY DEF TypeOK, Ticked, Ready

(* One step of the loop: the task it looks at, and those before it.        *)
LEMMA ScanStep ==
  ASSUME IdleInv, ScanInv, Scan PROVE ScanInv'
<1>. USE SomeTasks, TaskZero
<1>1. i \in 0 .. N - 1 /\ i' = i + 1 /\ spc = "scan"
  BY DEF IdleInv, TypeOK, Scan
<1>2. readyAtStart' = readyAtStart /\ Ready' = Ready /\ current' = current
  BY DEF Scan, Ready
<1>3. readyAtStart \subseteq Ready /\ \A k \in 0 .. i - 1 : Seen(k)
  BY <1>1 DEF ScanInv
<1>4. current \in Tasks /\ best \in Tasks \cup {Nobody}
  BY DEF IdleInv, TypeOK
<1>5. At(i) \in Tasks
  BY <1>1, <1>4, AtType
<1>6. \A t \in Tasks : Prio[t] \in Nat
  OBVIOUS
<1>7. best' = IF Better(At(i)) THEN At(i) ELSE best
  BY DEF Scan
<1>8. \A k : At(k)' = At(k)
  BY <1>2 DEF At
<1>9. ASSUME NEW k \in 0 .. i PROVE Seen(k)'
  <2>. SUFFICES ASSUME At(k) \in readyAtStart
                PROVE  best' # Nobody /\ Prio[best'] >= Prio[At(k)]
    BY <1>2, <1>8 DEF Seen
  <2>1. At(k) \in Tasks
    BY <1>1, <1>4, AtType
  <2>2. CASE k < i
    <3>1. best # Nobody /\ Prio[best] >= Prio[At(k)]
      BY <1>1, <1>3, <2>2 DEF Seen
    <3>. QED BY <3>1, <1>4, <1>5, <1>6, <1>7, <2>1 DEF Better
  <2>3. CASE k = i
    <3>1. waiting[At(i)] = 0
      BY <1>3, <2>3 DEF Ready
    <3>. QED BY <3>1, <1>4, <1>5, <1>6, <1>7, <2>3 DEF Better
  <2>. QED BY <1>1, <2>2, <2>3
<1>10. \A k \in 0 .. i' - 1 : Seen(k)'
  BY <1>1, <1>9
<1>. QED BY <1>2, <1>3, <1>10 DEF ScanInv

LEMMA ScanInvNext == IdleInv /\ ScanInv /\ [SchedNext]_schedVars => ScanInv'
<1>. SUFFICES ASSUME IdleInv, ScanInv, [SchedNext]_schedVars PROVE ScanInv'
  OBVIOUS
<1>1. CASE Tick
  <2>1. Ready \subseteq Ready'
    BY <1>1, TickKeepsReady DEF Tick, IdleInv, Ready
  <2>2. UNCHANGED <<current, spc, i, best, readyAtStart>>
    BY <1>1 DEF Tick
  <2>. QED BY <2>1, <2>2 DEF ScanInv, Seen, At
<1>2. CASE Begin
  BY <1>2 DEF Begin, ScanInv, Ready
<1>3. CASE Scan
  BY <1>3, ScanStep
<1>4. CASE Pick \/ Run \/ IdleMask \/ IdleCheck \/ IdleUnmask \/ Wfi
  BY <1>4 DEF Pick, Run, IdleMask, IdleCheck, IdleUnmask, Wfi, ScanInv
<1>5. CASE UNCHANGED schedVars
  BY <1>5 DEF schedVars, ScanInv, Seen, At, Ready
<1>. QED BY <1>1, <1>2, <1>3, <1>4, <1>5 DEF SchedNext, Loop

(* The task that runs has the highest priority of those that were ready    *)
(* when the loop began, however many ticks came while it was looking.      *)
THEOREM HighestFirst == SchedSpec => []HighestRuns
<1>1. SchedInit => ScanInv
  BY DEF SchedInit, ScanInv
<1>2. IdleInv /\ ScanInv => HighestRuns
  <2>. SUFFICES ASSUME IdleInv, ScanInv, spc = "scan", i = N, NEW t \in readyAtStart
                PROVE  best # Nobody /\ Prio[best] >= Prio[t]
    BY DEF HighestRuns
  <2>1. current \in Tasks /\ t \in Tasks
    BY DEF IdleInv, TypeOK
  <2>2. PICK k \in 0 .. N - 1 : At(k) = t
    BY <2>1, AtCovers
  <2>. QED BY <2>2 DEF ScanInv, Seen
<1>. QED BY <1>1, <1>2, IdleInvInit, IdleInvNext, ScanInvNext, PTL DEF SchedSpec

(* Both: no work waits while the CPU sleeps or a lower task is picked.     *)
THEOREM RightOneRuns == SchedSpec => []RightTaskRuns
<1>1. NoSleepThroughWork /\ HighestRuns => RightTaskRuns
  BY DEF RightTaskRuns
<1>. QED BY <1>1, NoSleep, HighestFirst, PTL
-----------------------------------------------------------------------------
(***************************************************************************)
(* Turns.  Gap(c, t) is how many steps after task c the loop comes to task *)
(* t.  A task of the highest priority that has been overtaken is ready,    *)
(* and every time it is overtaken the gap to it shrinks; a pick past it is *)
(* only possible before it has been overtaken at all (it woke up while the *)
(* loop was beyond it).                                                    *)
(***************************************************************************)
Gap(c, t) == IF t > c THEN t - c ELSE t - c + N
Top(t) == Prio[t] > 0 /\ \A u \in Tasks : Prio[u] <= Prio[t]

Overtaken(t) == passed[t] = 0 \/ (waiting[t] = 0 /\ passed[t] + Gap(current, t) <= N)
ReadyIfOvertaken(t) == passed[t] > 0 => t \in readyAtStart
FirstOfEquals(t) ==
  \A k \in 0 .. i - 1 :
    At(k) = t /\ t \in readyAtStart =>
      \E b \in 0 .. k : best = At(b) /\ Prio[best] >= Prio[t]

TurnInv ==
  /\ \A t \in Tasks : Top(t) => Overtaken(t)
  /\ spc = "run" => passed[current] = 0
  /\ spc = "scan" => \A t \in Tasks : Top(t) => ReadyIfOvertaken(t) /\ FirstOfEquals(t)
  /\ spc = "scan" /\ best # Nobody => \E b \in 0 .. i - 1 : best = At(b)

LEMMA GapAt ==
  ASSUME current \in Tasks, NEW t \in Tasks
  PROVE  Gap(current, t) \in 1 .. N /\ At(Gap(current, t) - 1) = t
BY SomeTasks DEF Gap, At

(* From the task at index b of the loop, t is b + 1 steps nearer.          *)
LEMMA GapShrinks ==
  ASSUME current \in Tasks, NEW t \in Tasks, NEW b \in 0 .. N - 1,
         b < Gap(current, t) - 1
  PROVE  Gap(At(b), t) = Gap(current, t) - b - 1
BY SomeTasks DEF Gap, At

LEMMA GapOfOther ==
  ASSUME NEW c \in Tasks, NEW t \in Tasks, c # t
  PROVE  Gap(c, t) \in 1 .. N - 1
BY SomeTasks DEF Gap

LEMMA TurnScan ==
  ASSUME IdleInv, ScanInv, TurnInv, Scan PROVE TurnInv'
<1>. USE SomeTasks, TaskZero
<1>1. i \in 0 .. N - 1 /\ i' = i + 1 /\ spc = "scan" /\ spc' = "scan"
  BY DEF IdleInv, TypeOK, Scan
<1>2. UNCHANGED <<waiting, current, readyAtStart, passed>>
  BY DEF Scan
<1>3. current \in Tasks /\ best \in Tasks \cup {Nobody} /\ readyAtStart \subseteq Ready
  BY <1>1 DEF IdleInv, TypeOK, ScanInv
<1>4. At(i) \in Tasks /\ \A k : At(k)' = At(k)
  BY <1>1, <1>2, <1>3, AtType DEF At
<1>5. best' = IF Better(At(i)) THEN At(i) ELSE best
  BY DEF Scan
<1>6. \A t \in Tasks : Prio[t] \in Nat
  OBVIOUS
<1>7. \A t \in Tasks : Top(t) => Overtaken(t)'
  BY <1>2 DEF TurnInv, Overtaken
<1>8. ASSUME NEW t \in Tasks, Top(t) PROVE ReadyIfOvertaken(t)' /\ FirstOfEquals(t)'
  <2>1. ReadyIfOvertaken(t) /\ FirstOfEquals(t)
    BY <1>1, <1>8 DEF TurnInv
  <2>2. ReadyIfOvertaken(t)'
    BY <1>2, <2>1 DEF ReadyIfOvertaken
  <2>3. ASSUME NEW k \in 0 .. i, At(k) = t, t \in readyAtStart
        PROVE  \E b \in 0 .. k : best' = At(b) /\ Prio[best'] >= Prio[t]
    <3>1. CASE k < i
      <4>1. PICK b \in 0 .. k : best = At(b) /\ Prio[best] >= Prio[t]
        BY <1>1, <2>1, <2>3, <3>1 DEF FirstOfEquals
      <4>2. best \in Tasks
        <5>1. b \in 0 .. N - 1
          BY <1>1, <3>1
        <5>. QED BY <1>3, <4>1, <5>1, AtType
      <4>3. ~Better(At(i))
        BY <1>4, <1>6, <1>8, <4>1, <4>2 DEF Better, Top
      <4>. QED BY <1>5, <4>1, <4>3
    <3>2. CASE k = i
      <4>1. waiting[t] = 0
        BY <1>3, <2>3 DEF Ready
      <4>2. CASE Better(t)
        BY <1>1, <1>5, <1>6, <2>3, <3>2, <4>2
      <4>3. CASE ~Better(t)
        <5>1. best # Nobody /\ Prio[best] >= Prio[t] /\ best' = best
          BY <1>3, <1>5, <1>6, <2>3, <3>2, <4>1, <4>3 DEF Better
        <5>2. PICK b \in 0 .. i - 1 : best = At(b)
          BY <1>1, <5>1 DEF TurnInv
        <5>3. b \in 0 .. k
          BY <1>1, <3>2
        <5>. QED BY <5>1, <5>2, <5>3
      <4>. QED BY <4>2, <4>3
    <3>. QED BY <1>1, <3>1, <3>2
  <2>4. i' - 1 = i
    BY <1>1
  <2>. QED BY <1>2, <1>4, <2>2, <2>3, <2>4 DEF FirstOfEquals
<1>9. best' # Nobody => \E b \in 0 .. i' - 1 : best' = At(b)'
  <2>1. CASE Better(At(i))
    <3>1. i \in 0 .. i' - 1
      BY <1>1
    <3>. QED BY <1>4, <1>5, <2>1, <3>1
  <2>2. CASE ~Better(At(i)) /\ best # Nobody
    <3>1. PICK b \in 0 .. i - 1 : best = At(b)
      BY <1>1, <2>2 DEF TurnInv
    <3>2. b \in 0 .. i' - 1
      BY <1>1
    <3>. QED BY <1>4, <1>5, <2>2, <3>1, <3>2
  <2>. QED BY <1>5, <2>1, <2>2
<1>10. \A t : Top(t)' = Top(t)
  BY DEF Top
<1>. QED BY <1>1, <1>7, <1>8, <1>9, <1>10 DEF TurnInv

LEMMA TurnPick ==
  ASSUME IdleInv, TurnInv, Pick PROVE TurnInv'
<1>. USE SomeTasks, TaskZero
<1>1. spc = "scan" /\ i = N /\ waiting' = waiting
  BY DEF Pick
<1>2. CASE best = Nobody
  BY <1>2 DEF Pick, TurnInv, Overtaken
<1>3. CASE best # Nobody
  <2>1. current' = best /\ passed' = Passed(best) /\ spc' \in {"idle", "run"}
    BY <1>3 DEF Pick
  <2>2. current \in Tasks /\ best \in Tasks /\ passed \in [Tasks -> 0 .. MaxPassed]
    BY <1>3 DEF IdleInv, TypeOK
  <2>3. passed'[best] = 0
    BY <2>1, <2>2 DEF Passed
  <2>4. ASSUME NEW t \in Tasks, Top(t), t # best, waiting[t] = 0
        PROVE  passed'[t] + Gap(best, t) <= N
    <3>1. passed[t] \in Nat /\ passed'[t] \in Nat /\ passed'[t] <= passed[t] + 1
      BY <2>1, <2>2 DEF Passed
    <3>2. CASE passed[t] = 0
      <4>1. Gap(best, t) \in 1 .. N - 1
        BY <2>2, <2>4, GapOfOther
      <4>. QED BY <3>1, <3>2, <4>1
    <3>3. CASE passed[t] > 0
      <4>1. PICK d \in 1 .. N : d = Gap(current, t) /\ At(d - 1) = t
        BY <2>2, GapAt
      <4>2. passed[t] + d <= N
        BY <2>4, <3>3, <4>1 DEF TurnInv, Overtaken
      <4>3. t \in readyAtStart /\ FirstOfEquals(t)
        BY <1>1, <2>4, <3>3 DEF TurnInv, ReadyIfOvertaken
      <4>4. PICK b \in 0 .. d - 1 : best = At(b)
        BY <1>1, <4>1, <4>3 DEF FirstOfEquals
      <4>5. b < d - 1 /\ b \in 0 .. N - 1
        <5>1. b # d - 1
          BY <2>4, <4>1, <4>4
        <5>. QED BY <5>1
      <4>6. Gap(best, t) = d - b - 1
        BY <2>2, <4>1, <4>4, <4>5, GapShrinks
      <4>7. Gap(best, t) <= d - 1
        BY <4>6
      <4>. QED BY <3>1, <4>6, <4>2, <4>7
    <3>. QED BY <3>1, <3>2, <3>3
  <2>5. \A t \in Tasks : Top(t) => Overtaken(t)'
    <3>. SUFFICES ASSUME NEW t \in Tasks, Top(t), passed'[t] # 0 PROVE Overtaken(t)'
      BY DEF Overtaken
    <3>1. t # best /\ waiting[t] = 0
      BY <2>1, <2>2, <2>3 DEF Passed, IdleInv, TypeOK
    <3>2. Gap(current, t)' = Gap(best, t)
      BY <2>1 DEF Gap
    <3>. QED BY <1>1, <2>4, <3>1, <3>2 DEF Overtaken
  <2>6. \A t : Top(t)' = Top(t)
    BY DEF Top
  <2>. QED BY <2>1, <2>3, <2>5, <2>6 DEF TurnInv
<1>. QED BY <1>2, <1>3

LEMMA TurnInvNext == IdleInv /\ ScanInv /\ TurnInv /\ [SchedNext]_schedVars => TurnInv'
<1>. SUFFICES ASSUME IdleInv, ScanInv, TurnInv, [SchedNext]_schedVars PROVE TurnInv'
  OBVIOUS
<1>. USE SomeTasks, TaskZero
<1>1. CASE Tick
  <2>1. \A t \in Tasks : waiting[t] = 0 => waiting'[t] = 0
    BY <1>1 DEF Tick, Ticked, IdleInv, TypeOK
  <2>2. UNCHANGED <<current, spc, i, best, readyAtStart, passed>>
    BY <1>1 DEF Tick
  <2>. QED BY <2>1, <2>2 DEF TurnInv, Overtaken, ReadyIfOvertaken, FirstOfEquals, At, Gap, Top
<1>2. CASE Begin
  <2>1. \A t \in Tasks : Top(t) => Overtaken(t)'
    BY <1>2 DEF Begin, TurnInv, Overtaken
  <2>2. \A t \in Tasks : Top(t) => ReadyIfOvertaken(t)'
    BY <1>2 DEF Begin, TurnInv, Overtaken, ReadyIfOvertaken, Ready, IdleInv, TypeOK
  <2>3. \A t \in Tasks : FirstOfEquals(t)'
    BY <1>2 DEF Begin, FirstOfEquals
  <2>. QED BY <1>2, <2>1, <2>2, <2>3 DEF Begin, TurnInv, Top
<1>3. CASE Scan
  BY <1>3, TurnScan
<1>4. CASE Pick
  BY <1>4, TurnPick
<1>5. CASE Run
  <2>1. passed[current] = 0 /\ UNCHANGED <<current, passed>> /\ spc' = "begin"
    BY <1>5 DEF Run, TurnInv
  <2>2. \A t \in Tasks : t # current => waiting'[t] = waiting[t]
    BY <1>5 DEF Run, IdleInv, TypeOK
  <2>. QED BY <2>1, <2>2 DEF TurnInv, Overtaken, Top
<1>6. CASE IdleUnmask
  <2>1. \A t \in Tasks : waiting[t] = 0 => waiting'[t] = 0
    BY <1>6 DEF IdleUnmask, Ticked, IdleInv, TypeOK
  <2>. QED BY <1>6, <2>1 DEF IdleUnmask, TurnInv, Overtaken, Top
<1>7. CASE IdleMask \/ IdleCheck \/ Wfi
  BY <1>7 DEF IdleMask, IdleCheck, Wfi, TurnInv, Overtaken, Top
<1>8. CASE UNCHANGED schedVars
  BY <1>8 DEF schedVars, TurnInv, Overtaken, ReadyIfOvertaken, FirstOfEquals, At, Gap, Top
<1>. QED BY <1>1, <1>2, <1>3, <1>4, <1>5, <1>6, <1>7, <1>8 DEF SchedNext, Loop

(* Tasks of equal priority take turns: one of the highest priority that is *)
(* ready is overtaken at most once by each other task, whatever the ticks  *)
(* and the sleeping times.                                                 *)
THEOREM TurnsAreTaken == SchedSpec => []TakeTurns
<1>1. SchedInit => TurnInv
  BY SomeTasks DEF SchedInit, TurnInv, Overtaken
<1>2. IdleInv /\ TurnInv => TakeTurns
  <2>. SUFFICES ASSUME IdleInv, TurnInv, NEW t \in Tasks, Top(t) PROVE passed[t] <= N - 1
    BY DEF TakeTurns, Top
  <2>1. current \in Tasks /\ passed[t] \in Nat
    BY SomeTasks DEF IdleInv, TypeOK
  <2>2. Gap(current, t) \in 1 .. N
    BY <2>1, GapAt
  <2>. QED BY <2>1, <2>2, SomeTasks DEF TurnInv, Overtaken
<1>3. SchedInit => ScanInv
  BY DEF SchedInit, ScanInv
<1>. QED BY <1>1, <1>2, <1>3, IdleInvInit, IdleInvNext, ScanInvNext, TurnInvNext, PTL DEF SchedSpec

HIDE DEF Tasks, Idle, Nobody

-----------------------------------------------------------------------------
(***************************************************************************)
(* The loader and the storage driver: the program never loses the flash    *)
(* that it runs from, and the driver's answers are true.                   *)
(***************************************************************************)

(* The chip hears every command.                                           *)
Clear == ~cont /\ ~dpd /\ ~Busy /\ defect # "mute"

(* Nothing is wrong with the chip, and no command was lost.                *)
Sound == lost = 0 /\ defect = "none"

Writing == call.kind \in {"erase", "program"}
Stop == at + Chunk      \* where the chunk in progress ends

(***************************************************************************)
(* The inductive invariant, by its parts.  Calls: what is asked for lies   *)
(* in the flash, an erase on blocks; a chunk is only begun before the end. *)
(***************************************************************************)
Types ==
  /\ cont \in BOOLEAN /\ dpd \in BOOLEAN /\ wel \in BOOLEAN /\ qe \in BOOLEAN
  /\ r \in BOOLEAN /\ usesCont \in BOOLEAN /\ lost \in Nat

Calls ==
  /\ call \in [kind : {"none", "info", "erase", "program"}, from : Nat, to : 0 .. Size, val : Vals \cup {Erased}]
  /\ at \in Nat /\ call.from <= at /\ at <= call.to
  /\ call.kind = "erase" => call.val = Erased /\ at % Block = 0 /\ call.to % Block = 0
  /\ ~Writing => call.from = call.to
  /\ qpc \in {"off", "idle", "dead", "chunk", "leave", "endcont", "id", "wren", "send", "poll", "remap", "check"}
  /\ qpc \in {"chunk", "wren", "send", "poll", "check"} => Writing
  /\ qpc = "id" => call.kind = "info"
  /\ Writing /\ qpc \in {"leave", "endcont", "wren", "send", "poll", "remap", "check"} => at < call.to
  /\ qpc \in {"leave", "endcont", "remap"} => call.kind # "none"

(* The chip's mode, by where the driver is.                                *)
Modes ==
  /\ dpd => ~Busy
  /\ qpc \in {"idle", "chunk", "check", "leave", "endcont"} => ~Busy /\ ~dpd /\ defect # "mute" /\ cont = usesCont
  /\ qpc \in {"id", "wren", "send"} => Clear
  /\ qpc = "poll" => ~cont /\ ~dpd /\ defect # "mute"
  /\ qpc = "remap" => ~dpd /\ defect # "mute" /\ (cont => lost > 0) /\ (Busy => defect = "stuck" \/ lost > 0)
  /\ qpc = "dead" => defect = "stuck" \/ lost > 0

(* What was done stays, and only the chunk in progress is being written.   *)
Done ==
  /\ \A u \in Units : call.from <= u /\ u < at => cells[u] = call.val
  /\ qpc # "off" => DOMAIN job \subseteq at .. Stop - 1 /\ (Busy => qpc \in {"poll", "remap", "dead"})

(* What a program still has to write is erased.                            *)
ToDo ==
  call.kind = "program" /\ qpc # "off" =>
    \A u \in Units :
      u < call.to /\ (u >= Stop \/ (u >= at /\ qpc \in {"chunk", "leave", "endcont", "wren", "send"})) =>
        cells[u] = Erased

(* With nothing wrong, every step has had its effect.                      *)
Effects ==
  Sound =>
    /\ qpc \in {"endcont", "wren", "send", "poll", "remap"} => r
    /\ qpc = "send" => wel
    /\ qpc \in {"poll", "remap", "check"} /\ Writing =>
         \A u \in at .. Stop - 1 : IF u \in DOMAIN job THEN job[u] = call.val ELSE cells[u] = call.val

Answers ==
  /\ qpc = "idle" /\ res = "ok" => at = call.to
  /\ qpc = "idle" /\ res = "failed" => defect # "none" \/ lost > 0

(* The loader: what the chip has been brought to.                          *)
Loads ==
  /\ stage # "os" => qpc = "off" /\ res = "none" /\ call = NoCall /\ at = 0
  /\ stage = "os" => qpc # "off"
  /\ LoaderAt("release") => ~cont
  /\ LoaderAt("ready") => ~cont /\ (~dpd \/ defect = "mute")
  /\ stage = "loader" /\ lpc \in {"id", "sr2", "qewren", "qewrite", "qeread"} => Clear
  /\ stage = "loader" /\ lpc \in {"qewren", "qewrite", "qeready", "qeread"} => quad = FALSE
  /\ stage = "loader" /\ lpc \in {"qeready", "map", "vectors"} => ~cont /\ ~dpd /\ defect # "mute"
  /\ stage = "loader" /\ lpc \in {"map", "vectors"} => ~Busy \/ lost > 0 \/ defect = "stuck"
  /\ LoaderAt("map") => quad \in BOOLEAN /\ (quad => qe /\ ~Busy)
  /\ LoaderAt("vectors") => (usesCont => qe /\ ~Busy)
  /\ stage = "recovery" => held \/ ~image \/ lost > 0 \/ defect \in {"stuck", "mute"}

StartInv == Types /\ Calls /\ Modes /\ Done /\ ToDo /\ Effects /\ Answers /\ Loads

-----------------------------------------------------------------------------
(* Chunk, the size of the next step, is a number.                          *)
LEMMA ChunkNat == Calls => Chunk \in Nat /\ Stop \in Nat
<1> SUFFICES ASSUME Calls PROVE Chunk \in Nat /\ Stop \in Nat
  OBVIOUS
<1>1. call.to - at \in Nat /\ at \in Nat
  BY ChipSizes DEF Calls
<1>2. at % Page \in 0 .. Page - 1
  BY <1>1, ChipSizes
<1>3. QED
  BY <1>1, <1>2, ChipSizes DEF Chunk, Stop

(* One block more does not go past an end that lies on a block.            *)
LEMMA WholeBlocks ==
  ASSUME NEW b \in Nat \ {0}, NEW a \in Nat, a % b = 0
  PROVE  \E q \in Nat : a = b * q
<1>1. a = b * (a \div b) + (a % b)
  OBVIOUS
<1>2. a \div b \in Int
  OBVIOUS
<1>3. PICK q \in Int : q = a \div b
  BY <1>2
<1>4. a = b * q
  BY <1>1, <1>3
<1>5. q >= 0
  BY <1>4
<1>6. QED
  BY <1>4, <1>5

LEMMA NoRest ==
  ASSUME NEW b \in Nat \ {0}, NEW q \in Nat
  PROVE  (b * q) % b = 0
OBVIOUS

LEMMA BlockFits ==
  ASSUME NEW b \in Nat \ {0}, NEW a \in Nat, NEW e \in Nat, a % b = 0, e % b = 0, a < e
  PROVE  a + b <= e
<1>1. PICK k \in Nat : a = b * k
  BY WholeBlocks
<1>2. PICK m \in Nat : e = b * m
  BY WholeBlocks
<1>3. k + 1 <= m
  BY <1>1, <1>2
<1>4. b * (k + 1) <= b * m /\ b * (k + 1) = b * k + b
  BY <1>3
<1>5. QED
  BY <1>1, <1>2, <1>4

LEMMA MultiplesAdd ==
  ASSUME NEW b \in Nat \ {0}, NEW a \in Nat, NEW c \in Nat, a % b = 0, c % b = 0
  PROVE  (a + c) % b = 0
<1>1. PICK k \in Nat : a = b * k
  BY WholeBlocks
<1>2. PICK m \in Nat : c = b * m
  BY WholeBlocks
<1>3. a + c = b * (k + m) /\ k + m \in Nat
  BY <1>1, <1>2
<1>4. (b * (k + m)) % b = 0
  BY <1>3, NoRest
<1>5. QED
  BY <1>3, <1>4

(* A chunk is not empty, does not go past the end of the call, and an      *)
(* erase stays on blocks.                                                  *)
LEMMA ChunkFits ==
  ASSUME Calls, Writing, at < call.to
  PROVE  Chunk > 0 /\ Stop <= call.to /\ (call.kind = "erase" => Stop % Block = 0)
<1>1. call.to \in Nat /\ at \in Nat /\ at % Page \in 0 .. Page - 1
  BY ChipSizes DEF Calls
<1>2. CASE call.kind = "erase"
  <2>1. at % Block = 0 /\ call.to % Block = 0
    BY <1>2 DEF Calls
  <2>2. at + Block <= call.to
    BY ONLY <1>1, <2>1, at < call.to, ChipSizes, BlockFits
  <2>3. (at + Big) % Block = 0 /\ (at + Block) % Block = 0
    <3>1. Block % Block = 0
      BY ChipSizes
    <3>2. QED
      BY ONLY <3>1, <1>1, <2>1, ChipSizes, MultiplesAdd
  <2>4. QED
    BY <1>1, <1>2, <2>2, <2>3, ChipSizes DEF Chunk, Stop
<1>3. CASE call.kind = "program"
  BY <1>1, <1>3, ChipSizes DEF Chunk, Stop
<1>4. QED
  BY <1>2, <1>3 DEF Writing

(* A program of one chunk stays in its page, and so where it was sent.     *)
LEMMA PageOf ==
  ASSUME NEW a \in Nat, NEW k \in Nat, (a % Page) + k < Page
  PROVE  InPage(a, k) = a + k
<1>1. PICK m \in 0 .. Page - 1 : m = a % Page
  BY ChipSizes
<1>2. a + k - (a - m) = m + k /\ (m + k) % Page = m + k
  BY <1>1, ChipSizes
<1>3. QED
  BY <1>1, <1>2, ChipSizes DEF InPage

LEMMA ProgramWithin ==
  ASSUME Calls, call.kind = "program", at < call.to
  PROVE  {InPage(at, k) : k \in 0 .. Chunk - 1} = at .. Stop - 1
<1>1. call.to \in Nat /\ at \in Nat /\ at % Page \in 0 .. Page - 1 /\ Chunk \in Nat
  BY ChipSizes, ChunkNat DEF Calls
<1>2. Chunk <= Page - (at % Page)
  BY <1>1, ChipSizes DEF Chunk
<1>3. \A k \in 0 .. Chunk - 1 : InPage(at, k) = at + k
  <2>1. TAKE k \in 0 .. Chunk - 1
  <2>2. k \in Nat /\ (at % Page) + k < Page
    BY <1>1, <1>2, ChipSizes
  <2>3. QED
    BY <1>1, <2>2, PageOf
<1>4. {InPage(at, k) : k \in 0 .. Chunk - 1} = {at + k : k \in 0 .. Chunk - 1}
  BY <1>3
<1>5. \A u \in at .. at + Chunk - 1 : u - at \in 0 .. Chunk - 1 /\ at + (u - at) = u
  BY <1>1
<1>6. \A k \in 0 .. Chunk - 1 : at + k \in at .. at + Chunk - 1
  BY <1>1
<1>7. {at + k : k \in 0 .. Chunk - 1} = at .. at + Chunk - 1
  BY <1>5, <1>6
<1>8. Stop - 1 = at + Chunk - 1
  BY <1>1 DEF Stop
<1>9. QED
  BY <1>4, <1>7, <1>8

-----------------------------------------------------------------------------
(* While the OS does not run, the driver has no call in progress.          *)
Away == qpc = "off" /\ res = "none" /\ call = NoCall /\ at = 0

LEMMA NothingAsked ==
  Away /\ (dpd => ~Busy) => Calls /\ Modes /\ Done /\ ToDo /\ Effects /\ Answers
<1> SUFFICES ASSUME Away, dpd => ~Busy PROVE Calls /\ Modes /\ Done /\ ToDo /\ Effects /\ Answers
  OBVIOUS
<1>1. call = [kind |-> "none", from |-> 0, to |-> 0, val |-> Erased] /\ at = 0 /\ qpc = "off" /\ res = "none"
  BY DEF Away, NoCall
<1>2. Calls
  BY <1>1, ChipSizes DEF Calls, Writing
<1>3. Modes
  BY <1>1 DEF Modes
<1>4. Done /\ ToDo /\ Effects /\ Answers
  BY <1>1 DEF Done, ToDo, Effects, Answers, Units
<1>5. QED
  BY <1>2, <1>3, <1>4

LEMMA StartsInv == StartInit => StartInv
<1> SUFFICES ASSUME StartInit PROVE StartInv
  OBVIOUS
<1>1. job = NoJob /\ defect \in Defects /\ lost = 0 /\ stage = "loader" /\ lpc = "key"
  BY DEF StartInit, ChipInit
<1>2. ~Busy
  BY <1>1 DEF Busy, NoJob
<1>3. Types
  BY DEF StartInit, ChipInit, Types
<1>4. Away
  BY DEF StartInit, Away
<1>5. Loads
  BY <1>1, <1>4 DEF Loads, LoaderAt, Away
<1>6. QED
  BY <1>2, <1>3, <1>4, <1>5, NothingAsked DEF StartInv

-----------------------------------------------------------------------------
(* The loader's steps.  Only the write of quad enable gives the chip       *)
(* anything to do.                                                         *)
LEMMA JobOrNot ==
  ASSUME Types, Clear, NEW new, StartJob(new) \/ UNCHANGED chip
  PROVE  (dpd => ~Busy)' /\ wel' \in BOOLEAN /\ UNCHANGED <<cont, dpd, qe, defect>>
<1>1. CASE StartJob(new)
  BY <1>1 DEF StartJob, Types, Clear
<1>2. CASE UNCHANGED chip
  BY <1>2 DEF chip, Types, Clear
<1>3. QED
  BY <1>1, <1>2

LEMMA LoaderKeeps ==
  ASSUME Types, Loads, Away, dpd => ~Busy, LoaderStep
  PROVE  (Types /\ Loads /\ (dpd => ~Busy))' /\ (~Vectors => Away')
<1> USE DEF LoaderAt, chip, content, driver, Types, Away
<1>1. CASE RecoveryKey
  <2>1. UNCHANGED <<cells, job, defect, dpd, cont>> /\ Busy' = Busy
    BY <1>1 DEF RecoveryKey, Busy
  <2>2. QED
    BY <1>1, <2>1 DEF RecoveryKey, LGo, Recover, Loads
<1>2. CASE LeaveContinuous
  <2>1. UNCHANGED <<job, defect, dpd>> /\ Busy' = Busy
    BY <1>2 DEF LeaveContinuous, Busy
  <2>2. Loads'
    BY <1>2, <2>1 DEF LeaveContinuous, LGo, Loads
  <2>3. Types' /\ Away'
    BY <1>2 DEF LeaveContinuous, LGo, Loads
  <2>4. QED
    BY <1>2, <2>1, <2>2, <2>3 DEF LeaveContinuous
<1>3. CASE Release
  <2>1. Busy' = Busy /\ ~cont /\ (~dpd' \/ defect = "mute")
    BY <1>3 DEF Release, Busy, Hears, Loads
  <2>2. QED
    BY <1>3, <2>1 DEF Release, LGo, Loads
<1>4. CASE ChipReady
  <2>1. Busy' = Busy
    BY <1>4 DEF ChipReady, Busy
  <2>2. QED
    BY <1>4, <2>1 DEF ChipReady, ChipEnds, ChipDoesNot, LGo, Recover, Loads, Hears, Clear
<1>5. CASE Identify
  <2>1. Busy' = Busy
    BY <1>5 DEF Identify, Busy
  <2>2. Loads'
    BY <1>5, <2>1 DEF Identify, LGo, Recover, Loads, Clear, Hears
  <2>3. Types' /\ Away'
    BY <1>5 DEF Identify, LGo, Recover, Loads, Clear
  <2>4. QED
    BY <1>5, <2>1, <2>2, <2>3 DEF Identify
<1>6. CASE ReadStatus2 \/ QuadRead
  <2>1. Busy' = Busy /\ UNCHANGED <<cont, dpd, qe, defect, stage, lost, held, image>>
    BY <1>6 DEF ReadStatus2, QuadRead, Busy
  <2>2. Clear /\ quad' = qe /\ stage = "loader" /\ lpc' \in {"map", "qewren"} /\ (lpc' = "qewren" => quad' = FALSE)
    BY <1>6 DEF ReadStatus2, QuadRead, ReadsQuad, Loads, Clear, Hears
  <2>3. Loads'
    BY <1>6, <2>1, <2>2 DEF Loads, Clear, ReadStatus2, QuadRead
  <2>4. Types' /\ Away'
    BY <1>6, <2>2 DEF ReadStatus2, QuadRead
  <2>5. QED
    BY <2>1, <2>3, <2>4
<1>7. CASE QuadWriteEnable
  <2>1. Busy' = Busy
    BY <1>7 DEF QuadWriteEnable, WriteEnable, Busy
  <2>2. QED
    BY <1>7, <2>1 DEF QuadWriteEnable, WriteEnable, LGo, Loads, Clear
<1>8. CASE QuadWrite
  <2>1. Clear /\ quad = FALSE /\ UNCHANGED <<quad, stage, lost, held, image>> /\ stage = "loader" /\ lpc' = "qeready"
    BY <1>8 DEF QuadWrite, LGo, Loads
  <2>2. (dpd => ~Busy)' /\ wel' \in BOOLEAN /\ UNCHANGED <<cont, dpd, qe, defect>>
    BY ONLY <1>8, <2>1, JobOrNot, Types DEF QuadWrite
  <2>3. Types' /\ Away'
    BY <1>8, <2>2 DEF QuadWrite, LGo
  <2>4. Loads'
    BY <2>1, <2>2, <2>3 DEF Loads, Clear
  <2>5. QED
    BY <2>2, <2>3, <2>4
<1>9. CASE QuadReady
  <2>1. Busy' = Busy
    BY <1>9 DEF QuadReady, Busy
  <2>2. quad = FALSE /\ ~cont /\ ~dpd /\ defect # "mute" /\ UNCHANGED <<driver, chip, quad, stage, held, image>>
    BY <1>9 DEF QuadReady, Loads, LGo
  <2>3. (lpc' = "qeread" /\ ~Busy) \/ (lpc' = "map" /\ (~Busy \/ defect = "stuck"))
    BY <1>9, <2>2 DEF QuadReady, ChipEnds, ChipDoesNot, LGo, Hears
  <2>4. Types' /\ Away'
    BY <2>2
  <2>5. Loads'
    <3>1. stage' = "loader" /\ quad' = FALSE /\ ~cont' /\ ~dpd' /\ defect' # "mute"
      BY <1>9, <2>2 DEF QuadReady
    <3>2. (lpc' = "qeread" /\ ~Busy') \/ (lpc' = "map" /\ (~Busy' \/ defect' = "stuck"))
      BY <2>1, <2>2, <2>3
    <3>3. (LoaderAt("map") => quad \in BOOLEAN /\ (quad => qe /\ ~Busy))'
      BY <3>1
    <3>4. QED
      BY ONLY <2>4, <3>1, <3>2, <3>3 DEF Loads, Clear, LoaderAt, Away
  <2>6. QED
    BY <2>1, <2>2, <2>4, <2>5
<1>10. CASE MapFlash
  <2>1. Busy' = Busy
    BY <1>10 DEF MapFlash, Busy
  <2>2. QED
    BY <1>10, <2>1 DEF MapFlash, Loads, Clear
<1>11. CASE Vectors
  <2>1. Busy' = Busy
    BY <1>11 DEF Vectors, Busy
  <2>2. CASE image /\ Reads /\ (usesCont => qe)
    BY <1>11, <2>1, <2>2 DEF Vectors, Loads
  <2>3. CASE ~(image /\ Reads /\ (usesCont => qe))
    <3>1. Recover /\ UNCHANGED <<dpd, defect>> /\ cont' \in BOOLEAN
      BY <1>11, <2>3 DEF Vectors
    <3>2. held \/ ~image \/ lost > 0 \/ defect \in {"stuck", "mute"}
      BY <1>11, <2>3 DEF Vectors, Loads, Reads, Readable
    <3>3. QED
      BY <1>11, <2>1, <3>1, <3>2 DEF Vectors, Recover, Loads
  <2>4. QED
    BY <2>2, <2>3
<1>12. QED
  BY <1>1, <1>2, <1>3, <1>4, <1>5, <1>6, <1>7, <1>8, <1>9, <1>10, <1>11 DEF LoaderStep

(* A command that times out: into recovery, or, while quad enable is set,  *)
(* to a flash that is mapped all the same.                                 *)
LEMMA LoaderGivesUp ==
  ASSUME Types, Loads, Away, dpd => ~Busy, LoaderTimesOut \/ QuadTimesOut
  PROVE  (Types /\ Loads /\ Away /\ (dpd => ~Busy))'
<1> USE DEF chip, content, Unanswered
<1>1. lost' \in Nat /\ lost' > 0 /\ Away' /\ stage = "loader" /\ UNCHANGED <<r, usesCont>>
  <2>1. Unanswered /\ stage = "loader"
    BY DEF LoaderTimesOut, QuadTimesOut
  <2>2. QED
    BY <2>1 DEF Types, Away
<1>2. CASE LoaderTimesOut
  <2>1. Busy' = Busy /\ stage' = "recovery" /\ UNCHANGED <<defect, wel, qe, quad>>
    BY <1>2 DEF LoaderTimesOut, Busy
  <2>2. cont' \in BOOLEAN /\ dpd' \in BOOLEAN /\ (dpd' => dpd)
    BY <1>2 DEF LoaderTimesOut, Types
  <2>3. Types'
    BY <1>1, <2>1, <2>2 DEF Types
  <2>4. Loads'
    BY <1>1, <2>1 DEF Loads, LoaderAt, Away
  <2>5. QED
    BY <1>1, <2>1, <2>2, <2>3, <2>4
<1>3. CASE QuadTimesOut
  <2>1. lpc \in {"qewren", "qewrite", "qeready", "qeread"} /\ stage' = "loader" /\ lpc' = "map"
    BY <1>1, <1>3 DEF QuadTimesOut
  <2>2. UNCHANGED <<cont, dpd, qe, defect>> /\ (dpd => ~Busy)' /\ wel' \in BOOLEAN
    <3>1. CASE lpc = "qewrite"
      <4>1. Clear /\ (StartJob(StatusWrite) \/ UNCHANGED chip)
        BY <1>1, <1>3, <3>1 DEF QuadTimesOut, Loads
      <4>2. QED
        BY ONLY <4>1, JobOrNot, Types
    <3>2. CASE lpc # "qewrite"
      BY <1>1, <1>3, <3>2 DEF QuadTimesOut, WriteEnable, Types, Busy
    <3>3. QED
      BY <3>1, <3>2
  <2>3. quad' \in BOOLEAN /\ (quad' => qe /\ ~Busy')
    <3>1. CASE lpc = "qeread"
      <4>1. Clear /\ quad = FALSE /\ (ReadsQuad \/ UNCHANGED quad) /\ Busy' = Busy
        BY <1>1, <1>3, <3>1 DEF QuadTimesOut, Loads, Busy
      <4>2. QED
        BY <4>1 DEF ReadsQuad, Hears, Clear, Types
    <3>2. CASE lpc # "qeread"
      BY <1>1, <1>3, <2>1, <3>2 DEF QuadTimesOut, Loads
    <3>3. QED
      BY <3>1, <3>2
  <2>4. Types'
    <3>1. dpd' \in BOOLEAN /\ cont' \in BOOLEAN /\ qe' \in BOOLEAN
      BY <2>2 DEF Types
    <3>2. r' \in BOOLEAN /\ usesCont' \in BOOLEAN
      BY <1>1 DEF Types
    <3>3. QED
      BY ONLY <1>1, <2>2, <2>3, <3>1, <3>2 DEF Types
  <2>5. ~cont /\ ~dpd /\ defect # "mute"
    BY <1>1, <2>1 DEF Loads, Clear
  <2>6. Loads'
    BY <1>1, <2>1, <2>2, <2>3, <2>5 DEF Loads, LoaderAt, Away
  <2>7. QED
    BY <1>1, <2>2, <2>4, <2>6
<1>4. QED
  BY <1>2, <1>3

(* A reset at any moment, and a power cut.                                 *)
LEMMA RestartKeeps ==
  ASSUME Types, dpd => ~Busy, Reset \/ PowerCut
  PROVE  (Types /\ Loads /\ Away /\ (dpd => ~Busy))'
<1> USE DEF chip, content
<1>1. (dpd => ~Busy)'
  <2>1. CASE Reset
    BY <2>1 DEF Reset, Busy
  <2>2. CASE PowerCut
    BY <2>2 DEF PowerCut, ChipPowerCut, Busy, NoJob
  <2>3. QED
    BY <2>1, <2>2
<1>2. Types'
  BY DEF Types, Reset, PowerCut, Restart, ChipPowerCut, QeSet
<1>3. Away'
  BY DEF Away, Reset, PowerCut, Restart
<1>4. Loads'
  BY <1>3 DEF Loads, LoaderAt, Away, Reset, PowerCut, Restart
<1>5. QED
  BY <1>1, <1>2, <1>3, <1>4

-----------------------------------------------------------------------------
(* The chip ends what it was doing: the chunk in progress is as it should  *)
(* be, and the rest as it was.                                             *)
LEMMA FinishKeeps ==
  ASSUME StartInv, ChipFinishes, UNCHANGED <<driver, loader>>
  PROVE  StartInv'
<1> USE DEF driver, loader
<1>1. ~Busy' /\ UNCHANGED <<cont, dpd, wel, defect>> /\ (qe => qe') /\ DOMAIN job' = {}
  BY DEF ChipFinishes, NoJob, Busy
<1>2. \A u \in Units : cells'[u] = IF u \in DOMAIN job THEN job[u] ELSE cells[u]
  BY DEF ChipFinishes
<1>3. Stop' = Stop /\ Chunk' = Chunk
  BY DEF Stop, Chunk
<1>4. Types' /\ Calls' /\ Answers'
  <2>1. qe' \in BOOLEAN
    BY DEF ChipFinishes, QeSet, StartInv, Types
  <2>2. QED
    BY <1>1, <2>1 DEF StartInv, Types, Calls, Writing, Answers
<1>5. Modes'
  BY <1>1 DEF StartInv, Modes, Clear
<1>6. Loads'
  BY <1>1 DEF StartInv, Loads, LoaderAt, Clear, Readable, Busy
<1>7. Done'
  <2>1. \A u \in Units : call.from <= u /\ u < at => cells'[u] = call.val
    <3>1. CASE qpc = "off"
      BY <3>1, <1>2 DEF StartInv, Loads, NoCall, Units
    <3>2. CASE qpc # "off"
      BY <3>2, <1>2, ChunkNat DEF StartInv, Calls, Done, Units
    <3>3. QED
      BY <3>1, <3>2
  <2>2. QED
    BY <1>1, <1>3, <2>1 DEF Done, Units
<1>8. ToDo'
  <2>1. SUFFICES ASSUME call.kind = "program", qpc # "off", NEW u \in Units, u < call.to,
                        u >= Stop \/ (u >= at /\ qpc \in {"chunk", "leave", "endcont", "wren", "send"})
                 PROVE  cells'[u] = Erased
    BY <1>3 DEF ToDo, Units
  <2>2. cells[u] = Erased
    BY <2>1 DEF StartInv, ToDo
  <2>3. u \notin DOMAIN job
    BY <2>1, ChunkNat DEF StartInv, Done, Busy, Units
  <2>4. QED
    BY <1>2, <2>2, <2>3
<1>9. Effects'
  <2>1. SUFFICES ASSUME Sound, qpc \in {"poll", "remap", "check"}, Writing, NEW u \in at .. Stop - 1
                 PROVE  cells'[u] = call.val
    BY <1>1, <1>3 DEF StartInv, Effects, Sound, Writing
  <2>2. Calls /\ at < call.to /\ at \in Nat /\ call.to \in 0 .. Size
    BY <2>1 DEF StartInv, Calls
  <2>3. u \in Units
    BY <2>1, <2>2, ChunkFits, ChunkNat, ChipSizes DEF Units
  <2>4. IF u \in DOMAIN job THEN job[u] = call.val ELSE cells[u] = call.val
    BY <2>1 DEF StartInv, Effects
  <2>5. QED
    BY <1>2, <2>3, <2>4
<1>10. QED
  BY <1>4, <1>5, <1>6, <1>7, <1>8, <1>9 DEF StartInv

-----------------------------------------------------------------------------
(* A call begins: nothing is done yet, and what it programs is erased.     *)
LEMMA EnterKeeps ==
  ASSUME StartInv, stage = "os", UNCHANGED loader,
         NEW c \in [kind : {"none", "info", "erase", "program"}, from : Nat, to : 0 .. Size, val : Vals \cup {Erased}],
         Enter(c), c.kind # "none", c.from <= c.to,
         c.kind = "info" => c.from = c.to,
         c.kind = "erase" => c.val = Erased /\ c.from % Block = 0 /\ c.to % Block = 0,
         c.kind = "program" => Blank(c.from, c.to)
  PROVE  StartInv'
<1> USE DEF Enter, loader, chip, content
<1>1. Types' /\ Busy' = Busy /\ ~Busy
  BY DEF StartInv, Types, Modes, Busy
<1>2. Calls'
  BY DEF StartInv, Calls, Writing
<1>3. Modes'
  BY <1>1 DEF StartInv, Modes, Clear
<1>4. Done'
  BY <1>1, <1>2 DEF Done, Busy, Units, Calls
<1>5. ToDo'
  <2>1. Stop' = at' + Chunk' /\ Chunk' \in Nat /\ at' \in Nat
    <3>1. (Chunk \in Nat)'
      BY <1>2, ChunkNat, PTL
    <3>2. QED
      BY <1>2, <3>1 DEF Stop, Calls
  <2>2. SUFFICES ASSUME c.kind = "program", NEW u \in Units, u < c.to, u >= c.from PROVE cells[u] = Erased
    BY <2>1 DEF ToDo, Units
  <2>3. QED
    BY <2>2 DEF Blank, Units
<1>6. Effects'
  BY DEF Effects
<1>7. Answers' /\ Loads'
  BY <1>1 DEF StartInv, Answers, Loads, LoaderAt
<1>8. QED
  BY <1>1, <1>2, <1>3, <1>4, <1>5, <1>6, <1>7 DEF StartInv

LEMMA CallKeeps == ASSUME StartInv, OsCall PROVE StartInv'
<1>1. stage = "os" /\ UNCHANGED loader
  BY DEF OsCall
<1>2. CASE StorageInit
  <2>1. Enter([kind |-> "info", from |-> 0, to |-> 0, val |-> Erased])
    <3>1. [NoCall EXCEPT !.kind = "info"] = [kind |-> "info", from |-> 0, to |-> 0, val |-> Erased]
      BY DEF NoCall
    <3>2. QED
      BY <1>2, <3>1 DEF StorageInit
  <2>2. QED
    BY <1>1, <1>2, <2>1, EnterKeeps, ChipSizes DEF StorageInit
<1>3. CASE StorageErase
  BY <1>1, <1>3, EnterKeeps, ChipSizes DEF StorageErase
<1>4. CASE StorageProgram
  BY <1>1, <1>4, EnterKeeps, ChipSizes DEF StorageProgram
<1>5. QED
  BY <1>2, <1>3, <1>4 DEF OsCall

-----------------------------------------------------------------------------
(* The driver's steps, one by one.                                         *)
LEMMA SameChunk == UNCHANGED <<call, at>> => Stop' = Stop /\ Chunk' = Chunk
BY DEF Stop, Chunk

LEMMA OsLoads == ASSUME stage = "os", UNCHANGED loader, qpc' # "off" PROVE Loads'
BY DEF Loads, LoaderAt, loader

LEMMA SameContent ==
  ASSUME Done, UNCHANGED <<cells, job, call, at>>, qpc # "off",
         Busy => qpc' \in {"poll", "remap", "dead"}
  PROVE  Done' /\ Busy' = Busy
BY SameChunk DEF Done, Units, Busy

LEMMA NextChunkKeeps == ASSUME StartInv, stage = "os", UNCHANGED loader, NextChunk PROVE StartInv'
<1> USE DEF NextChunk, chip, content
<1>1. Types' /\ Busy' = Busy /\ ~Busy
  BY DEF StartInv, Types, Modes, Busy, Go, Return
<1>2. Loads'
  BY OsLoads DEF Go, Return
<1>3. Calls /\ call.kind \in {"erase", "program"}
  BY DEF StartInv, Calls, Writing
<1>4. Modes'
  BY <1>1 DEF StartInv, Modes, Go, Return, Clear
<1>5. Effects'
  BY DEF StartInv, Effects, Go, Return
<1>6. CASE at = call.to
  <2>1. Return(TRUE)
    BY <1>6
  <2>2. Calls'
    BY <2>1 DEF StartInv, Calls, Return, Writing
  <2>3. Done'
    BY <1>1, <2>1, SameContent DEF StartInv, Return
  <2>4. ToDo'
    BY <2>1, <1>6, <1>3, SameChunk, ChunkNat DEF StartInv, ToDo, Return, Units, Calls
  <2>5. Answers'
    BY <2>1, <1>6 DEF Answers, Return
  <2>6. QED
    BY <1>1, <1>2, <1>4, <1>5, <2>2, <2>3, <2>4, <2>5 DEF StartInv
<1>7. CASE at # call.to /\ call.kind = "erase" /\ Blank(at, at + Chunk)
  <2>1. at' = at + Chunk /\ UNCHANGED <<qpc, call, res, usable, usesCont>>
    BY <1>7
  <2>2. Stop <= call.to /\ Stop % Block = 0 /\ Stop = at' /\ at < call.to /\ Chunk \in Nat
    BY <1>3, <1>7, <2>1, ChunkFits, ChunkNat DEF Calls, Writing, Stop
  <2>3. Calls'
    BY <2>1, <2>2, <1>7 DEF StartInv, Calls, Writing
  <2>4. Done'
    BY <1>1, <1>3, <1>7, <2>1, <2>2 DEF StartInv, Done, Calls, Blank, Units, Busy
  <2>5. ToDo'
    BY <1>7, <2>1 DEF ToDo
  <2>6. Answers'
    BY <2>1 DEF Answers
  <2>7. QED
    BY <1>1, <1>2, <1>4, <1>5, <2>3, <2>4, <2>5, <2>6 DEF StartInv
<1>8. CASE at # call.to /\ ~(call.kind = "erase" /\ Blank(at, at + Chunk))
  <2>1. Go("leave") /\ at < call.to
    BY <1>3, <1>8 DEF Calls
  <2>2. Calls'
    BY <2>1, <1>3 DEF Calls, Go, Writing
  <2>3. Done'
    BY <1>1, <2>1, SameContent DEF StartInv, Go
  <2>4. ToDo'
    BY <2>1, SameChunk DEF StartInv, ToDo, Go, Units
  <2>5. Answers'
    BY <2>1 DEF Answers, Go
  <2>6. QED
    BY <1>1, <1>2, <1>4, <1>5, <2>2, <2>3, <2>4, <2>5 DEF StartInv
<1>9. QED
  BY <1>6, <1>7, <1>8

(* Out of memory-mapped mode: the chip hears commands again.               *)
LEMMA LeaveKeeps ==
  ASSUME StartInv, stage = "os", UNCHANGED loader, LeaveMapped \/ EndContinuous
  PROVE  StartInv'
<1> USE DEF LeaveMapped, EndContinuous, Go, chip
<1>1. UNCHANGED <<cells, job, call, at>> /\ qpc' # "off" /\ qpc # "off" /\ ~Busy
  BY DEF StartInv, Modes
<1>2. Loads' /\ Done' /\ Busy' = Busy
  BY <1>1, OsLoads, SameContent DEF StartInv
<1>3. Types'
  BY DEF StartInv, Types
<1>4. Calls'
  BY DEF StartInv, Calls, Writing
<1>5. Modes'
  BY <1>1, <1>2 DEF StartInv, Types, Modes, Clear
<1>6. ToDo'
  BY SameChunk DEF StartInv, ToDo, Units
<1>7. Effects' /\ Answers'
  BY DEF StartInv, Effects, Answers, Sound
<1>8. QED
  BY <1>2, <1>3, <1>4, <1>5, <1>6, <1>7 DEF StartInv

LEMMA CommandKeeps ==
  ASSUME StartInv, stage = "os", UNCHANGED loader, ReadId \/ SendWriteEnable
  PROVE  StartInv'
<1> USE DEF ReadId, SendWriteEnable, WriteEnable, Go, chip, content
<1>1. UNCHANGED <<cells, job, call, at>> /\ qpc' # "off" /\ qpc # "off" /\ ~Busy /\ Clear
  BY DEF StartInv, Modes, Clear
<1>2. Loads' /\ Done' /\ Busy' = Busy
  BY <1>1, OsLoads, SameContent DEF StartInv
<1>3. Hears("id") /\ Hears("wren")
  BY <1>1 DEF Clear, Hears
<1>4. Types'
  BY <1>3 DEF StartInv, Types
<1>5. Calls'
  BY DEF StartInv, Calls, Writing
<1>6. Modes'
  BY <1>1, <1>2 DEF StartInv, Modes, Clear
<1>7. ToDo'
  BY SameChunk DEF StartInv, ToDo, Units
<1>8. Effects' /\ Answers'
  BY <1>3 DEF StartInv, Calls, Writing, Effects, Answers, Sound
<1>9. QED
  BY <1>2, <1>4, <1>5, <1>6, <1>7, <1>8 DEF StartInv

-----------------------------------------------------------------------------
(* What is sent for a chunk: all of it, with the value that was asked for. *)
Work == IF call.kind = "erase" THEN EraseOf(at, Chunk) ELSE ProgramOf(at, Chunk, call.val)

LEMMA WorkIs ==
  ASSUME Calls, Writing, at < call.to
  PROVE  /\ DOMAIN Work = at .. Stop - 1
         /\ (call.kind = "program" => \A u \in at .. Stop - 1 : cells[u] = Erased) =>
              \A u \in at .. Stop - 1 : Work[u] = call.val
<1>1. CASE call.kind = "erase"
  <2>1. Work = [u \in at .. Stop - 1 |-> Erased] /\ call.val = Erased
    <3>1. call.val = Erased
      BY <1>1 DEF Calls
    <3>2. Stop - 1 = at + Chunk - 1
      BY ChunkNat DEF Stop, Calls
    <3>3. Work = EraseOf(at, Chunk)
      BY <1>1 DEF Work
    <3>4. Work = [u \in at .. at + Chunk - 1 |-> Erased]
      BY <3>3 DEF EraseOf
    <3>5. QED
      BY <3>1, <3>2, <3>4
  <2>2. QED
    BY <2>1, <1>1
<1>2. CASE call.kind = "program"
  <2>1. Work = [u \in {InPage(at, k) : k \in 0 .. Chunk - 1} |-> Programmed(cells[u], call.val)]
    BY <1>2 DEF Work, ProgramOf
  <2>2. Work = [u \in at .. Stop - 1 |-> Programmed(cells[u], call.val)]
    BY <1>2, <2>1, ProgramWithin
  <2>3. QED
    BY <2>2, <1>2 DEF Programmed
<1>3. QED
  BY <1>1, <1>2 DEF Writing

(* The chip begins a chunk, or not: a lost command may have been taken.    *)
LEMMA SendKeeps ==
  ASSUME StartInv, stage = "os", UNCHANGED loader, qpc = "send",
         StartJob(Work) \/ (UNCHANGED chip /\ lost' > 0),
         \/ Go("poll") /\ UNCHANGED <<r, lost>>
         \/ Go("remap") /\ lost' > 0 /\ lost' \in Nat /\ r' = FALSE
  PROVE  StartInv'
<1> USE DEF Go, chip, content
<1>1. Calls /\ Writing /\ at < call.to /\ Clear /\ qpc # "off" /\ qpc' \in {"poll", "remap"} /\ lost' \in Nat
  BY DEF StartInv, Types, Calls, Modes
<1>2. UNCHANGED <<cells, cont, dpd, qe, defect, call, at>>
  BY DEF StartJob
<1>3. Types'
  BY <1>1, <1>2 DEF StartInv, Types, StartJob
<1>4. Loads'
  BY <1>1, OsLoads
<1>5. Calls'
  BY <1>1, <1>2 DEF Calls, Writing
<1>6. Modes'
  BY <1>1, <1>2 DEF Modes, Clear
<1>7. job' = job \/ job' = Work
  BY DEF StartJob
<1>8. Stop' = Stop /\ DOMAIN Work = at .. Stop - 1
  BY <1>1, <1>2, SameChunk, WorkIs
<1>9. Done'
  BY <1>1, <1>2, <1>7, <1>8 DEF StartInv, Done, Units, Busy
<1>10. ToDo'
  BY <1>1, <1>2, <1>8 DEF StartInv, ToDo, Units
<1>11. Effects'
  <2>1. CASE Sound'
    <3>1. Sound /\ Go("poll") /\ UNCHANGED <<r, lost>> /\ StartJob(Work)
      BY <2>1, <1>2 DEF Sound
    <3>2. job' = Work /\ r /\ r' = r
      BY <3>1, <1>1 DEF StartInv, Effects, Sound, StartJob, Hears, Clear
    <3>3. call.kind = "program" => \A u \in at .. Stop - 1 : cells[u] = Erased
      <4>1. SUFFICES ASSUME call.kind = "program", NEW u \in at .. Stop - 1 PROVE cells[u] = Erased
        OBVIOUS
      <4>2. at \in Nat /\ call.to \in 0 .. Size /\ Stop <= call.to /\ Stop \in Nat
        BY <1>1, ChunkFits, ChunkNat DEF Calls
      <4>3. u \in Units /\ u < call.to /\ u >= at
        BY <4>2, ChipSizes DEF Units
      <4>4. QED
        BY <4>1, <4>3 DEF StartInv, ToDo
    <3>4. \A u \in at .. Stop - 1 : u \in DOMAIN job' /\ job'[u] = call.val
      BY <3>2, <3>3, <1>1, <1>8, WorkIs
    <3>5. QED
      BY <3>1, <3>2, <3>4, <1>2, <1>8 DEF Effects
  <2>2. QED
    BY <2>1 DEF Effects
<1>12. Answers'
  BY <1>1 DEF Answers
<1>13. QED
  BY <1>3, <1>4, <1>5, <1>6, <1>9, <1>10, <1>11, <1>12 DEF StartInv

LEMMA PollKeeps == ASSUME StartInv, stage = "os", UNCHANGED loader, Poll PROVE StartInv'
<1> USE DEF Poll, Go, chip, content
<1>1. UNCHANGED <<cells, job, call, at>> /\ qpc' = "remap" /\ qpc = "poll"
  OBVIOUS
<1>2. Loads' /\ Done' /\ Busy' = Busy
  BY <1>1, OsLoads, SameContent DEF StartInv
<1>3. Types' /\ Calls'
  BY DEF StartInv, Types, Calls, Writing
<1>4. Modes'
  BY <1>1, <1>2 DEF StartInv, Modes, Clear
<1>5. ToDo'
  BY SameChunk DEF StartInv, ToDo, Units
<1>6. Effects'
  BY SameChunk DEF StartInv, Effects, Sound, Writing
<1>7. Answers'
  BY <1>1 DEF Answers
<1>8. QED
  BY <1>2, <1>3, <1>4, <1>5, <1>6, <1>7 DEF StartInv

LEMMA MapKeeps == ASSUME StartInv, stage = "os", UNCHANGED loader, EnterMapped PROVE StartInv'
<1> USE DEF EnterMapped, Go, Return, chip, content
<1>1. UNCHANGED <<cells, job, call, at, dpd, defect, r, lost>> /\ qpc' \in {"idle", "check", "dead"} /\ qpc = "remap"
  OBVIOUS
<1>2. Busy' = Busy /\ (qpc' # "dead" => Reads) /\ (qpc' = "dead" => ~Reads)
  BY DEF Busy
<1>3. Loads' /\ Done'
  BY <1>1, <1>2, OsLoads, SameContent DEF StartInv, Reads, Readable
<1>4. Types'
  BY DEF StartInv, Types
<1>5. Calls'
  BY DEF StartInv, Calls, Writing
<1>6. Modes'
  BY <1>1, <1>2 DEF StartInv, Modes, Clear, Reads, Readable
<1>7. ToDo'
  BY <1>1, SameChunk DEF StartInv, ToDo, Units
<1>8. Effects'
  BY <1>1, SameChunk DEF StartInv, Effects, Sound, Writing
<1>9. Answers'
  <2>1. ~r => ~Sound
    BY <1>1 DEF StartInv, Effects
  <2>2. ~Sound => defect # "none" \/ lost > 0
    BY DEF StartInv, Types, Sound
  <2>3. call.kind = "info" => at = call.to
    BY DEF StartInv, Calls, Writing
  <2>4. qpc' = "idle" /\ res' = "ok" => call.kind = "info"
    OBVIOUS
  <2>5. qpc' = "idle" /\ res' = "failed" => ~r
    OBVIOUS
  <2>6. QED
    BY <1>1, <2>1, <2>2, <2>3, <2>4, <2>5 DEF Answers
<1>10. QED
  BY <1>3, <1>4, <1>5, <1>6, <1>7, <1>8, <1>9 DEF StartInv

LEMMA CheckKeeps == ASSUME StartInv, stage = "os", UNCHANGED loader, Check PROVE StartInv'
<1> USE DEF Check, Return, chip, content
<1>1. Calls /\ Writing /\ at < call.to /\ ~Busy /\ Busy' = Busy /\ at \in Nat /\ Chunk \in Nat /\ Stop <= call.to
  BY ChunkNat, ChunkFits DEF StartInv, Calls, Modes, Busy
<1>2. Loads'
  BY OsLoads
<1>3. Types'
  BY DEF StartInv, Types
<1>4. Modes'
  BY <1>1 DEF StartInv, Modes, Clear
<1>5. Effects'
  BY DEF Effects
<1>6. CASE Holds(at, at + Chunk, call.val)
  <2>1. at' = Stop /\ UNCHANGED <<call, res, job, cells>> /\ qpc' = "chunk" /\ Stop = at + Chunk
    BY <1>6 DEF Stop
  <2>2. call.kind = "erase" => Stop % Block = 0
    BY <1>1, ChunkFits
  <2>3. Calls'
    BY <2>1, <2>2, <1>1 DEF Calls, Writing
  <2>4. Done'
    BY <1>1, <1>6, <2>1 DEF StartInv, Done, Calls, Holds, Units, Busy
  <2>5. ToDo'
    <3>1. (Chunk \in Nat)'
      BY <2>3, ChunkNat, PTL
    <3>2. Stop' = at' + Chunk' /\ at' \in Nat /\ at' = Stop
      BY <2>1, <2>3 DEF Stop, Calls
    <3>3. Stop' >= Stop /\ Stop' \in Nat
      <4>1. PICK c \in Nat : c = Chunk'
        BY <3>1
      <4>2. Stop' = Stop + c /\ Stop \in Nat
        BY <3>2, <4>1
      <4>3. QED
        BY ONLY <4>2, c \in Nat
    <3>4. QED
      BY <1>1, <2>1, <3>2, <3>3 DEF StartInv, ToDo, Units
  <2>6. Answers'
    BY <2>1 DEF Answers
  <2>7. QED
    BY <1>2, <1>3, <1>4, <1>5, <2>3, <2>4, <2>5, <2>6 DEF StartInv
<1>7. CASE ~Holds(at, at + Chunk, call.val)
  <2>1. UNCHANGED <<cells, job, call, at, defect, lost>> /\ qpc' = "idle" /\ res' = "failed" /\ qpc = "check"
    BY <1>7
  <2>2. Calls'
    BY <2>1, <1>1 DEF Calls, Writing
  <2>3. Done'
    BY <1>1, <2>1, SameContent DEF StartInv
  <2>4. ToDo'
    BY <2>1, SameChunk DEF StartInv, ToDo, Units
  <2>5. ~Sound
    BY <1>1, <1>7, <2>1 DEF StartInv, Effects, Busy, Holds, Stop
  <2>6. Answers'
    BY <2>1, <2>5 DEF StartInv, Types, Answers, Sound
  <2>7. QED
    BY <1>2, <1>3, <1>4, <1>5, <2>2, <2>3, <2>4, <2>6 DEF StartInv
<1>8. QED
  BY <1>6, <1>7

(* A command that times out is remembered; what it did, it did.            *)
LEMMA TimeOutKeeps == ASSUME StartInv, OsTimesOut PROVE StartInv'
<1> USE DEF OsTimesOut, TimesOut
<1>1. stage = "os" /\ UNCHANGED loader /\ lost' \in Nat /\ lost' > 0 /\ Go("remap") /\ r' = FALSE
  BY DEF StartInv, Types
<1>2. CASE qpc = "send"
  <2>1. StartJob(Work) \/ UNCHANGED chip
    BY <1>2 DEF Work
  <2>2. QED
    BY <1>1, <1>2, <2>1, SendKeeps
<1>3. CASE qpc # "send"
  <2> USE DEF WriteEnable, Go, chip, content
  <2>1. UNCHANGED <<cells, job, call, at, dpd, defect>> /\ qpc' = "remap" /\ qpc \in {"endcont", "id", "wren", "poll"}
    BY <1>3
  <2>2. cont' \in BOOLEAN /\ wel' \in BOOLEAN /\ qe' \in BOOLEAN /\ usesCont' \in BOOLEAN
    BY <1>3 DEF StartInv, Types, Hears
  <2>3. Types'
    <3>1. dpd' \in BOOLEAN /\ r' \in BOOLEAN
      BY <1>1, <2>1 DEF StartInv, Types
    <3>2. QED
      BY ONLY <1>1, <2>2, <3>1 DEF Types
  <2>4. Loads' /\ Done' /\ Busy' = Busy
    BY <1>1, <2>1, OsLoads, SameContent DEF StartInv
  <2>5. Calls'
    BY <2>1 DEF StartInv, Calls, Writing
  <2>6. Modes'
    BY <1>1, <2>1, <2>4 DEF StartInv, Modes, Clear
  <2>7. ToDo'
    BY <2>1, SameChunk DEF StartInv, ToDo, Units
  <2>8. Effects' /\ Answers'
    BY <1>1, <2>1 DEF Effects, Answers, Sound
  <2>9. QED
    BY <2>3, <2>4, <2>5, <2>6, <2>7, <2>8 DEF StartInv
<1>4. QED
  BY <1>2, <1>3

-----------------------------------------------------------------------------
LEMMA VectorsKeeps == ASSUME StartInv, Vectors, Types', Loads', (dpd => ~Busy)' PROVE StartInv'
<1> USE DEF Vectors, LoaderAt, chip, content
<1>1. Away
  BY DEF StartInv, Loads, Away
<1>2. CASE image /\ Reads /\ (usesCont => qe)
  <2>1. Busy' = Busy
    BY DEF Busy
  <2>2. /\ qpc' = "idle" /\ res' = "none" /\ UNCHANGED <<cells, job, usesCont, dpd, defect, call, at>>
        /\ cont' = usesCont /\ Readable
    BY <1>1, <1>2 DEF Away, Reads
  <2>3. call = [kind |-> "none", from |-> 0, to |-> 0, val |-> Erased] /\ at = 0
    BY <1>1 DEF Away, NoCall
  <2>4. Calls'
    BY <2>2, <2>3, ChipSizes DEF Calls, Writing
  <2>5. Modes'
    BY <1>1, <2>1, <2>2 DEF Modes, Clear, Readable
  <2>6. Done' /\ ToDo' /\ Effects' /\ Answers'
    BY <1>1, <2>1, <2>2, <2>3 DEF Done, ToDo, Effects, Answers, Units, Busy, Readable
  <2>7. QED
    BY <2>4, <2>5, <2>6 DEF StartInv
<1>3. CASE ~(image /\ Reads /\ (usesCont => qe))
  <2>1. Away'
    BY <1>1, <1>3 DEF Away, Recover, driver
  <2>2. QED
    BY <2>1, NothingAsked, PTL DEF StartInv
<1>4. QED
  BY <1>2, <1>3

LEMMA StartKeeps == ASSUME StartInv, [StartNext]_startVars PROVE StartInv'
<1>1. Types /\ Loads /\ (dpd => ~Busy) /\ (stage # "os" => Away)
  BY DEF StartInv, Modes, Loads, Away
<1>2. ASSUME (Types /\ Loads /\ Away /\ (dpd => ~Busy))' PROVE StartInv'
  <2>1. (Calls /\ Modes /\ Done /\ ToDo /\ Effects /\ Answers)'
    BY <1>2, NothingAsked, PTL
  <2>2. QED
    BY <1>2, <2>1 DEF StartInv
<1>3. CASE LoaderStep
  <2>1. stage # "os"
    BY <1>3 DEF LoaderStep, RecoveryKey, LeaveContinuous, Release, ChipReady, Identify, ReadStatus2,
       QuadWriteEnable, QuadWrite, QuadReady, QuadRead, MapFlash, Vectors, LoaderAt
  <2>2. (Types /\ Loads /\ (dpd => ~Busy))' /\ (~Vectors => Away')
    BY <1>1, <1>3, <2>1, LoaderKeeps
  <2>3. CASE Vectors
    BY <2>2, <2>3, VectorsKeeps
  <2>4. CASE ~Vectors
    BY <1>2, <2>2, <2>4
  <2>5. QED
    BY <2>3, <2>4
<1>4. CASE LoaderTimesOut \/ QuadTimesOut
  <2>1. stage # "os"
    BY <1>4 DEF LoaderTimesOut, QuadTimesOut
  <2>2. QED
    BY <1>1, <1>2, <1>4, <2>1, LoaderGivesUp
<1>5. CASE Reset \/ PowerCut
  BY <1>1, <1>2, <1>5, RestartKeeps
<1>6. CASE OsStep
  <2>1. stage = "os" /\ UNCHANGED loader /\ DriverStep
    BY <1>6 DEF OsStep
  <2>2. CASE Send
    BY <2>1, <2>2, SendKeeps DEF Send, Work
  <2>3. QED
    BY <2>1, <2>2, NextChunkKeeps, LeaveKeeps, CommandKeeps, PollKeeps, MapKeeps, CheckKeeps DEF DriverStep
<1>7. CASE UNCHANGED startVars
  <2>1. Stop' = Stop /\ Busy' = Busy
    BY <1>7 DEF startVars, chip, content, driver, Stop, Chunk, Busy
  <2>2. QED
    BY <1>7, <2>1 DEF startVars, chip, content, driver, loader, StartInv, Types, Calls, Modes, Done, ToDo, Effects,
       Answers, Loads, Clear, Sound, Writing, LoaderAt, Readable
<1>8. QED
  BY <1>3, <1>4, <1>5, <1>6, <1>7, CallKeeps, TimeOutKeeps, FinishKeeps DEF StartNext

LEMMA StartAlways == StartSpec => []StartInv
BY StartsInv, StartKeeps, PTL DEF StartSpec

LEMMA FlashKept == StartInv => AnswersTrue /\ CodeReadable
<1> SUFFICES ASSUME StartInv PROVE AnswersTrue /\ CodeReadable
  OBVIOUS
<1>1. ASSUME qpc = "idle", res = "ok" PROVE Holds(call.from, call.to, call.val)
  <2>1. call.from \in Nat /\ call.to \in 0 .. Size /\ at = call.to
    BY <1>1 DEF StartInv, Calls, Answers
  <2>2. \A u \in call.from .. call.to - 1 : u \in Units /\ call.from <= u /\ u < at
    BY <2>1, ChipSizes DEF Units
  <2>3. QED
    BY <2>2 DEF StartInv, Done, Holds
<1>2. CodeReadable
  BY DEF CodeReadable, FromFlash, StartInv, Modes, Readable
<1>3. QED
  BY <1>1, <1>2 DEF AnswersTrue, StartInv, Answers

-----------------------------------------------------------------------------
(* storage.h, "0 on success": an erase or a program that says it was done  *)
(* is in the flash, whatever was lost, cut off or reset before it; one     *)
(* that fails had a cause.  And code that runs from the flash (the OS      *)
(* between two commands of storage_qspi.c) can read it.                    *)
THEOREM FlashIsTrue == StartSpec => [](AnswersTrue /\ CodeReadable)
BY StartAlways, FlashKept, PTL

(* loader.c: recovery is only for a cause; the vector table is read from a *)
(* chip that gives its contents, but for one that hangs or a command that  *)
(* was lost, and on four lines only from one that has QE on, whatever      *)
(* became of the write that was to set it.                                 *)
THEOREM LoaderStartsRight == StartSpec => []StartsRight
<1>1. StartInv => StartsRight
  BY DEF StartInv, Loads, StartsRight, LoaderAt, Readable
<1>2. QED
  BY <1>1, StartAlways, PTL

-----------------------------------------------------------------------------
(***************************************************************************)
(* The display.  The dirty rectangle and those that are drawn are empty,   *)
(* or have their corners on the screen.                                    *)
(***************************************************************************)
Onscreen(d) ==
  \/ d = Clean
  \/ \E x0, x1 \in 0 .. LCD_WIDTH - 1, y0, y1 \in 0 .. LCD_HEIGHT - 1 : d = <<x0, y0, x1, y1>>

Shows == powered => \A p \in Pixels : panel[p] # fb[p] => p \in Inside(dirty)
DisplayInv == powered \in BOOLEAN /\ Onscreen(dirty) /\ Shows

LEMMA RectNotClean == \A x0, y0, x1, y1 : <<x0, y0, x1, y1>> # Clean
BY DEF Clean

(* What is drawn is clipped to the screen.                                 *)
LEMMA ClipOnscreen ==
  ASSUME NEW x \in Int, NEW y \in Int, NEW w \in Int, NEW h \in Int
  PROVE  Onscreen(Clip(x, y, w, h))
<1> DEFINE r1 == More(x, 0)
           r2 == More(y, 0)
           r3 == Less(x + w - 1, LCD_WIDTH - 1)
           r4 == Less(y + h - 1, LCD_HEIGHT - 1)
<1>1. /\ r1 \in Nat /\ r2 \in Nat /\ r3 \in Int /\ r4 \in Int
      /\ r3 <= LCD_WIDTH - 1 /\ r4 <= LCD_HEIGHT - 1
  BY ScreenSize DEF More, Less
<1>2. Clip(x, y, w, h) = IF r1 > r3 \/ r2 > r4 THEN Clean ELSE <<r1, r2, r3, r4>>
  BY DEF Clip
<1> HIDE DEF r1, r2, r3, r4
<1>3. CASE r1 > r3 \/ r2 > r4
  BY <1>2, <1>3 DEF Onscreen
<1>4. CASE ~(r1 > r3 \/ r2 > r4)
  <2>1. r1 \in 0 .. LCD_WIDTH - 1 /\ r3 \in 0 .. LCD_WIDTH - 1
        /\ r2 \in 0 .. LCD_HEIGHT - 1 /\ r4 \in 0 .. LCD_HEIGHT - 1
    BY <1>1, <1>4, ScreenSize
  <2>2. QED
    BY <1>2, <1>4, <2>1 DEF Onscreen
<1>5. QED
  BY <1>3, <1>4

(* A rectangle that grows stays on the screen, and holds what it held and  *)
(* what was added.                                                         *)
LEMMA GrownHolds ==
  ASSUME NEW d, NEW e, Onscreen(d), Onscreen(e)
  PROVE  Onscreen(Grown(d, e)) /\ Inside(d) \subseteq Inside(Grown(d, e)) /\ Inside(e) \subseteq Inside(Grown(d, e))
<1>1. CASE e = Clean \/ d = Clean
  BY <1>1 DEF Grown, Inside
<1>2. CASE e # Clean /\ d # Clean
  <2>1. PICK x0, x1 \in 0 .. LCD_WIDTH - 1, y0, y1 \in 0 .. LCD_HEIGHT - 1 : d = <<x0, y0, x1, y1>>
    BY <1>2 DEF Onscreen
  <2>2. PICK u0, u1 \in 0 .. LCD_WIDTH - 1, v0, v1 \in 0 .. LCD_HEIGHT - 1 : e = <<u0, v0, u1, v1>>
    BY <1>2 DEF Onscreen
  <2>3. Grown(d, e) = <<Less(x0, u0), Less(y0, v0), More(x1, u1), More(y1, v1)>>
    BY <1>2, <2>1, <2>2 DEF Grown
  <2>4. PICK m0, m1 \in 0 .. LCD_WIDTH - 1, n0, n1 \in 0 .. LCD_HEIGHT - 1 :
          /\ m0 = Less(x0, u0) /\ m1 = More(x1, u1) /\ n0 = Less(y0, v0) /\ n1 = More(y1, v1)
    BY DEF Less, More
  <2>5. Grown(d, e) = <<m0, n0, m1, n1>> /\ Grown(d, e) # Clean
    BY <2>3, <2>4, RectNotClean
  <2>6. m0 <= x0 /\ m0 <= u0 /\ x1 <= m1 /\ u1 <= m1 /\ n0 <= y0 /\ n0 <= v0 /\ y1 <= n1 /\ v1 <= n1
    BY <2>4, ScreenSize DEF Less, More
  <2>7. ASSUME NEW p \in Pixels, p \in Inside(d) \/ p \in Inside(e) PROVE p \in Inside(Grown(d, e))
    <3>1. p[1] \in 0 .. LCD_WIDTH - 1 /\ p[2] \in 0 .. LCD_HEIGHT - 1
      BY DEF Pixels
    <3>2. (p[1] \in x0 .. x1 /\ p[2] \in y0 .. y1) \/ (p[1] \in u0 .. u1 /\ p[2] \in v0 .. v1)
      BY <1>2, <2>1, <2>2, <2>7 DEF Inside
    <3>3. p[1] \in m0 .. m1 /\ p[2] \in n0 .. n1
      BY <2>6, <3>1, <3>2, ScreenSize
    <3>4. QED
      BY <2>5, <3>3 DEF Inside
  <2>8. Onscreen(Grown(d, e))
    BY <2>5 DEF Onscreen
  <2>9. QED
    BY <2>7, <2>8 DEF Inside
<1>3. QED
  BY <1>1, <1>2

(* Drawing: what changes in the framebuffer is inside what grew.           *)
LEMMA DrawKeeps ==
  ASSUME DisplayInv, UNCHANGED <<panel, powered>>, Onscreen(dirty'), Inside(dirty) \subseteq Inside(dirty'),
         \A p \in Pixels : fb'[p] = fb[p] \/ p \in Inside(dirty')
  PROVE  DisplayInv'
<1>1. Shows'
  BY DEF DisplayInv, Shows, Pixels, Inside
<1>2. QED
  BY <1>1 DEF DisplayInv, Onscreen

LEMMA DisplayStarts == DisplayInit => DisplayInv
BY DEF DisplayInit, DisplayInv, Onscreen, Shows

LEMMA DisplayKeeps == ASSUME DisplayInv, [DisplayStep]_display PROVE DisplayInv'
<1>1. Onscreen(dirty) /\ Onscreen(Clean) /\ powered \in BOOLEAN
  BY DEF DisplayInv, Onscreen
<1>2. CASE FillRect
  <2>1. PICK a \in Asks, c \in Shades :
          LET q == IF a[3] <= 0 \/ a[4] <= 0 THEN Clean ELSE Clip(a[1], a[2], a[3], a[4])
          IN  /\ fb' = [p \in Pixels |-> IF p \in Inside(q) THEN c ELSE fb[p]]
              /\ dirty' = Grown(dirty, q) /\ UNCHANGED <<panel, powered>>
    BY <1>2 DEF FillRect
  <2> DEFINE q == IF a[3] <= 0 \/ a[4] <= 0 THEN Clean ELSE Clip(a[1], a[2], a[3], a[4])
  <2>2. Onscreen(q)
    BY <1>1, ClipOnscreen, ScreenSize
  <2>3. Onscreen(Grown(dirty, q)) /\ Inside(dirty) \subseteq Inside(Grown(dirty, q)) /\ Inside(q) \subseteq Inside(Grown(dirty, q))
    BY <1>1, <2>2, GrownHolds
  <2> HIDE DEF q
  <2>4. QED
    BY <2>1, <2>3, DrawKeeps DEF q
<1>3. CASE Frame
  <2>1. PICK a \in Asks, c \in Shades :
          LET top == Clip(a[1], a[2], a[3], 1)
              low == Clip(a[1], a[2] + a[4] - 1, a[3], 1)
              left == Clip(a[1], a[2], 1, a[4])
              right == Clip(a[1] + a[3] - 1, a[2], 1, a[4])
          IN  /\ fb' = [p \in Pixels |-> IF \E q \in {top, low, left, right} : p \in Inside(q) THEN c ELSE fb[p]]
              /\ dirty' = Grown(Grown(Grown(Grown(dirty, top), low), left), right)
              /\ UNCHANGED <<panel, powered>>
    BY <1>3 DEF Frame
  <2> DEFINE top == Clip(a[1], a[2], a[3], 1)
             low == Clip(a[1], a[2] + a[4] - 1, a[3], 1)
             left == Clip(a[1], a[2], 1, a[4])
             right == Clip(a[1] + a[3] - 1, a[2], 1, a[4])
             d1 == Grown(dirty, top)
             d2 == Grown(d1, low)
             d3 == Grown(d2, left)
             d4 == Grown(d3, right)
  <2>2. a[1] \in Int /\ a[2] \in Int /\ a[3] \in Int /\ a[4] \in Int
    BY ScreenSize
  <2>3. Onscreen(top) /\ Onscreen(low) /\ Onscreen(left) /\ Onscreen(right)
    BY <2>2, ClipOnscreen
  <2>4. /\ fb' = [p \in Pixels |-> IF \E q \in {top, low, left, right} : p \in Inside(q) THEN c ELSE fb[p]]
        /\ dirty' = d4 /\ UNCHANGED <<panel, powered>>
    BY <2>1
  <2> HIDE DEF top, low, left, right
  <2>5. Onscreen(d1) /\ Inside(dirty) \subseteq Inside(d1) /\ Inside(top) \subseteq Inside(d1)
    BY <1>1, <2>3, GrownHolds
  <2> HIDE DEF d1
  <2>6. Onscreen(d2) /\ Inside(d1) \subseteq Inside(d2) /\ Inside(low) \subseteq Inside(d2)
    BY <2>5, <2>3, GrownHolds
  <2> HIDE DEF d2
  <2>7. Onscreen(d3) /\ Inside(d2) \subseteq Inside(d3) /\ Inside(left) \subseteq Inside(d3)
    BY <2>6, <2>3, GrownHolds
  <2> HIDE DEF d3
  <2>8. Onscreen(d4) /\ Inside(d3) \subseteq Inside(d4) /\ Inside(right) \subseteq Inside(d4)
    BY <2>7, <2>3, GrownHolds
  <2> HIDE DEF d4
  <2>9. \A p \in Pixels : fb'[p] = fb[p] \/ p \in Inside(dirty')
    BY <2>4, <2>5, <2>6, <2>7, <2>8
  <2>10. QED
    BY <2>4, <2>5, <2>6, <2>7, <2>8, <2>9, DrawKeeps
<1>4. CASE Image
  <2>1. PICK a \in Asks :
          LET q == Clip(a[1], a[2], a[3], a[4])
          IN  /\ \E even, odd \in Shades :
                   fb' = [p \in Pixels |-> IF p \notin Inside(q) THEN fb[p] ELSE IF (p[1] + p[2]) % 2 = 0 THEN even ELSE odd]
              /\ dirty' = Grown(dirty, q) /\ UNCHANGED <<panel, powered>>
    BY <1>4 DEF Image
  <2> DEFINE q == Clip(a[1], a[2], a[3], a[4])
  <2>2. Onscreen(q)
    BY ClipOnscreen, ScreenSize
  <2>3. Onscreen(Grown(dirty, q)) /\ Inside(dirty) \subseteq Inside(Grown(dirty, q)) /\ Inside(q) \subseteq Inside(Grown(dirty, q))
    BY <1>1, <2>2, GrownHolds
  <2> HIDE DEF q
  <2>4. (\A p \in Pixels : p \notin Inside(q) => fb'[p] = fb[p]) /\ dirty' = Grown(dirty, q)
    BY <2>1 DEF q
  <2>5. QED
    BY <2>1, <2>3, <2>4, DrawKeeps
<1>5. CASE Flush
  BY <1>1, <1>5 DEF Flush, Sent, DisplayInv, Shows
<1>6. CASE PowerOn
  <2>1. \A p \in Pixels : p \in Inside(WholeScreen)
    BY RectNotClean, ScreenSize DEF Inside, WholeScreen, Pixels
  <2>2. \A p \in Pixels : panel'[p] = fb'[p]
    BY <1>6, <2>1 DEF PowerOn, Sent
  <2>3. QED
    BY <1>1, <1>6, <2>2 DEF PowerOn, DisplayInv, Shows
<1>7. CASE PowerOff
  BY <1>1, <1>7 DEF PowerOff, DisplayInv, Shows
<1>8. CASE UNCHANGED display
  BY <1>8 DEF display, DisplayInv, Shows, Onscreen, Inside
<1>9. QED
  BY <1>2, <1>3, <1>4, <1>5, <1>6, <1>7, <1>8 DEF DisplayStep

LEMMA DisplayShows == DisplayInv => PanelShows
<1> SUFFICES ASSUME DisplayInv PROVE PanelShows
  OBVIOUS
<1>1. ASSUME dirty # Clean PROVE {<<dirty[1], dirty[2]>>, <<dirty[3], dirty[4]>>} \subseteq Pixels
  <2>1. PICK x0, x1 \in 0 .. LCD_WIDTH - 1, y0, y1 \in 0 .. LCD_HEIGHT - 1 : dirty = <<x0, y0, x1, y1>>
    BY <1>1 DEF DisplayInv, Onscreen
  <2>2. QED
    BY <2>1 DEF Pixels
<1>2. QED
  BY <1>1 DEF DisplayInv, Shows, PanelShows

-----------------------------------------------------------------------------
(***************************************************************************)
(* Requests on endpoint 0.  The bytes of a reply of kind k after its first *)
(* a, and where the host and the driver are with a request.                *)
(***************************************************************************)
Part(k, a, n) == [j \in 1 .. n |-> <<k, a + j>>]
Whole(rq) == Part(rq.kind, 0, Least(rq.len, rq.wlength))
Plain(rq) == rq.kind \notin {"set", "line", "bad"}
StageOf(rq) == IF rq.kind \in {"set", "bad"} THEN "status in" ELSE IF rq.kind = "line" THEN "out" ELSE "in"

(* The states of the driver and of the host, by the fields they have.      *)
Setups == Requests \cup {Nothing}
Kinds == {rq.kind : rq \in Setups}
Bytes == Kinds \X Nat
Packets == [is : {"setup", "data", "empty"}, req : Setups, coding : Codings]
Ep0 ==
  [setup : Setups, tx : Nat, left : Nat, zlp : BOOLEAN, outReq : BOOLEAN, buf : Codings, line : Codings,
   fifo : Seq(Bytes), size : Nat \cup {-1}, nak : BOOLEAN, sent : BOOLEAN,
   rx : Seq(Packets),
   stup : BOOLEAN, got : BOOLEAN, armed : BOOLEAN, stall : BOOLEAN, reset : BOOLEAN]
Host0 ==
  [req : Setups, got : Seq(Bytes), coding : Codings,
   stage : {"idle", "in", "out", "status in", "status out", "done", "refused"}]

(* The packet in the transmit FIFO is whole, and not yet gone.             *)
NoPacket(d) == d.size = -1 /\ d.fifo = <<>>
Packet(d) == NoPacket(d) \/ (d.size = Len(d.fifo) /\ ~d.sent)
Calm(d) == ~d.reset /\ d.rx = <<>>

(* Nothing is asked; a SETUP waits to be read; a reply is being sent; it   *)
(* has been got in full; the line coding is waited for; it waits to be     *)
(* read; the status stage; a request is refused.                           *)
IdlePhase(d, h) == h.stage = "idle" /\ d.rx = <<>> /\ ~d.sent
AskedPhase(d, h) ==
  /\ d.rx = <<[is |-> "setup", req |-> h.req, coding |-> h.coding]>> /\ h.req \in Requests
  /\ ~d.reset /\ ~d.sent /\ d.nak /\ ~d.stall /\ h.stage = StageOf(h.req) /\ h.got = <<>>
SendingPhase(d, h) ==
  /\ Calm(d) /\ h.stage = "in" /\ Plain(h.req) /\ d.setup = h.req /\ ~d.outReq /\ ~d.stall
  /\ d.tx + d.left = Least(h.req.len, h.req.wlength)
  /\ d.tx = Len(h.got) + Len(d.fifo)
  /\ h.got = Part(h.req.kind, 0, Len(h.got))
  /\ d.fifo = Part(h.req.kind, Len(h.got), Len(d.fifo))
  /\ d.size >= 0 => (d.size < MPS => d.left = 0)
ClosingPhase(d, h) ==
  /\ Plain(h.req) /\ ~d.reset /\ ~d.outReq /\ ~d.stall /\ d.left = 0 /\ h.got = Whole(h.req)
  /\ \/ h.stage \in {"status out", "done"} /\ d.rx = <<>>
     \/ h.stage = "done" /\ d.rx = <<[is |-> "empty", req |-> Nothing, coding |-> h.coding]>>
CodingPhase(d, h) ==
  /\ Calm(d) /\ h.stage = "out" /\ h.req.kind = "line" /\ d.outReq /\ ~d.stall /\ NoPacket(d) /\ ~d.sent
CodedPhase(d, h) ==
  /\ h.stage = "status in" /\ h.req.kind = "line" /\ d.outReq /\ ~d.stall /\ NoPacket(d) /\ ~d.sent /\ ~d.reset
  /\ d.rx = <<[is |-> "data", req |-> Nothing, coding |-> h.coding]>>
StatusPhase(d, h) ==
  /\ Calm(d) /\ h.req.kind \in {"set", "line"} /\ h.stage \in {"status in", "done"}
  /\ ~d.outReq /\ ~d.stall /\ d.left = 0 /\ ~d.zlp
  /\ h.req.kind = "line" => d.line = h.coding
RefusedPhase(d, h) ==
  /\ Calm(d) /\ h.req.kind = "bad" /\ h.stage \in {"status in", "refused"} /\ d.stall /\ ~d.sent

Phase(d, h) ==
  \/ IdlePhase(d, h) \/ AskedPhase(d, h) \/ SendingPhase(d, h) \/ ClosingPhase(d, h)
  \/ CodingPhase(d, h) \/ CodedPhase(d, h) \/ StatusPhase(d, h) \/ RefusedPhase(d, h)

(* A SETUP may cancel a packet of the reply before, but never finds that   *)
(* it has just gone: only LongMasks would allow that.                      *)
ControlInv ==
  /\ ep0 \in Ep0 /\ host0 \in Host0 /\ ~ep0.stup /\ ~ep0.got
  /\ Packet(ep0)
  /\ Phase(ep0, host0)

-----------------------------------------------------------------------------
(* The receive FIFO, empty or with one packet.                             *)
LEMMA NothingRead == \A d : AllRead(d, <<>>) = d
<1> TAKE d
<1> DEFINE F(g) == [n \in 0 .. Len(<<>>) |-> IF n = 0 THEN d ELSE OnRx(g[n - 1], <<>>[n])]
           read == CHOOSE g : g = F(g)
<1>1. AllRead(d, <<>>) = read[Len(<<>>)]
  BY DEF AllRead
<1> DEFINE w == [n \in 0 .. 0 |-> d]
<1>2. w = F(w)
  OBVIOUS
<1>3. read = F(read)
  BY <1>2
<1> HIDE DEF read
<1>4. read[0] = d
  BY <1>3
<1>. QED BY <1>1, <1>4

LEMMA OneRead == \A d, e : AllRead(d, <<e>>) = OnRx(d, e)
<1> TAKE d, e
<1> DEFINE F(g) == [n \in 0 .. Len(<<e>>) |-> IF n = 0 THEN d ELSE OnRx(g[n - 1], <<e>>[n])]
           read == CHOOSE g : g = F(g)
<1>1. AllRead(d, <<e>>) = read[Len(<<e>>)]
  BY DEF AllRead
<1> DEFINE w == [n \in 0 .. 1 |-> IF n = 0 THEN d ELSE OnRx(d, e)]
<1>2. w = F(w)
  OBVIOUS
<1>3. read = F(read)
  BY <1>2
<1> HIDE DEF read
<1>4. read[0] = d
  BY <1>3
<1>5. read[1] = OnRx(d, e)
  BY <1>3, <1>4
<1>. QED BY <1>1, <1>5

(* What follows in a reply goes on where the last packet ended.            *)
LEMMA PartIsSeq ==
  ASSUME NEW k \in Kinds, NEW a \in Nat, NEW n \in Nat
  PROVE  Part(k, a, n) \in Seq(Bytes) /\ Len(Part(k, a, n)) = n /\ (n = 0 => Part(k, a, n) = <<>>)
<1>1. \A j \in 1 .. n : <<k, a + j>> \in Bytes
  BY DEF Bytes
<1>2. Part(k, a, n) \in Seq(Bytes)
  BY <1>1, IsASeq DEF Part
<1>3. DOMAIN Part(k, a, n) = 1 .. n
  BY DEF Part
<1>. QED BY <1>2, <1>3, LenProperties

LEMMA PartsJoin ==
  ASSUME NEW k \in Kinds, NEW a \in Nat, NEW m \in Nat, NEW n \in Nat
  PROVE  Part(k, a, m) \o Part(k, a + m, n) = Part(k, a, m + n)
<1> DEFINE s == Part(k, a, m)
           t == Part(k, a + m, n)
           u == Part(k, a, m + n)
<1>1. s \in Seq(Bytes) /\ Len(s) = m /\ t \in Seq(Bytes) /\ Len(t) = n /\ u \in Seq(Bytes) /\ Len(u) = m + n
  BY PartIsSeq
<1>2. /\ \A j \in 1 .. m : s[j] = <<k, a + j>>
      /\ \A j \in 1 .. n : t[j] = <<k, (a + m) + j>>
      /\ \A j \in 1 .. m + n : u[j] = <<k, a + j>>
  BY DEF Part
<1>. HIDE DEF s, t, u
<1>3. s \o t \in Seq(Bytes) /\ Len(s \o t) = m + n
  BY <1>1, ConcatProperties
<1>4. \A j \in 1 .. m + n : (s \o t)[j] = IF j <= m THEN s[j] ELSE t[j - m]
  BY <1>1, ConcatProperties
<1>5. ASSUME NEW j \in 1 .. m + n PROVE (s \o t)[j] = u[j]
  <2>1. u[j] = <<k, a + j>>
    BY <1>2
  <2>2. CASE j <= m
    <3>1. j \in 1 .. m
      BY <2>2
    <3>2. (s \o t)[j] = s[j]
      BY <1>4, <2>2
    <3>3. s[j] = <<k, a + j>>
      BY <1>2, <3>1
    <3>. QED BY <2>1, <3>2, <3>3
  <2>3. CASE ~(j <= m)
    <3>1. j - m \in 1 .. n /\ (a + m) + (j - m) = a + j
      BY <2>3
    <3>2. (s \o t)[j] = t[j - m]
      BY <1>4, <2>3
    <3>3. t[j - m] = <<k, (a + m) + (j - m)>>
      BY <1>2, <3>1
    <3>. QED BY <2>1, <3>1, <3>2, <3>3
  <2>. QED BY <2>2, <2>3
<1>. QED BY <1>1, <1>3, <1>5, SeqEqual DEF s, t, u

(* ep0_send_next(), from an empty FIFO.                                    *)
LEMMA NextSent ==
  ASSUME NEW d \in Ep0, NoPacket(d), ~d.sent
  PROVE  LET n == Least(d.left, MPS)
         IN  /\ SendNext(d) \in Ep0 /\ n \in Nat /\ n <= d.left /\ (n < MPS => n = d.left)
             /\ SendNext(d) = [d EXCEPT !.size = n, !.nak = FALSE, !.tx = d.tx + n, !.left = d.left - n,
                                        !.fifo = Part(d.setup.kind, d.tx, n)]
             /\ Len(Part(d.setup.kind, d.tx, n)) = n
<1> DEFINE n == Least(d.left, MPS)
           f == Part(d.setup.kind, d.tx, n)
<1>1. n \in Nat /\ n <= d.left /\ (n < MPS => n = d.left)
  BY ControlSizes DEF Least, Ep0
<1>2. d.setup.kind \in Kinds /\ d.tx \in Nat
  BY DEF Ep0, Kinds
<1>. HIDE DEF n
<1>3. f \in Seq(Bytes) /\ Len(f) = n
  BY <1>1, <1>2, PartIsSeq
<1>4. <<>> \o f = f
  BY <1>3, ConcatEmptySeq
<1>5. SendNext(d) = [d EXCEPT !.size = n, !.nak = FALSE, !.tx = d.tx + n, !.left = d.left - n, !.fifo = f]
  <2>1. d.fifo \o [j \in 1 .. n |-> <<d.setup.kind, d.tx + j>>] = f
    BY <1>4 DEF NoPacket, Part
  <2>. QED BY <2>1 DEF SendNext, n, Ep0
<1>. HIDE DEF f
<1>6. SendNext(d) \in Ep0
  <2>1. d.tx + n \in Nat /\ d.left - n \in Nat
    BY <1>1 DEF Ep0
  <2>. QED BY <1>1, <1>3, <1>5, <2>1 DEF Ep0
<1>. QED BY <1>1, <1>3, <1>5, <1>6 DEF n, f

(* A reply has no more bytes than the host asked for.                      *)
LEMMA LengthsNat ==
  \A rq \in Setups : Least(rq.len, rq.wlength) \in Nat /\ Least(rq.len, rq.wlength) <= rq.wlength /\ rq.wlength \in Nat
BY RequestSizes DEF Setups, Nothing, Least

AfterRead(d, e) == [OnRx(d, e) EXCEPT !.rx = <<>>]

(* on_rx() of a SETUP: the transfer before is over, and what was queued of *)
(* it is gone.                                                             *)
LEMMA SetupRead ==
  ASSUME NEW d \in Ep0, Packet(d), ~d.sent, NEW rq \in Requests, NEW c \in Codings,
         NEW e, e = [is |-> "setup", req |-> rq, coding |-> c],
         NEW x, x = AfterRead(d, e)
  PROVE  /\ x \in Ep0 /\ NoPacket(x) /\ x.rx = <<>> /\ x.setup = rq /\ x.left = 0 /\ ~x.zlp /\ x.stup
         /\ x.got = d.got /\ x.sent = d.sent /\ x.reset = d.reset /\ x.stall = d.stall
<1>1. rq \in Setups
  BY DEF Setups
<1> DEFINE y == [d EXCEPT !.setup = rq, !.left = 0, !.zlp = FALSE, !.stup = TRUE]
<1>2. CASE d.size >= 0
  <2>1. x = [y EXCEPT !.nak = TRUE, !.fifo = <<>>, !.size = -1, !.rx = <<>>]
    BY <1>2 DEF AfterRead, OnRx, Ep0
  <2>2. x \in Ep0
    BY ONLY <1>1, <2>1, d \in Ep0, EmptySeq DEF Ep0
  <2>3. x.size = -1 /\ x.fifo = <<>> /\ x.rx = <<>> /\ x.setup = rq /\ x.left = 0 /\ x.zlp = FALSE /\ x.stup = TRUE
    BY ONLY <2>1, d \in Ep0 DEF Ep0
  <2>4. x.got = d.got /\ x.sent = d.sent /\ x.reset = d.reset /\ x.stall = d.stall
    BY ONLY <2>1, d \in Ep0 DEF Ep0
  <2>. QED BY <2>2, <2>3, <2>4 DEF NoPacket
<1>3. CASE ~(d.size >= 0)
  <2>1. x = [y EXCEPT !.rx = <<>>]
    BY <1>3 DEF AfterRead, OnRx, Ep0
  <2>2. NoPacket(d)
    BY <1>3 DEF Packet, NoPacket, Ep0
  <2>3. x \in Ep0
    BY ONLY <1>1, <2>1, d \in Ep0, EmptySeq DEF Ep0
  <2>4. x.size = -1 /\ x.fifo = <<>> /\ x.rx = <<>> /\ x.setup = rq /\ x.left = 0 /\ x.zlp = FALSE /\ x.stup = TRUE
    BY ONLY <2>1, <2>2, d \in Ep0 DEF Ep0, NoPacket
  <2>5. x.got = d.got /\ x.sent = d.sent /\ x.reset = d.reset /\ x.stall = d.stall
    BY ONLY <2>1, d \in Ep0 DEF Ep0
  <2>. QED BY <2>3, <2>4, <2>5 DEF NoPacket
<1>. QED BY <1>2, <1>3

(* handle_setup(), by the kind of the request.                             *)
LEMMA SetupHandled ==
  ASSUME NEW x \in Ep0, NoPacket(x), x.rx = <<>>, x.stup, ~x.got, ~x.sent, ~x.reset, ~x.stall,
         x.left = 0, ~x.zlp, x.setup \in Requests,
         NEW h \in Host0, h.req = x.setup, h.stage = StageOf(h.req), h.got = <<>>,
         NEW z, z = OnIn(OnOut(x))
  PROVE  /\ z \in Ep0 /\ ~z.stup /\ ~z.got /\ Packet(z) /\ Phase(z, h)
<1>1. OnOut(x) = [HandleSetup(x) EXCEPT !.armed = TRUE, !.got = FALSE, !.stup = FALSE]
  BY DEF OnOut, Ep0
<1> DEFINE y == [x EXCEPT !.outReq = FALSE]
<1>2. y \in Ep0 /\ NoPacket(y) /\ ~y.sent /\ y.setup = x.setup
  BY DEF Ep0, NoPacket
<1>3. CASE x.setup.kind = "bad"
  <2>1. HandleSetup(x) = [y EXCEPT !.stall = TRUE]
    BY <1>3 DEF HandleSetup, Ep0
  <2>2. z = [y EXCEPT !.stall = TRUE, !.armed = TRUE, !.got = FALSE, !.stup = FALSE]
    BY <1>1, <2>1 DEF OnIn, Ep0
  <2>3. RefusedPhase(z, h)
    BY <1>3, <2>2 DEF RefusedPhase, Calm, StageOf, Ep0
  <2>4. z \in Ep0 /\ ~z.stup /\ ~z.got /\ NoPacket(z)
    <3> HIDE DEF y
    <3>1. z \in Ep0
      BY ONLY <1>2, <2>2 DEF Ep0
    <3>. QED BY <1>2, <2>2, <3>1 DEF Ep0, NoPacket
  <2>. QED BY <2>3, <2>4 DEF Phase, Packet
<1>4. CASE x.setup.kind = "line"
  <2>1. HandleSetup(x) = [y EXCEPT !.outReq = TRUE]
    BY <1>4 DEF HandleSetup, Ep0
  <2>2. z = [y EXCEPT !.outReq = TRUE, !.armed = TRUE, !.got = FALSE, !.stup = FALSE]
    BY <1>1, <2>1 DEF OnIn, Ep0
  <2>3. CodingPhase(z, h)
    BY <1>4, <2>2 DEF CodingPhase, Calm, StageOf, Ep0, NoPacket
  <2>4. z \in Ep0 /\ ~z.stup /\ ~z.got /\ NoPacket(z)
    <3> HIDE DEF y
    <3>1. z \in Ep0
      BY ONLY <1>2, <2>2 DEF Ep0
    <3>. QED BY <1>2, <2>2, <3>1 DEF Ep0, NoPacket
  <2>. QED BY <2>3, <2>4 DEF Phase, Packet
<1>5. CASE x.setup.kind = "set"
  <2>1. HandleSetup(x) = [y EXCEPT !.left = 0, !.zlp = FALSE, !.size = 0, !.nak = FALSE]
    BY <1>5 DEF HandleSetup, StatusIn, Ep0
  <2>2. z = [y EXCEPT !.left = 0, !.zlp = FALSE, !.size = 0, !.nak = FALSE, !.armed = TRUE, !.got = FALSE, !.stup = FALSE]
    BY <1>1, <2>1 DEF OnIn, Ep0
  <2>3. StatusPhase(z, h)
    BY <1>5, <2>2 DEF StatusPhase, Calm, StageOf, Ep0
  <2>4. z \in Ep0 /\ ~z.stup /\ ~z.got /\ z.size = 0 /\ z.fifo = <<>> /\ ~z.sent
    <3> HIDE DEF y
    <3>1. z \in Ep0
      BY ONLY <1>2, <2>2 DEF Ep0
    <3>. QED BY <1>2, <2>2, <3>1 DEF Ep0, NoPacket
  <2>. QED BY <2>3, <2>4 DEF Phase, Packet
<1>6. CASE x.setup.kind \notin {"bad", "line", "set"}
  <2> DEFINE size == Least(x.setup.len, x.setup.wlength)
             q == size < x.setup.wlength /\ (size % MPS) = 0 /\ size > 0
             u == [y EXCEPT !.tx = 0, !.left = size, !.zlp = q]
             n == Least(size, MPS)
             f == Part(x.setup.kind, 0, n)
  <2>1. size \in Nat
    BY LengthsNat DEF Ep0
  <2> HIDE DEF size
  <2>2. q \in BOOLEAN
    OBVIOUS
  <2> HIDE DEF q
  <2>3. u \in Ep0 /\ NoPacket(u) /\ ~u.sent /\ u.left = size /\ u.tx = 0 /\ u.setup = x.setup
    <3> HIDE DEF y
    <3>1. u \in Ep0
      BY ONLY <1>2, <2>1, <2>2 DEF Ep0
    <3>. QED BY ONLY <1>2, <3>1 DEF Ep0, NoPacket
  <2>4. HandleSetup(x) = SendNext(u)
    BY <1>6 DEF HandleSetup, Ep0Send, Ep0, size, q
  <2> HIDE DEF u
  <2>5. /\ SendNext(u) \in Ep0 /\ n \in Nat /\ n <= size /\ (n < MPS => n = size)
        /\ SendNext(u) = [u EXCEPT !.size = n, !.nak = FALSE, !.tx = 0 + n, !.left = size - n, !.fifo = f]
        /\ Len(f) = n
    BY <2>3, NextSent
  <2> HIDE DEF n, f
  <2>6. z = [u EXCEPT !.size = n, !.nak = FALSE, !.tx = 0 + n, !.left = size - n, !.fifo = f,
                      !.armed = TRUE, !.got = FALSE, !.stup = FALSE]
    BY <1>1, <2>3, <2>4, <2>5 DEF OnIn, Ep0
  <2>7. /\ z.rx = <<>> /\ ~z.reset /\ ~z.sent /\ ~z.outReq /\ ~z.stall /\ z.setup = x.setup
        /\ z.tx = n /\ z.left = size - n /\ z.fifo = f /\ z.size = n /\ ~z.stup /\ ~z.got /\ z \in Ep0
    <3>1. u.rx = <<>> /\ ~u.reset /\ ~u.outReq /\ ~u.stall
      BY DEF u, Ep0
    <3>2. z = [SendNext(u) EXCEPT !.armed = TRUE, !.got = FALSE, !.stup = FALSE]
      BY <2>3, <2>5, <2>6 DEF Ep0
    <3>3. z \in Ep0
      BY ONLY <2>5, <3>2 DEF Ep0
    <3>. QED BY <2>3, <2>5, <2>6, <3>1, <3>3 DEF Ep0
  <2>8. Plain(h.req) /\ h.stage = "in" /\ Len(h.got) = 0
    BY <1>6 DEF Plain, StageOf
  <2>9. h.got = Part(h.req.kind, 0, 0)
    BY DEF Part
  <2>10. z.tx + z.left = Least(h.req.len, h.req.wlength)
    BY <2>1, <2>5, <2>7 DEF size
  <2>11. z.size < MPS => z.left = 0
    BY <2>1, <2>5, <2>7
  <2>12. z.tx = Len(h.got) + Len(z.fifo) /\ z.fifo = Part(h.req.kind, Len(h.got), Len(z.fifo))
    BY <2>5, <2>7, <2>8 DEF f
  <2>13. SendingPhase(z, h)
    BY <2>7, <2>8, <2>9, <2>10, <2>11, <2>12 DEF SendingPhase, Calm
  <2>. QED BY <2>5, <2>7, <2>13 DEF Phase, Packet
<1>. QED BY <1>3, <1>4, <1>5, <1>6

(* on_in_ep() when nothing is left to send: an empty packet at most.       *)
LEMMA NothingLeft ==
  ASSUME NEW d \in Ep0, Packet(d), d.left = 0, NEW z, z = OnIn(d)
  PROVE  /\ z \in Ep0 /\ Packet(z) /\ z.left = 0 /\ z.tx = d.tx /\ z.fifo = d.fifo /\ ~z.sent
         /\ z.rx = d.rx /\ z.reset = d.reset /\ z.outReq = d.outReq /\ z.stall = d.stall /\ z.setup = d.setup
         /\ z.got = d.got /\ z.stup = d.stup /\ z.line = d.line /\ (~d.zlp => ~z.zlp)
<1>1. CASE ~d.sent
  BY <1>1 DEF OnIn
<1>2. CASE d.sent
  <2> DEFINE a == [d EXCEPT !.sent = FALSE]
  <2>1. z = (IF d.zlp THEN StatusIn(a) ELSE a)
    BY <1>2 DEF OnIn, Ep0
  <2>2. NoPacket(d)
    BY <1>2 DEF Packet
  <2>3. CASE ~d.zlp
    <3>1. z = a
      BY <2>1, <2>3
    <3>2. z \in Ep0
      BY ONLY d \in Ep0, <3>1 DEF Ep0
    <3>. QED BY <2>2, <2>3, <3>1, <3>2 DEF Ep0, NoPacket, Packet
  <2>4. CASE d.zlp
    <3>1. z = [d EXCEPT !.sent = FALSE, !.left = 0, !.zlp = FALSE, !.size = 0, !.nak = FALSE]
      BY <2>1, <2>4 DEF StatusIn, Ep0
    <3>2. z \in Ep0 /\ z.size = 0 /\ z.fifo = <<>>
      BY <2>2, <3>1 DEF Ep0, NoPacket
    <3>. QED BY <2>2, <3>1, <3>2 DEF Ep0, NoPacket, Packet
  <2>. QED BY <2>3, <2>4
<1>. QED BY <1>1, <1>2

-----------------------------------------------------------------------------
(* The interrupt handler, where the request stands.                        *)
LEMMA Irq0Keeps == ASSUME ControlInv, Irq0 PROVE ControlInv'
<1> DEFINE d == OnReset(ep0)
           x == [AllRead(d, d.rx) EXCEPT !.rx = <<>>]
<1>1. ep0' = OnIn(OnOut(x)) /\ host0' = host0 /\ Pending0
  BY DEF Irq0
<1>2. ep0 \in Ep0 /\ host0 \in Host0 /\ ~ep0.stup /\ ~ep0.got /\ Packet(ep0)
  BY DEF ControlInv
<1>3. ~ep0.reset => d = ep0
  BY DEF OnReset
<1>4. CASE IdlePhase(ep0, host0)
  <2>1. ep0.reset
    BY <1>1, <1>2, <1>4 DEF Pending0, IdlePhase
  <2>2. d = [ep0 EXCEPT !.left = 0, !.zlp = FALSE, !.outReq = FALSE, !.armed = TRUE, !.reset = FALSE,
                        !.fifo = <<>>, !.size = -1, !.nak = TRUE, !.sent = FALSE, !.stup = FALSE, !.got = FALSE]
    BY <2>1 DEF OnReset
  <2> HIDE DEF d
  <2>3. d \in Ep0 /\ NoPacket(d)
    <3>1. d \in Ep0
      BY <1>2, <2>2, EmptySeq DEF Ep0
    <3>2. d.size = -1 /\ d.fifo = <<>>
      BY ONLY <1>2, <2>2 DEF Ep0
    <3>. QED BY <3>1, <3>2 DEF NoPacket
  <2>4. d.rx = <<>> /\ ~d.sent /\ ~d.stup /\ ~d.got
    BY <1>2, <1>4, <2>2 DEF Ep0, IdlePhase
  <2>5. x = d
    BY <2>3, <2>4, NothingRead DEF Ep0
  <2>6. OnOut(x) = [d EXCEPT !.armed = d.armed \/ d.got \/ d.stup, !.got = FALSE, !.stup = FALSE]
    BY <2>4, <2>5 DEF OnOut
  <2>7. ep0' = OnOut(x)
    BY <1>1, <2>3, <2>4, <2>6 DEF OnIn, Ep0
  <2>8. ep0' \in Ep0 /\ ~ep0'.stup /\ ~ep0'.got /\ NoPacket(ep0') /\ ep0'.rx = <<>> /\ ~ep0'.sent
    BY <2>3, <2>4, <2>6, <2>7 DEF Ep0, NoPacket
  <2>. QED BY <1>1, <1>2, <1>4, <2>8 DEF ControlInv, Packet, Phase, IdlePhase
<1>5. CASE AskedPhase(ep0, host0)
  <2> DEFINE e == [is |-> "setup", req |-> host0.req, coding |-> host0.coding]
  <2>1. ep0.rx = <<e>> /\ ~ep0.reset /\ ~ep0.sent /\ ~ep0.stall /\ host0.req \in Requests /\ host0.coding \in Codings
    BY <1>2, <1>5 DEF AskedPhase, Host0
  <2>2. x = AfterRead(ep0, e)
    BY <1>3, <2>1, OneRead DEF AfterRead
  <2> HIDE DEF x, d, e
  <2>3. /\ x \in Ep0 /\ NoPacket(x) /\ x.rx = <<>> /\ x.setup = host0.req /\ x.left = 0 /\ ~x.zlp /\ x.stup
        /\ x.got = ep0.got /\ x.sent = ep0.sent /\ x.reset = ep0.reset /\ x.stall = ep0.stall
    <3>1. e = [is |-> "setup", req |-> host0.req, coding |-> host0.coding]
      BY DEF e
    <3>. QED BY <1>2, <2>1, <2>2, <3>1, SetupRead
  <2>4. ep0' \in Ep0 /\ ~ep0'.stup /\ ~ep0'.got /\ Packet(ep0') /\ Phase(ep0', host0)
    BY <1>1, <1>2, <1>5, <2>1, <2>3, SetupHandled DEF AskedPhase
  <2>. QED BY <1>1, <1>2, <2>4 DEF ControlInv
(* Nothing came: the packet has gone. *)
<1>6. ASSUME Calm(ep0) PROVE /\ ep0' = OnIn([ep0 EXCEPT !.got = FALSE, !.stup = FALSE]) /\ ep0.sent
  <2>1. d = ep0 /\ ep0.rx = <<>> /\ ep0.sent
    BY <1>1, <1>2, <1>3, <1>6 DEF Calm, Pending0
  <2>2. x = ep0
    BY <1>2, <2>1, NothingRead DEF Ep0
  <2>3. OnOut(x) = [ep0 EXCEPT !.armed = ep0.armed \/ ep0.got \/ ep0.stup, !.got = FALSE, !.stup = FALSE]
    BY <1>2, <2>2 DEF OnOut
  <2>4. OnOut(x) = [ep0 EXCEPT !.got = FALSE, !.stup = FALSE]
    BY <1>2, <2>3 DEF Ep0
  <2>. QED BY <1>1, <2>1, <2>4
<1>. HIDE DEF d, x
<1>7. CASE SendingPhase(ep0, host0)
  <2> DEFINE y == [ep0 EXCEPT !.got = FALSE, !.stup = FALSE]
             a == [y EXCEPT !.sent = FALSE]
             k == host0.req.kind
             g == Len(host0.got)
  <2>1. ep0' = OnIn(y) /\ y.sent /\ NoPacket(ep0)
    BY <1>2, <1>6, <1>7 DEF SendingPhase, Packet, Ep0
  <2>2. a \in Ep0 /\ ~a.sent /\ NoPacket(a) /\ a.setup = ep0.setup /\ a.tx = ep0.tx /\ a.left = ep0.left
        /\ a.zlp = ep0.zlp /\ a.rx = ep0.rx /\ a.reset = ep0.reset /\ a.outReq = ep0.outReq /\ a.stall = ep0.stall
        /\ ~a.got /\ ~a.stup
    BY <1>2, <2>1 DEF Ep0, NoPacket
  <2>3. /\ ep0.tx = g /\ g \in Nat /\ ep0.tx + ep0.left = Least(host0.req.len, host0.req.wlength)
        /\ ep0.setup = host0.req /\ ep0.left \in Nat /\ host0.got = Part(k, 0, g)
    <3>1. ep0.left \in Nat /\ host0.got \in Seq(Bytes)
      BY <1>2 DEF Ep0, Host0
    <3>2. Len(host0.got) \in Nat
      BY <3>1, LenProperties
    <3>3. Len(ep0.fifo) = 0
      BY <2>1 DEF NoPacket
    <3>. QED BY <1>7, <3>1, <3>2, <3>3 DEF SendingPhase
  <2>4. Plain(host0.req) /\ host0.stage = "in" /\ ep0.rx = <<>> /\ ~ep0.reset /\ ~ep0.outReq /\ ~ep0.stall
    BY <1>7 DEF SendingPhase, Calm
  <2>5. CASE ep0.left > 0
    <3> DEFINE n == Least(a.left, MPS)
               f == Part(a.setup.kind, a.tx, n)
    <3>1. ep0' = SendNext(a)
      BY <2>1, <2>2, <2>5 DEF OnIn
    <3> HIDE DEF a, y
    <3>2. /\ SendNext(a) \in Ep0 /\ n \in Nat /\ n <= a.left /\ (n < MPS => n = a.left)
          /\ SendNext(a) = [a EXCEPT !.size = n, !.nak = FALSE, !.tx = a.tx + n, !.left = a.left - n, !.fifo = f]
          /\ Len(f) = n
      BY <2>2, NextSent
    <3> HIDE DEF n, f
    <3>3. /\ ep0'.size = n /\ ep0'.tx = a.tx + n /\ ep0'.left = a.left - n /\ ep0'.fifo = f /\ ep0'.rx = a.rx
          /\ ep0'.reset = a.reset /\ ep0'.outReq = a.outReq /\ ep0'.stall = a.stall /\ ep0'.setup = a.setup
          /\ ep0'.sent = a.sent /\ ep0'.got = a.got /\ ep0'.stup = a.stup
      BY <2>2, <3>1, <3>2 DEF Ep0
    <3>4. ep0'.fifo = Part(k, g, Len(ep0'.fifo))
      BY <2>2, <2>3, <3>2, <3>3 DEF f
    <3>5. /\ ep0'.tx + ep0'.left = Least(host0.req.len, host0.req.wlength)
          /\ ep0'.tx = g + Len(ep0'.fifo) /\ (ep0'.size < MPS => ep0'.left = 0)
      BY <2>2, <2>3, <3>2, <3>3
    <3>6. SendingPhase(ep0', host0)
      BY <2>2, <2>3, <2>4, <3>3, <3>4, <3>5 DEF SendingPhase, Calm
    <3>. QED BY <1>1, <1>2, <2>2, <3>1, <3>2, <3>3, <3>6 DEF ControlInv, Phase, Packet
  <2>6. CASE ~(ep0.left > 0)
    <3>1. y \in Ep0 /\ Packet(y) /\ y.left = 0 /\ y.tx = ep0.tx /\ y.fifo = ep0.fifo /\ y.rx = ep0.rx
          /\ y.reset = ep0.reset /\ y.outReq = ep0.outReq /\ y.stall = ep0.stall /\ y.setup = ep0.setup
          /\ ~y.got /\ ~y.stup
      <4>1. y \in Ep0
        BY <1>2 DEF Ep0
      <4>2. y.size = ep0.size /\ y.fifo = ep0.fifo
        BY <1>2 DEF Ep0
      <4>3. Packet(y)
        BY <2>1, <4>2 DEF Packet, NoPacket
      <4>4. ep0.left = 0
        BY <2>3, <2>6
      <4>. QED BY <1>2, <4>1, <4>3, <4>4 DEF Ep0
    <3> HIDE DEF y, a
    <3>2. /\ ep0' \in Ep0 /\ Packet(ep0') /\ ep0'.left = 0 /\ ep0'.tx = y.tx /\ ep0'.fifo = y.fifo
          /\ ep0'.rx = y.rx /\ ep0'.reset = y.reset /\ ep0'.outReq = y.outReq /\ ep0'.stall = y.stall
          /\ ep0'.setup = y.setup /\ ep0'.got = y.got /\ ep0'.stup = y.stup
      BY <2>1, <3>1, NothingLeft
    <3>3. SendingPhase(ep0', host0)
      <4>1. ep0.left = 0 /\ ep0'.fifo = ep0.fifo /\ ep0'.tx = ep0.tx /\ ep0'.setup = ep0.setup /\ ep0'.left = 0
        BY <2>3, <2>6, <3>1, <3>2
      <4>2. ep0'.rx = <<>> /\ ~ep0'.reset /\ ~ep0'.outReq /\ ~ep0'.stall
        BY <2>4, <3>1, <3>2
      <4>3. ep0.tx = Len(host0.got) + Len(ep0.fifo) /\ ep0.fifo = Part(k, Len(host0.got), Len(ep0.fifo))
        BY <1>7 DEF SendingPhase
      <4>. QED BY <2>3, <2>4, <4>1, <4>2, <4>3 DEF SendingPhase, Calm
    <3>. QED BY <1>1, <1>2, <3>1, <3>2, <3>3 DEF ControlInv, Phase
  <2>. QED BY <2>5, <2>6
<1>8. CASE ClosingPhase(ep0, host0)
  <2>1. PICK y \in Ep0 :
          /\ ep0' = OnIn(y) /\ Packet(y) /\ y.left = 0 /\ y.rx = <<>> /\ ~y.reset /\ ~y.outReq /\ ~y.stall
          /\ ~y.got /\ ~y.stup
    <3>1. ~ep0.reset /\ ~ep0.outReq /\ ~ep0.stall /\ ep0.left = 0
      BY <1>8 DEF ClosingPhase
    <3>2. CASE ep0.rx = <<>>
      <4> DEFINE y == [ep0 EXCEPT !.got = FALSE, !.stup = FALSE]
      <4>1. ep0' = OnIn(y)
        BY <1>6, <3>1, <3>2 DEF Calm
      <4>. QED BY <1>2, <3>1, <3>2, <4>1 DEF Ep0, Packet, NoPacket
    <3>3. CASE ep0.rx # <<>>
      <4> DEFINE e == [is |-> "empty", req |-> Nothing, coding |-> host0.coding]
                 y == [ep0 EXCEPT !.rx = <<>>, !.armed = TRUE, !.got = FALSE, !.stup = FALSE]
      <4>1. ep0.rx = <<e>>
        BY <1>8, <3>3 DEF ClosingPhase
      <4>2. x = [OnRx(ep0, e) EXCEPT !.rx = <<>>]
        BY <1>3, <3>1, <4>1, OneRead DEF x
      <4>3. x = [ep0 EXCEPT !.got = TRUE, !.rx = <<>>]
        BY <1>2, <3>1, <4>2 DEF OnRx, Ep0
      <4>4. OnOut(x) = [x EXCEPT !.armed = TRUE, !.got = FALSE, !.stup = FALSE]
        BY <1>2, <3>1, <4>3 DEF OnOut, Ep0
      <4>5. OnOut(x) = y
        BY <1>2, <4>3, <4>4 DEF Ep0
      <4>6. y \in Ep0
        BY <1>2, EmptySeq DEF Ep0
      <4>7. /\ y.left = ep0.left /\ y.rx = <<>> /\ y.reset = ep0.reset /\ y.outReq = ep0.outReq /\ y.stall = ep0.stall
            /\ ~y.got /\ ~y.stup /\ y.size = ep0.size /\ y.fifo = ep0.fifo /\ y.sent = ep0.sent
        BY <1>2 DEF Ep0
      <4>. QED BY <1>1, <1>2, <3>1, <4>5, <4>6, <4>7 DEF Packet, NoPacket
    <3>. QED BY <3>2, <3>3
  <2>2. /\ ep0' \in Ep0 /\ Packet(ep0') /\ ep0'.left = 0 /\ ep0'.rx = <<>> /\ ~ep0'.reset /\ ~ep0'.outReq
        /\ ~ep0'.stall /\ ~ep0'.got /\ ~ep0'.stup
    BY <2>1, NothingLeft
  <2>3. ClosingPhase(ep0', host0)
    BY <1>8, <2>2 DEF ClosingPhase
  <2>. QED BY <1>1, <1>2, <2>2, <2>3 DEF ControlInv, Phase
<1>9. CASE CodingPhase(ep0, host0) \/ RefusedPhase(ep0, host0)
  BY <1>1, <1>2, <1>9 DEF CodingPhase, RefusedPhase, Calm, Pending0
<1>10. CASE CodedPhase(ep0, host0)
  <2> DEFINE e == [is |-> "data", req |-> Nothing, coding |-> host0.coding]
             y == [ep0 EXCEPT !.rx = <<>>, !.buf = host0.coding, !.line = host0.coding, !.outReq = FALSE,
                              !.left = 0, !.zlp = FALSE, !.size = 0, !.nak = FALSE, !.armed = TRUE,
                              !.got = FALSE, !.stup = FALSE]
  <2>1. ep0.rx = <<e>> /\ ~ep0.reset /\ ~ep0.sent /\ ep0.outReq /\ ~ep0.stall /\ NoPacket(ep0)
    BY <1>10 DEF CodedPhase
  <2>2. x = [OnRx(ep0, e) EXCEPT !.rx = <<>>]
    BY <1>3, <2>1, OneRead DEF x
  <2>3. x = [ep0 EXCEPT !.got = TRUE, !.buf = host0.coding, !.rx = <<>>]
    BY <1>2, <2>1, <2>2 DEF OnRx, Ep0
  <2>4. OnOut(x) = [StatusIn([x EXCEPT !.line = host0.coding, !.outReq = FALSE]) EXCEPT !.armed = TRUE, !.got = FALSE, !.stup = FALSE]
    BY <1>2, <2>1, <2>3 DEF OnOut, StatusIn, Ep0
  <2>5. OnOut(x) = y
    BY <1>2, <2>3, <2>4 DEF StatusIn, Ep0
  <2>6. y \in Ep0 /\ host0.coding \in Codings
    BY <1>2, EmptySeq DEF Ep0, Host0
  <2>7. /\ y.left = 0 /\ ~y.zlp /\ y.rx = <<>> /\ y.reset = ep0.reset /\ ~y.outReq /\ y.stall = ep0.stall
        /\ ~y.got /\ ~y.stup /\ y.size = 0 /\ y.fifo = ep0.fifo /\ y.sent = ep0.sent /\ y.line = host0.coding
    BY <1>2 DEF Ep0
  <2> HIDE DEF y
  <2>8. ep0' = y
    BY <1>1, <2>1, <2>5, <2>7 DEF OnIn
  <2>9. StatusPhase(y, host0)
    BY <1>10, <2>1, <2>7 DEF StatusPhase, CodedPhase, Calm
  <2>10. Packet(y)
    BY <2>1, <2>7 DEF Packet, NoPacket
  <2>. QED BY <1>1, <1>2, <2>6, <2>7, <2>8, <2>9, <2>10 DEF ControlInv, Phase
<1>11. CASE StatusPhase(ep0, host0)
  <2> DEFINE y == [ep0 EXCEPT !.got = FALSE, !.stup = FALSE]
  <2>1. ep0' = OnIn(y)
    BY <1>6, <1>11 DEF StatusPhase
  <2>2. /\ y \in Ep0 /\ Packet(y) /\ y.left = ep0.left /\ y.zlp = ep0.zlp /\ y.rx = ep0.rx /\ y.reset = ep0.reset
        /\ y.outReq = ep0.outReq /\ y.stall = ep0.stall /\ ~y.got /\ ~y.stup /\ y.line = ep0.line
    BY <1>2 DEF Ep0, Packet, NoPacket
  <2> HIDE DEF y
  <2>3. ep0.left = 0
    BY <1>11 DEF StatusPhase
  <2>4. /\ ep0' \in Ep0 /\ Packet(ep0') /\ ep0'.left = 0 /\ ep0'.rx = y.rx /\ ep0'.reset = y.reset
        /\ ep0'.outReq = y.outReq /\ ep0'.stall = y.stall /\ ep0'.got = y.got /\ ep0'.stup = y.stup
        /\ ep0'.line = y.line /\ (~y.zlp => ~ep0'.zlp)
    BY <2>1, <2>2, <2>3, NothingLeft
  <2>5. StatusPhase(ep0', host0)
    BY <1>11, <2>2, <2>4 DEF StatusPhase, Calm
  <2>. QED BY <1>1, <1>2, <2>2, <2>4, <2>5 DEF ControlInv, Phase
<1>. QED BY <1>4, <1>5, <1>7, <1>8, <1>9, <1>10, <1>11 DEF ControlInv, Phase

-----------------------------------------------------------------------------
(* The host, that waits for the interrupt handler.                         *)
LEMMA HostSetupKeeps == ASSUME ControlInv, ~LongMasks, HostSetup PROVE ControlInv'
<1>1. ep0 \in Ep0 /\ host0 \in Host0 /\ ~ep0.stup /\ ~ep0.got /\ Packet(ep0)
  BY DEF ControlInv
<1>2. ep0.rx = <<>> /\ ~ep0.sent /\ ~ep0.reset
  BY DEF HostSetup, Waits, Pending0
<1>3. PICK rq \in Requests, c \in Codings :
        /\ host0' = [req |-> rq, got |-> <<>>, coding |-> c,
                     stage |-> IF rq.kind \in {"set", "bad"} THEN "status in" ELSE IF rq.kind = "line" THEN "out" ELSE "in"]
        /\ ep0' = [ep0 EXCEPT !.rx = Append(@, [is |-> "setup", req |-> rq, coding |-> c]), !.nak = TRUE, !.stall = FALSE]
  BY DEF HostSetup
<1> DEFINE e == [is |-> "setup", req |-> rq, coding |-> c]
<1>4. e \in Packets /\ rq \in Setups
  BY DEF Packets, Setups
<1>5. host0' = [req |-> rq, got |-> <<>>, coding |-> c, stage |-> StageOf(rq)]
  BY <1>3 DEF StageOf
<1>6. StageOf(rq) \in {"status in", "out", "in"}
  BY DEF StageOf
<1>7. host0' \in Host0 /\ host0'.req = rq /\ host0'.coding = c /\ host0'.got = <<>> /\ host0'.stage = StageOf(rq)
  BY <1>4, <1>5, <1>6, EmptySeq DEF Host0
<1>8. Append(ep0.rx, e) = <<e>>
  BY <1>2
<1>9. ep0' = [ep0 EXCEPT !.rx = <<e>>, !.nak = TRUE, !.stall = FALSE]
  BY <1>1, <1>3, <1>8 DEF Ep0
<1>10. <<e>> \in Seq(Packets)
  BY <1>4
<1> HIDE DEF e
<1>11. ep0' \in Ep0
  BY <1>1, <1>9, <1>10 DEF Ep0
<1>12. /\ ep0'.rx = <<e>> /\ ep0'.nak /\ ~ep0'.stall /\ ep0'.sent = ep0.sent /\ ep0'.reset = ep0.reset
       /\ ep0'.stup = ep0.stup /\ ep0'.got = ep0.got /\ ep0'.size = ep0.size /\ ep0'.fifo = ep0.fifo
  BY <1>1, <1>9 DEF Ep0
<1>13. e = [is |-> "setup", req |-> host0'.req, coding |-> host0'.coding]
  BY <1>7 DEF e
<1>14. AskedPhase(ep0', host0')
  BY <1>2, <1>7, <1>12, <1>13 DEF AskedPhase
<1>15. Packet(ep0')
  BY <1>1, <1>12 DEF Packet, NoPacket
<1>. QED BY <1>1, <1>7, <1>11, <1>12, <1>14, <1>15 DEF ControlInv, Phase

(* An IN packet: one of the reply, its last, or the status stage's.        *)
LEMMA Unsized == \A d : d.size >= 0 => ~NoPacket(d)
<1>1. ~(-1 >= 0)
  OBVIOUS
<1>. QED BY <1>1 DEF NoPacket

LEMMA HostTakesKeeps == ASSUME ControlInv, HostTakes PROVE ControlInv'
<1> DEFINE n == Least(ep0.size, Len(ep0.fifo))
           all == host0.got \o SubSeq(ep0.fifo, 1, n)
           rest == SubSeq(ep0.fifo, n + 1, Len(ep0.fifo))
           then == IF host0.stage = "status in" THEN "done"
                    ELSE IF n < MPS \/ Len(all) >= host0.req.wlength THEN "status out" ELSE "in"
<1>1. /\ ep0 \in Ep0 /\ host0 \in Host0 /\ ~ep0.stup /\ ~ep0.got /\ Packet(ep0)
      /\ Phase(ep0, host0)
  BY DEF ControlInv
<1>2. host0.stage \in {"in", "status in"} /\ ~ep0.nak /\ ep0.size >= 0 /\ ~ep0.stall /\ ~ep0.reset
  BY DEF HostTakes
<1>3. ep0' = [ep0 EXCEPT !.fifo = rest, !.size = -1, !.nak = TRUE, !.sent = TRUE]
  BY <1>1 DEF HostTakes, Ep0
<1>4. host0' = [host0 EXCEPT !.got = all, !.stage = then]
  BY <1>1 DEF HostTakes, Host0
<1>5. ep0.fifo \in Seq(Bytes) /\ host0.got \in Seq(Bytes) /\ Len(ep0.fifo) \in Nat /\ Len(host0.got) \in Nat
  BY <1>1, LenProperties DEF Ep0, Host0
<1>6. n = Len(ep0.fifo) /\ n = ep0.size /\ ~ep0.sent
  <2>1. ~NoPacket(ep0)
    BY <1>2, Unsized
  <2>2. ep0.size = Len(ep0.fifo) /\ ~ep0.sent
    BY <1>1, <2>1 DEF Packet
  <2>. QED BY <1>5, <2>2 DEF Least
<1>7. SubSeq(ep0.fifo, 1, n) = ep0.fifo /\ rest = <<>>
  <2>1. SubSeq(ep0.fifo, 1, Len(ep0.fifo)) = ep0.fifo
    BY ONLY <1>5, SubSeqFull
  <2>2. SubSeq(ep0.fifo, Len(ep0.fifo) + 1, Len(ep0.fifo)) = <<>>
    BY ONLY <1>5, SubSeqEmpty
  <2>. QED BY <1>6, <2>1, <2>2
<1>8. all = host0.got \o ep0.fifo /\ all \in Seq(Bytes) /\ Len(all) = Len(host0.got) + Len(ep0.fifo)
  <2>1. host0.got \o ep0.fifo \in Seq(Bytes) /\ Len(host0.got \o ep0.fifo) = Len(host0.got) + Len(ep0.fifo)
    BY ONLY <1>5, ConcatProperties
  <2>. QED BY <1>7, <2>1
<1>9. n \in Nat /\ then \in {"done", "status out", "in"}
  BY <1>5, <1>6
<1> HIDE DEF n, all, rest
<1>10. host0' \in Host0 /\ host0'.got = all /\ host0'.stage = then /\ host0'.req = host0.req /\ host0'.coding = host0.coding
  BY <1>1, <1>4, <1>8, <1>9 DEF Host0
<1>11. ep0' = [ep0 EXCEPT !.fifo = <<>>, !.size = -1, !.nak = TRUE, !.sent = TRUE]
  BY <1>3, <1>7
<1>12. ep0' \in Ep0
  BY <1>1, <1>11, EmptySeq DEF Ep0
<1>13. /\ ep0'.size = -1 /\ ep0'.fifo = <<>> /\ ep0'.rx = ep0.rx /\ ep0'.reset = ep0.reset /\ ep0'.outReq = ep0.outReq
       /\ ep0'.stall = ep0.stall /\ ep0'.left = ep0.left /\ ep0'.tx = ep0.tx /\ ep0'.setup = ep0.setup
       /\ ep0'.zlp = ep0.zlp /\ ep0'.line = ep0.line /\ ep0'.stup = ep0.stup /\ ep0'.got = ep0.got
  BY <1>1, <1>11 DEF Ep0
<1>14. NoPacket(ep0')
  BY <1>13 DEF NoPacket
<1>15. CASE SendingPhase(ep0, host0)
  <2> DEFINE k == host0.req.kind
             size == Least(host0.req.len, host0.req.wlength)
             g == Len(host0.got)
             m == Len(ep0.fifo)
  <2>1. k \in Kinds /\ size \in Nat /\ size <= host0.req.wlength /\ host0.req.wlength \in Nat
    BY <1>1, LengthsNat DEF Host0, Kinds
  <2>2. host0.got = Part(k, 0, g) /\ ep0.fifo = Part(k, g, m) /\ g \in Nat /\ m \in Nat
        /\ all = host0.got \o ep0.fifo /\ Len(all) = g + m /\ n = m /\ n = ep0.size
    BY <1>5, <1>6, <1>8, <1>15 DEF SendingPhase
  <2>4. ep0.tx + ep0.left = size /\ ep0.tx = g + m /\ (ep0.size < MPS => ep0.left = 0) /\ ep0.left \in Nat
    BY <1>1, <1>2, <1>15 DEF SendingPhase, Ep0
  <2> HIDE DEF k, g, m
  <2>9. k \in Kinds /\ g \in Nat /\ m \in Nat
    BY ONLY <2>1, <2>2
  <2>10. Len(all) = g + m /\ n = m /\ n = ep0.size
    BY ONLY <2>2
  <2>3. all = Part(k, 0, g + m)
    <3>1. 0 + g = g
      BY <2>9
    <3>2. Part(k, 0, g) \o Part(k, 0 + g, m) = Part(k, 0, g + m)
      BY ONLY <2>9, 0 \in Nat, PartsJoin
    <3>. QED BY <2>2, <3>1, <3>2
  <2>5. /\ Calm(ep0) /\ host0.stage = "in" /\ Plain(host0.req) /\ ep0.setup = host0.req /\ ~ep0.outReq /\ ~ep0.stall
    BY <1>15 DEF SendingPhase
  <2>6. then = IF n < MPS \/ Len(all) >= host0.req.wlength THEN "status out" ELSE "in"
    BY <2>5
  <2> HIDE DEF then, size
  <2>7. CASE n < MPS \/ Len(all) >= host0.req.wlength
    <3>1. ep0.left = 0 /\ g + m = size
      <4>1. MPS \in Nat
        BY ControlSizes
      <4>2. CASE n < MPS
        BY ONLY <2>1, <2>4, <2>9, <2>10, <4>1, <4>2
      <4>3. CASE Len(all) >= host0.req.wlength
        <5>1. g + m >= size
          BY ONLY <2>1, <2>9, <2>10, <4>3
        <5>2. g + m + ep0.left = size /\ ep0.left \in Nat
          BY ONLY <2>4
        <5>. QED BY ONLY <2>1, <2>9, <5>1, <5>2
      <4>. QED BY <2>7, <4>2, <4>3
    <3>2. all = Whole(host0.req)
      BY <2>3, <3>1 DEF Whole, size, k
    <3>3. ClosingPhase(ep0', host0')
      BY <1>10, <1>13, <2>5, <2>6, <2>7, <3>1, <3>2 DEF ClosingPhase, Calm
    <3>. QED BY <1>1, <1>10, <1>12, <1>13, <1>14, <3>3 DEF ControlInv, Phase, Packet
  <2>8. CASE ~(n < MPS \/ Len(all) >= host0.req.wlength)
    <3>1. then = "in" /\ Len(all) = g + m /\ g + m \in Nat
      <4>1. then = "in"
        BY ONLY <2>6, <2>8
      <4>. QED BY ONLY <2>2, <4>1
    <3>2. Part(k, g + m, 0) = <<>>
      BY <2>1, <3>1, PartIsSeq
    <3>3. ep0'.fifo = Part(k, Len(all), Len(ep0'.fifo)) /\ Len(ep0'.fifo) = 0
      BY <1>13, <3>1, <3>2
    <3>4. ep0'.tx = Len(all) + Len(ep0'.fifo) /\ all = Part(k, 0, Len(all))
      BY <1>13, <2>3, <2>4, <3>1, <3>3
    <3>5. ep0'.size >= 0 => (ep0'.size < MPS => ep0'.left = 0)
      BY <1>13
    <3>6. ep0'.tx + ep0'.left = size /\ host0'.stage = "in"
      BY <1>10, <1>13, <2>4, <3>1
    <3>7. SendingPhase(ep0', host0')
      BY <1>10, <1>13, <2>5, <3>3, <3>4, <3>5, <3>6 DEF SendingPhase, Calm, size, k
    <3>. QED BY <1>1, <1>10, <1>12, <1>13, <1>14, <3>7 DEF ControlInv, Phase, Packet
  <2>. QED BY <2>7, <2>8
<1>16. CASE StatusPhase(ep0, host0)
  <2>1. then = "done"
    BY <1>2, <1>16 DEF StatusPhase
  <2> HIDE DEF then
  <2>2. StatusPhase(ep0', host0')
    BY <1>10, <1>13, <1>16, <2>1 DEF StatusPhase, Calm
  <2>. QED BY <1>1, <1>10, <1>12, <1>13, <1>14, <2>2 DEF ControlInv, Phase, Packet
<1>17. ASSUME ~SendingPhase(ep0, host0), ~StatusPhase(ep0, host0) PROVE FALSE
  <2>1. ~NoPacket(ep0)
    BY <1>2, Unsized
  <2>2. ~AskedPhase(ep0, host0) /\ ~RefusedPhase(ep0, host0)
    BY <1>2 DEF AskedPhase, RefusedPhase
  <2>3. ~IdlePhase(ep0, host0) /\ ~ClosingPhase(ep0, host0)
    BY <1>2 DEF IdlePhase, ClosingPhase
  <2>4. ~CodingPhase(ep0, host0) /\ ~CodedPhase(ep0, host0)
    BY <2>1 DEF CodingPhase, CodedPhase
  <2>. QED BY <1>1, <1>17, <2>2, <2>3, <2>4 DEF Phase
<1>. QED BY <1>15, <1>16, <1>17

(* An OUT packet: the line coding, or the status stage's.                  *)
LEMMA HostGivesKeeps == ASSUME ControlInv, HostGives PROVE ControlInv'
<1> DEFINE e == [is |-> IF host0.stage = "out" THEN "data" ELSE "empty", req |-> Nothing, coding |-> host0.coding]
           then == IF host0.stage = "out" THEN "status in" ELSE "done"
<1>1. /\ ep0 \in Ep0 /\ host0 \in Host0 /\ ~ep0.stup /\ ~ep0.got /\ Packet(ep0)
      /\ Phase(ep0, host0)
  BY DEF ControlInv
<1>2. /\ host0.stage \in {"out", "status out"} /\ ~ep0.reset /\ ~ep0.stall
      /\ \A j \in DOMAIN ep0.rx : ep0.rx[j].is # "setup"
  BY DEF HostGives
<1>3. ~AskedPhase(ep0, host0)
  <2>1. SUFFICES ASSUME AskedPhase(ep0, host0) PROVE FALSE
    OBVIOUS
  <2> DEFINE s == [is |-> "setup", req |-> host0.req, coding |-> host0.coding]
  <2>2. ep0.rx = <<s>>
    BY <2>1 DEF AskedPhase
  <2>3. 1 \in DOMAIN ep0.rx /\ ep0.rx[1] = s
    BY <2>2
  <2>4. s.is = "setup"
    OBVIOUS
  <2> HIDE DEF s, e
  <2>5. ep0.rx[1].is = "setup"
    BY ONLY <2>3, <2>4
  <2>. QED BY ONLY <1>2, <2>3, <2>5
<1>4. CodingPhase(ep0, host0) \/ (ClosingPhase(ep0, host0) /\ host0.stage = "status out")
  BY <1>1, <1>2, <1>3 DEF Phase, IdlePhase, SendingPhase, ClosingPhase, CodedPhase, StatusPhase, RefusedPhase
<1>5. ep0.rx = <<>>
  BY <1>4 DEF CodingPhase, ClosingPhase, Calm
<1>6. Append(ep0.rx, e) = <<e>>
  BY <1>5
<1>7. ep0' = [ep0 EXCEPT !.armed = FALSE, !.rx = <<e>>]
  BY <1>1, <1>6 DEF HostGives, Ep0
<1>8. e \in Packets
  BY <1>1 DEF Packets, Setups, Host0
<1>9. <<e>> \in Seq(Packets)
  BY <1>8
<1> HIDE DEF e
<1>10. ep0' \in Ep0
  BY <1>1, <1>7, <1>9 DEF Ep0
<1>11. /\ ep0'.size = ep0.size /\ ep0'.fifo = ep0.fifo /\ ep0'.rx = <<e>> /\ ep0'.reset = ep0.reset /\ ep0'.outReq = ep0.outReq
       /\ ep0'.stall = ep0.stall /\ ep0'.left = ep0.left /\ ep0'.sent = ep0.sent /\ ep0'.stup = ep0.stup /\ ep0'.got = ep0.got
  BY <1>1, <1>7 DEF Ep0
<1>12. host0' = [host0 EXCEPT !.stage = then]
  BY <1>1 DEF HostGives, Host0
<1>13. host0' \in Host0 /\ host0'.stage = then /\ host0'.req = host0.req /\ host0'.got = host0.got /\ host0'.coding = host0.coding
  BY <1>1, <1>12 DEF Host0
<1>14. Packet(ep0')
  BY <1>1, <1>11 DEF Packet, NoPacket
<1>15. CASE CodingPhase(ep0, host0)
  <2>1. e = [is |-> "data", req |-> Nothing, coding |-> host0.coding] /\ then = "status in"
    BY <1>15 DEF CodingPhase, e
  <2>2. CodedPhase(ep0', host0')
    BY <1>2, <1>11, <1>13, <1>15, <2>1 DEF CodingPhase, CodedPhase, NoPacket
  <2>. QED BY <1>1, <1>10, <1>11, <1>13, <1>14, <2>2 DEF ControlInv, Phase
<1>16. CASE ClosingPhase(ep0, host0) /\ host0.stage = "status out"
  <2>1. e = [is |-> "empty", req |-> Nothing, coding |-> host0.coding] /\ then = "done"
    BY <1>16 DEF e
  <2>2. ClosingPhase(ep0', host0')
    BY <1>2, <1>11, <1>13, <1>16, <2>1 DEF ClosingPhase
  <2>. QED BY <1>1, <1>10, <1>11, <1>13, <1>14, <2>2 DEF ControlInv, Phase
<1>. QED BY <1>4, <1>15, <1>16

LEMMA HostStalledKeeps == ASSUME ControlInv, HostStalled PROVE ControlInv'
<1>1. /\ ep0 \in Ep0 /\ host0 \in Host0 /\ ~ep0.stup /\ ~ep0.got /\ Packet(ep0)
      /\ Phase(ep0, host0)
  BY DEF ControlInv
<1>2. /\ host0.stage \in {"in", "out", "status in", "status out"} /\ ep0.stall
      /\ host0' = [host0 EXCEPT !.stage = "refused"] /\ ep0' = ep0
  BY DEF HostStalled
<1>3. RefusedPhase(ep0, host0)
  BY <1>1, <1>2 DEF Phase, IdlePhase, AskedPhase, SendingPhase, ClosingPhase, CodingPhase, CodedPhase, StatusPhase
<1>4. host0' \in Host0 /\ host0'.stage = "refused" /\ host0'.req = host0.req
  BY <1>1, <1>2 DEF Host0
<1>5. RefusedPhase(ep0', host0')
  BY <1>2, <1>3, <1>4 DEF RefusedPhase, Calm
<1>. QED BY <1>1, <1>2, <1>4, <1>5 DEF ControlInv, Phase

LEMMA HostResetKeeps == ASSUME ControlInv, HostReset PROVE ControlInv'
<1>1. ep0 \in Ep0 /\ host0 \in Host0 /\ ~ep0.stup /\ ~ep0.got /\ Packet(ep0)
  BY DEF ControlInv
<1>2. /\ ep0.rx = <<>> /\ ~ep0.sent /\ ep0' = [ep0 EXCEPT !.reset = TRUE]
      /\ host0' = [host0 EXCEPT !.stage = "idle", !.req = Nothing, !.got = <<>>]
  BY DEF HostReset, Pending0
<1>3. /\ ep0' \in Ep0 /\ ep0'.rx = ep0.rx /\ ep0'.sent = ep0.sent /\ ep0'.size = ep0.size /\ ep0'.fifo = ep0.fifo
      /\ ep0'.stup = ep0.stup /\ ep0'.got = ep0.got
  BY <1>1, <1>2 DEF Ep0
<1>4. host0' \in Host0 /\ host0'.stage = "idle"
  <2>1. Nothing \in Setups
    BY DEF Setups
  <2>. QED BY <1>1, <1>2, <2>1, EmptySeq DEF Host0
<1>5. IdlePhase(ep0', host0')
  BY <1>2, <1>3, <1>4 DEF IdlePhase
<1>. QED BY <1>1, <1>3, <1>4, <1>5 DEF ControlInv, Phase, Packet, NoPacket

-----------------------------------------------------------------------------
(* The control part as a whole.                                            *)
LEMMA ControlStarts == ControlInit => ControlInv
<1> SUFFICES ASSUME ControlInit PROVE ControlInv
  OBVIOUS
<1>1. PICK c \in Codings :
        /\ ep0 = [Ep0Init(c) EXCEPT !.armed = TRUE]
        /\ host0 = [req |-> Nothing, got |-> <<>>, coding |-> c, stage |-> "idle"]
  BY DEF ControlInit
<1>2. Nothing \in Setups
  BY DEF Setups
<1>3. host0 \in Host0 /\ host0.stage = "idle"
  BY <1>1, <1>2, EmptySeq DEF Host0
<1>4. /\ ep0.rx = <<>> /\ ~ep0.sent /\ ep0.size = -1 /\ ep0.fifo = <<>> /\ ~ep0.stup /\ ~ep0.got
  BY <1>1 DEF Ep0Init
<1>5. ep0 \in Ep0
  <2>1. ep0 = [setup |-> Nothing, tx |-> 0, left |-> 0, zlp |-> FALSE, outReq |-> FALSE, buf |-> c, line |-> c,
               fifo |-> <<>>, size |-> -1, nak |-> TRUE, sent |-> FALSE,
               rx |-> <<>>, stup |-> FALSE, got |-> FALSE, armed |-> TRUE, stall |-> FALSE, reset |-> FALSE]
    BY <1>1 DEF Ep0Init
  <2>. QED BY <1>2, <2>1, EmptySeq DEF Ep0
<1>. QED BY <1>3, <1>4, <1>5 DEF ControlInv, Packet, NoPacket, Phase, IdlePhase

LEMMA ControlKeeps == ASSUME ControlInv, ~LongMasks, [ControlStep]_control PROVE ControlInv'
<1>1. CASE UNCHANGED control
  BY <1>1 DEF control, ControlInv, Packet, NoPacket, Phase, IdlePhase, AskedPhase, SendingPhase, ClosingPhase,
    CodingPhase, CodedPhase, StatusPhase, RefusedPhase, Calm
<1>. QED
  BY <1>1, Irq0Keeps, HostSetupKeeps, HostTakesKeeps, HostGivesKeeps, HostStalledKeeps, HostResetKeeps DEF ControlStep

LEMMA ControlTells == ControlInv => RepliesExact
<1> SUFFICES ASSUME ControlInv PROVE RepliesExact
  OBVIOUS
<1>1. Phase(ep0, host0) /\ host0 \in Host0
  BY DEF ControlInv
<1>2. Whole(host0.req) = [j \in 1 .. Least(host0.req.len, host0.req.wlength) |-> <<host0.req.kind, j>>]
  <2> DEFINE size == Least(host0.req.len, host0.req.wlength)
  <2>1. size \in Nat
    BY <1>1, LengthsNat DEF Host0
  <2> HIDE DEF size
  <2>2. \A j \in 1 .. size : 0 + j = j
    BY <2>1
  <2>. QED BY <2>2 DEF Whole, Part, size
<1>3. Plain(host0.req) => host0.req.kind \notin {"set", "line", "bad"}
  BY DEF Plain
<1>. QED
  BY <1>1, <1>2, <1>3 DEF RepliesExact, Phase, IdlePhase, AskedPhase, SendingPhase, ClosingPhase,
    CodingPhase, CodedPhase, StatusPhase, RefusedPhase, StageOf

-----------------------------------------------------------------------------
(* What the whole does to a part is a step of that part, or nothing.       *)
LEMMA PartsStart == SystemInit => Init /\ ControlInit /\ SchedInit /\ DisplayInit /\ StartInit
BY DEF SystemInit

LEMMA PartsStep ==
  [SystemNext]_systemVars =>
    [Next]_vars /\ [ControlStep]_control /\ [SchedNext]_schedVars /\ [DisplayStep]_display /\ [StartNext]_startVars
<1>1. ASSUME NEW p, In(p)
      PROVE  /\ p # "usb" => UNCHANGED vars
             /\ p # "control" => UNCHANGED control
             /\ p # "tasks" => UNCHANGED schedVars
             /\ p # "display" => UNCHANGED display
             /\ p # "start" => UNCHANGED startVars
  BY <1>1 DEF In, usbVars
<1>2. UNCHANGED systemVars =>
        UNCHANGED vars /\ UNCHANGED control /\ UNCHANGED schedVars /\ UNCHANGED display /\ UNCHANGED startVars
  BY DEF systemVars, usbVars
<1>3. CASE In("usb") /\ Next
  BY <1>1, <1>3
<1>4. CASE In("control") /\ ControlStep
  BY <1>1, <1>4
<1>5. CASE In("tasks") /\ SchedNext
  BY <1>1, <1>5
<1>6. CASE In("display") /\ DisplayStep
  BY <1>1, <1>6
<1>7. CASE In("start") /\ StartNext
  BY <1>1, <1>7
<1>8. QED
  BY <1>2, <1>3, <1>4, <1>5, <1>6, <1>7 DEF SystemNext

LEMMA PartsRun ==
  SystemSpec =>
    /\ Spec /\ ControlInit /\ [][ControlStep]_control /\ SchedSpec
    /\ DisplayInit /\ [][DisplayStep]_display /\ StartSpec
BY PartsStart, PartsStep, PTL DEF SystemSpec, Spec, SchedSpec, StartSpec

-----------------------------------------------------------------------------
(* display.c: the panel differs from what was drawn only where the next    *)
(* flush sends it, whatever was drawn, clipped, or drawn while the panel   *)
(* had no power.                                                           *)
THEOREM PanelIsRight == SystemSpec => []PanelShows
<1>1. DisplayInit /\ [][DisplayStep]_display => []DisplayInv
  BY DisplayStarts, DisplayKeeps, PTL
<1>2. QED
  BY <1>1, PartsRun, DisplayShows, PTL

(* usb_device.c: what the host gets of a reply is the reply, in packets of *)
(* any size and of any length, nothing of a request it gave up, and what   *)
(* was accepted had its effect; for a host that waits longer than          *)
(* interrupts may be off.                                                  *)
THEOREM RepliesAreExact == ASSUME ~LongMasks PROVE SystemSpec => []RepliesExact
<1>1. ControlInit /\ [][ControlStep]_control => []ControlInv
  BY ControlStarts, ControlKeeps, PTL
<1>2. QED
  BY <1>1, PartsRun, ControlTells, PTL

(* The flash: what the driver answers is true, and the program that runs   *)
(* from the flash keeps it readable, from any start on.                    *)
THEOREM FlashTellsTrue == SystemSpec => []FlashTells
<1>1. AnswersTrue /\ CodeReadable => FlashTells
  BY DEF FlashTells
<1>2. QED
  BY <1>1, FlashIsTrue, PartsRun, PTL

(* The other parts, as parts of the whole: the data of the USB device, the *)
(* tasks, and where the loader leads.                                      *)
THEOREM PartsHold == SystemSpec => [](BytesInOrder /\ RightTaskRuns /\ TakeTurns /\ StartsRight)
BY PartsRun, BytesKeepOrder, RightOneRuns, TurnsAreTaken, LoaderStartsRight, PTL
===============================================================================

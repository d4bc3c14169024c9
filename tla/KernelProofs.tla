----------------------------- MODULE KernelProofs -----------------------------
(***************************************************************************)
(* Proofs about Kernel: what sleeping switches off is switched on again,   *)
(* for any keyboard, any queue and any number of backlight levels; and     *)
(* the keyboard driver reports which keys are down.                        *)
(***************************************************************************)
EXTENDS Kernel, SequenceTheorems, WellFoundedInduction, TLAPS

Light == [on : BOOLEAN, level : 0 .. Levels - 1, wanted : 0 .. Levels - 1, chip : 0 .. Levels - 1]

(* The backlight shows what was asked for, and the driver's count is the   *)
(* chip's level.                                                           *)
Lit(l) == l.on /\ l.level = l.wanted /\ l.chip = l.wanted

(***************************************************************************)
(* The inductive invariant.  Asleep, low says which clock runs and SysTick *)
(* follows it; awake, everything is on.  The count of the backlight's      *)
(* level is only right while it is on: switched off, the chip forgets it.  *)
(***************************************************************************)
PowerInv ==
  /\ pc \in {"loop", "input", "check", "shell", "sleep", "delay", "drain", "rest", "wake"}
  /\ back \in {"check", "loop"}
  /\ light \in Light /\ low \in BOOLEAN /\ vbus \in BOOLEAN
  /\ clk = (IF low THEN "low" ELSE "high")
  /\ tick = Period(IF Awake THEN 1 ELSE 20, clk)
  /\ Awake => ~low /\ parts = {"panel", "led"} /\ Lit(light)
  /\ ~Awake => ~light.on

(* Since it was woken, nothing has asked it to sleep.                      *)
GraceInv == idle \in BOOLEAN /\ grace \in BOOLEAN /\ (Awake /\ grace => ~idle)

-----------------------------------------------------------------------------
(* The backlight *)

(* A full round of the chip's levels changes nothing.                      *)
LEMMA FullRound ==
  ASSUME NEW n \in Nat \ {0}, NEW a \in 0 .. n - 1
  PROVE  a % n = a /\ (a + n) % n = a
OBVIOUS

(* Stepped down from a level that was counted right, the chip ends at the  *)
(* level that was asked for, and the count is right again.                 *)
LEMMA AppliedLit ==
  ASSUME NEW l \in Light, l.on, l.chip = l.level
  PROVE  Applied(l) \in Light /\ Lit(Applied(l))
<1>1. Levels \in Nat \ {0} /\ l.level \in 0 .. Levels - 1 /\ l.wanted \in 0 .. Levels - 1
  BY KernelSizes DEF Light
<1>2. (l.chip - Pulses(l.level, l.wanted) + Levels) % Levels = l.wanted
  <2>1. CASE l.level >= l.wanted
    <3>1. l.chip - Pulses(l.level, l.wanted) + Levels = l.wanted + Levels
      BY <1>1, <2>1 DEF Pulses
    <3>. QED BY <1>1, <3>1, FullRound
  <2>2. CASE ~(l.level >= l.wanted)
    <3>1. l.chip - Pulses(l.level, l.wanted) + Levels = l.wanted
      BY <1>1, <2>2 DEF Pulses
    <3>. QED BY <1>1, <3>1, FullRound
  <2>. QED BY <2>1, <2>2
<1>3. Applied(l) = [l EXCEPT !.chip = l.wanted, !.level = l.wanted]
  BY <1>2 DEF Applied
<1>. QED BY <1>1, <1>3 DEF Light, Lit

(* Switched on, it shows the level that was asked for last.                *)
LEMMA LightOnLit ==
  ASSUME NEW l \in Light, ~l.on
  PROVE  LightOn(l) \in Light /\ Lit(LightOn(l))
<1> DEFINE m == [l EXCEPT !.on = TRUE, !.chip = Levels - 1, !.level = Levels - 1]
<1>. Levels - 1 \in 0 .. Levels - 1
  BY KernelSizes
<1>1. m \in Light /\ m.on /\ m.chip = m.level
  BY DEF Light
<1>2. LightOn(l) = Applied(m)
  BY DEF LightOn
<1> HIDE DEF m
<1>. QED BY <1>1, <1>2, AppliedLit

(* Switched off, it keeps the level that was asked for.                    *)
LEMMA LightOffType ==
  ASSUME NEW l \in Light
  PROVE  LightOff(l) \in Light /\ ~LightOff(l).on
<1>1. 0 \in 0 .. Levels - 1
  BY KernelSizes
<1>. QED BY <1>1 DEF LightOff, Light

LEMMA SetLevelLit ==
  ASSUME NEW l \in Light, Lit(l), NEW w \in 0 .. Levels - 1
  PROVE  SetLevel(l, w) \in Light /\ Lit(SetLevel(l, w))
<1> DEFINE m == [l EXCEPT !.wanted = w]
<1>1. m \in Light /\ m.on /\ m.chip = m.level
  BY DEF Light, Lit
<1>2. SetLevel(l, w) = Applied(m)
  BY DEF SetLevel, Lit
<1>. QED BY <1>1, <1>2, AppliedLit

-----------------------------------------------------------------------------
(* Power *)

LEMMA PowerInit == Init => PowerInv
<1> SUFFICES ASSUME Init
             PROVE  PowerInv
  OBVIOUS
<1>1. light \in Light /\ Lit(light)
  BY DEF Init, Light, Lit
<1>2. low = FALSE /\ clk = "high" /\ tick = Period(1, clk) /\ Awake
  BY DEF Init, Period, Awake
<1>. QED BY <1>1, <1>2 DEF Init, PowerInv

(* Falling asleep, from either place in task_input().                      *)
LEMMA FallsAsleep ==
  ASSUME PowerInv, Awake, NEW r \in {"check", "loop"}, PowerSleep(r)
  PROVE  PowerInv'
<1>1. light' \in Light /\ ~light'.on
  BY LightOffType DEF PowerSleep, PowerInv
<1>2. pc' = "sleep" /\ back' \in {"check", "loop"} /\ ~Awake'
  BY DEF PowerSleep, Awake
<1>3. low' = FALSE /\ clk' = "high" /\ tick' = Period(20, clk') /\ vbus' \in BOOLEAN
  BY DEF PowerSleep, PowerInv, Awake, Period
<1>. QED BY <1>1, <1>2, <1>3 DEF PowerInv

(* Steps that leave everything that has power alone.                       *)
LEMMA PowerKept ==
  ASSUME PowerInv, UNCHANGED power, back' \in {"check", "loop"},
         pc' \in {"loop", "input", "check", "shell", "sleep", "delay", "drain", "rest", "wake"},
         Awake' <=> Awake
  PROVE  PowerInv'
BY DEF PowerInv, power, Period, Lit

LEMMA PowerNext == PowerInv /\ [Next]_vars => PowerInv'
<1> SUFFICES ASSUME PowerInv, [Next]_vars
             PROVE  PowerInv'
  OBVIOUS
<1> USE DEF PowerInv
<1>1. ASSUME NEW task \in {"input", "shell"}, Start(task)
      PROVE  PowerInv'
  BY <1>1, PowerKept DEF Start, Awake
<1>2. CASE InputEvent
  <2>1. CASE PowerSleep("check")
    BY <1>2, <2>1, FallsAsleep DEF InputEvent, Awake
  <2>2. CASE UNCHANGED <<pc, back, power>>
    BY <2>2, PowerKept DEF Awake
  <2>. QED BY <1>2, <2>1, <2>2 DEF InputEvent
<1>3. CASE InputDone
  BY <1>3, PowerKept DEF InputDone, Awake
<1>4. CASE InputCheck
  <2>1. CASE PowerSleep("loop")
    BY <1>4, <2>1, FallsAsleep DEF InputCheck, Awake
  <2>2. CASE pc' = "loop" /\ UNCHANGED <<back, power>>
    BY <1>4, <2>2, PowerKept DEF InputCheck, Awake
  <2>. QED BY <1>4, <2>1, <2>2 DEF InputCheck
<1>5. CASE ShellEvent
  <2>1. light' \in Light /\ Lit(light')
    BY <1>5, SetLevelLit DEF ShellEvent, Awake
  <2>2. UNCHANGED <<pc, back, vbus, low, clk, tick, parts>> /\ pc = "shell"
    BY <1>5 DEF ShellEvent
  <2>. QED BY <2>1, <2>2 DEF Awake, Period
<1>6. CASE ShellEnd
  BY <1>6, PowerKept DEF ShellEnd, Awake
<1>7. CASE SleepClocks
  <2>1. pc' = "delay" /\ ~Awake /\ ~Awake' /\ UNCHANGED <<back, vbus, parts, light>>
    BY <1>7 DEF SleepClocks, Awake
  <2>2. low' \in BOOLEAN /\ clk' = (IF low' THEN "low" ELSE "high")
    BY <1>7 DEF SleepClocks
  <2>3. tick' = Period(20, clk')
    BY <1>7, <2>1 DEF SleepClocks, Period
  <2>. QED BY <2>1, <2>2, <2>3
<1>8. CASE SleepDelay
  BY <1>8, PowerKept DEF SleepDelay, TimePasses, Awake
<1>9. CASE SleepEvent
  BY <1>9, PowerKept DEF SleepEvent, Awake
<1>10. CASE SleepDrained
  BY <1>10, PowerKept DEF SleepDrained, Awake
<1>11. CASE SleepRest
  BY <1>11, PowerKept DEF SleepRest, Awake
<1>12. CASE Wake
  <2>1. pc' \in {"check", "loop"} /\ Awake' /\ ~Awake
    BY <1>12 DEF Wake, Woken, Awake
  <2>2. light' \in Light /\ Lit(light')
    BY <1>12, <2>1, LightOnLit DEF Wake, Woken
  <2>3. low' = FALSE /\ vbus' \in BOOLEAN /\ clk' = "high" /\ back' = "loop"
    BY <1>12 DEF Wake, Woken
  <2>4. tick' = Period(1, clk') /\ parts' = {"panel", "led"}
    BY <1>12 DEF Wake, Woken
  <2>. QED BY <2>1, <2>2, <2>3, <2>4
<1>13. CASE KbdStep
  BY <1>13, PowerKept DEF KbdStep, Awake
<1>14. CASE Elapse
  BY <1>14, PowerKept DEF Elapse, TimePasses, Awake
<1>15. CASE UserKey
  BY <1>15, PowerKept DEF UserKey, Awake
<1>16. CASE Cable
  BY <1>16 DEF Cable, Awake, Period, Lit
<1>17. CASE UNCHANGED vars
  BY <1>17, PowerKept DEF vars, power, Awake
<1>. QED
  BY <1>1, <1>2, <1>3, <1>4, <1>5, <1>6, <1>7, <1>8, <1>9, <1>10, <1>11, <1>12, <1>13,
     <1>14, <1>15, <1>16, <1>17 DEF Next, Main, Tasks, Sleeping

LEMMA PowerAlways == Spec => []PowerInv
BY PowerInit, PowerNext, PTL DEF Spec

(* However often it slept, and whatever happened to the cable and the      *)
(* brightness, the calculator is awake with everything switched on.        *)
THEOREM AllIsRestored == Spec => []AwakeRestored
<1>1. PowerInv => AwakeRestored
  BY DEF PowerInv, AwakeRestored, Lit
<1>. QED BY <1>1, PowerAlways, PTL

(* SysTick always counts for the clock that runs, so that milliseconds     *)
(* stay right, and a transfer while asleep has the clocks that USB needs.  *)
THEOREM ClocksFollow == Spec => []ClocksRight
<1>1. PowerInv => TickRight
  BY DEF PowerInv, TickRight, Period
<1>2. PowerInv => UsbHasClocks
  BY DEF PowerInv, UsbHasClocks
<1>. QED BY <1>1, <1>2, PowerAlways, PTL DEF ClocksRight

-----------------------------------------------------------------------------
(* Waking *)

LEMMA GraceInit == Init => GraceInv
BY DEF Init, GraceInv

LEMMA GraceNext == PowerInv /\ GraceInv /\ [Next]_vars => GraceInv'
<1> SUFFICES ASSUME PowerInv, GraceInv, [Next]_vars
             PROVE  GraceInv'
  OBVIOUS
<1> USE DEF GraceInv, Awake
<1>1. ASSUME NEW task \in {"input", "shell"}, Start(task)
      PROVE  GraceInv'
  BY <1>1 DEF Start
<1>2. CASE InputEvent
  BY <1>2 DEF InputEvent, PowerSleep, Press
<1>3. CASE InputDone
  BY <1>3 DEF InputDone
<1>4. CASE InputCheck
  BY <1>4 DEF InputCheck, PowerSleep
<1>5. CASE ShellEvent
  BY <1>5 DEF ShellEvent
<1>6. CASE ShellEnd
  BY <1>6 DEF ShellEnd
<1>7. CASE SleepClocks \/ SleepDelay \/ SleepEvent \/ SleepDrained \/ SleepRest
  BY <1>7 DEF SleepClocks, SleepDelay, SleepEvent, SleepDrained, SleepRest
<1>8. CASE Wake
  BY <1>8 DEF Wake, Woken
<1>9. CASE KbdStep
  BY <1>9 DEF KbdStep
<1>10. CASE Elapse
  BY <1>10 DEF Elapse
<1>11. CASE UserKey \/ Cable
  BY <1>11 DEF UserKey, Cable
<1>12. CASE UNCHANGED vars
  BY <1>12 DEF vars
<1>. QED
  BY <1>1, <1>2, <1>3, <1>4, <1>5, <1>6, <1>7, <1>8, <1>9, <1>10, <1>11, <1>12
  DEF Next, Main, Tasks, Sleeping

(* A step that falls asleep is one that was asked for.                     *)
LEMMA SleepIsAsked ==
  PowerInv /\ GraceInv /\ [Next]_vars => (Awake /\ ~Awake' => ~grace')
<1> SUFFICES ASSUME PowerInv, GraceInv, [Next]_vars, Awake, ~Awake'
             PROVE  ~grace'
  OBVIOUS
<1>1. InputEvent \/ InputCheck
  BY DEF Next, Main, Tasks, Sleeping, Start, InputDone, ShellEvent, ShellEnd, SleepClocks,
         SleepDelay, SleepEvent, SleepDrained, SleepRest, Wake, Woken, KbdStep, Elapse,
         UserKey, Cable, vars, Awake
<1>2. CASE InputEvent
  BY <1>2 DEF InputEvent, Awake
<1>3. CASE InputCheck
  BY <1>3 DEF InputCheck, GraceInv, Awake
<1>. QED BY <1>1, <1>2, <1>3

(* Once woken, the calculator only sleeps again when asked to: the time of *)
(* the last key press before it slept does not count.                      *)
THEOREM WakingLasts == Spec => WakeLasts
<1>1. PowerInv /\ GraceInv /\ [Next]_vars => [Awake /\ ~Awake' => ~grace']_vars
  BY SleepIsAsked
<1>. QED
  BY <1>1, PowerAlways, GraceInit, GraceNext, PTL DEF Spec, WakeLasts

-----------------------------------------------------------------------------
(* The keyboard *)

(* What the ring holds; the key that repeats; what a look at a key changes. *)
Events == [key : Keys, action : {"press", "release"}]
Held == [key : Keys \cup {NoKey}, due : BOOLEAN]
Looks == [state : SUBSET Keys, buf : Seq(Events), lost : SUBSET Keys, rep : Held]

(* The least of some numbers.                                              *)
LEMMA Least ==
  ASSUME NEW S \in SUBSET Nat, S # {}
  PROVE  \E x \in S : \A y \in S : x <= y
<1>1. PICK x \in S : \A y \in S : ~(<<y, x>> \in OpToRel(<, Nat))
  BY NatLessThanWellFounded, WFMin, Zenon
<1>2. \A y \in S : x <= y
  <2> SUFFICES ASSUME NEW y \in S, y < x PROVE FALSE
    OBVIOUS
  <2>1. <<y, x>> \in OpToRel(<, Nat)
    BY DEF OpToRel
  <2>. QED BY <1>1, <2>1
<1>. QED BY <1>2

(* What the ring tells: nothing, when it is empty.                         *)
LEMMA KnownEmpty == \A t \in SUBSET Keys : Known(t, <<>>) = t
BY DEF Known

(* An event more in the ring is an event more told, in the end.            *)
LEMMA KnownPush ==
  ASSUME NEW b \in Seq(Events), NEW e \in Events, NEW t \in SUBSET Keys
  PROVE  Known(t, Append(b, e)) = IF e.action = "press" THEN Known(t, b) \cup {e.key} ELSE Known(t, b) \ {e.key}
<1> DEFINE n == Len(b)
           c == Append(b, e)
<1>1. /\ n \in Nat /\ DOMAIN b = 1 .. n /\ DOMAIN c = 1 .. n + 1 /\ c[n + 1] = e
      /\ \A j \in 1 .. n : c[j] = b[j]
  BY AppendProperties, LenProperties
<1>. HIDE DEF n, c
<1>2. e.key \in Keys /\ e.action \in {"press", "release"} /\ e = Event(e.key, e.action)
  BY DEF Events, Event
<1>3. ASSUME NEW k \in Keys, k = e.key
      PROVE  k \in Known(t, c) <=> e.action = "press"
  <2>1. e.action = "press" => k \in Known(t, c)
    BY <1>1, <1>2, <1>3 DEF Known
  <2>2. ASSUME k \in Known(t, c) PROVE e.action = "press"
    <3>1. ~(\A j \in DOMAIN c : c[j].key # k)
      BY <1>1, <1>3
    <3>2. PICK j \in DOMAIN c : c[j] = Event(k, "press") /\ \A i \in DOMAIN c : i > j => c[i].key # k
      BY <2>2, <3>1 DEF Known
    <3>3. j = n + 1
      BY <1>1, <1>3, <3>2
    <3>. QED BY <1>1, <3>2, <3>3 DEF Event
  <2>. QED BY <2>1, <2>2
<1>4. ASSUME NEW k \in Keys, k # e.key
      PROVE  k \in Known(t, c) <=> k \in Known(t, b)
  <2>1. (\A j \in DOMAIN c : c[j].key # k) <=> (\A j \in DOMAIN b : b[j].key # k)
    BY <1>1, <1>4
  <2>2. ASSUME NEW j \in DOMAIN c, c[j] = Event(k, "press"), \A i \in DOMAIN c : i > j => c[i].key # k
        PROVE  j \in DOMAIN b /\ b[j] = Event(k, "press") /\ \A i \in DOMAIN b : i > j => b[i].key # k
    <3>1. j # n + 1
      BY <1>1, <1>4, <2>2 DEF Event
    <3>. QED BY <1>1, <2>2, <3>1
  <2>3. ASSUME NEW j \in DOMAIN b, b[j] = Event(k, "press"), \A i \in DOMAIN b : i > j => b[i].key # k
        PROVE  j \in DOMAIN c /\ c[j] = Event(k, "press") /\ \A i \in DOMAIN c : i > j => c[i].key # k
    BY <1>1, <1>4, <2>3
  <2>. QED BY <2>1, <2>2, <2>3 DEF Known
<1>5. Known(t, c) \subseteq Keys /\ Known(t, b) \subseteq Keys
  BY DEF Known
<1>. QED BY <1>2, <1>3, <1>4, <1>5 DEF c

(* Who takes an event has been told of one key more, or one less.          *)
Heard(t, e) == IF e.action = "press" THEN t \cup {e.key} ELSE t \ {e.key}

(* Whether an event is still in the ring or has been taken is the same to  *)
(* who has taken them all.                                                 *)
LEMMA KnownTake ==
  ASSUME NEW b \in Seq(Events), b # <<>>, NEW t \in SUBSET Keys
  PROVE  Known(Heard(t, Head(b)), Tail(b)) = Known(t, b) /\ Heard(t, Head(b)) \in SUBSET Keys
<1> DEFINE n == Len(b)
           c == Tail(b)
           e == Head(b)
           u == Heard(t, e)
<1>1. n \in Nat \ {0} /\ DOMAIN b = 1 .. n
  BY LenProperties, EmptySeq
<1>2. c \in Seq(Events) /\ Len(c) = n - 1 /\ DOMAIN c = 1 .. n - 1
  BY HeadTailProperties, LenProperties
<1>3. \A j \in 1 .. n - 1 : c[j] = b[j + 1]
  BY <1>2, HeadTailProperties
<1>4. e = b[1] /\ e \in Events
  BY HeadTailProperties
<1>. HIDE DEF n, c, e
<1>5. e.key \in Keys /\ e.action \in {"press", "release"} /\ e = Event(e.key, e.action)
  BY <1>4 DEF Events, Event
<1>6. ASSUME NEW k \in Keys
      PROVE  k \in Known(u, c) <=> k \in Known(t, b)
  <2>1. (\A j \in DOMAIN b : b[j].key # k) <=> (e.key # k /\ \A j \in DOMAIN c : c[j].key # k)
    <3>1. ASSUME e.key # k, \A j \in DOMAIN c : c[j].key # k, NEW j \in DOMAIN b PROVE b[j].key # k
      <4>1. CASE j = 1
        BY <1>4, <3>1, <4>1
      <4>2. CASE j # 1
        <5>1. j - 1 \in DOMAIN c /\ c[j - 1] = b[j]
          BY <1>1, <1>2, <1>3, <4>2
        <5>. QED BY <3>1, <5>1
      <4>. QED BY <4>1, <4>2
    <3>2. ASSUME \A j \in DOMAIN b : b[j].key # k PROVE e.key # k /\ \A j \in DOMAIN c : c[j].key # k
      <4>1. e.key # k
        BY <1>1, <1>4, <3>2
      <4>2. ASSUME NEW j \in DOMAIN c PROVE c[j].key # k
        <5>1. j + 1 \in DOMAIN b /\ c[j] = b[j + 1]
          BY <1>1, <1>2, <1>3
        <5>. QED BY <3>2, <5>1
      <4>. QED BY <4>1, <4>2
    <3>. QED BY <3>1, <3>2
  <2> DEFINE P(s) == \E j \in DOMAIN s : s[j] = Event(k, "press") /\ \A i \in DOMAIN s : i > j => s[i].key # k
  <2>2. P(c) => P(b)
    <3> SUFFICES ASSUME NEW j \in DOMAIN c, c[j] = Event(k, "press"), \A i \in DOMAIN c : i > j => c[i].key # k
                 PROVE  P(b)
      OBVIOUS
    <3>1. j + 1 \in DOMAIN b /\ b[j + 1] = Event(k, "press")
      BY <1>1, <1>2, <1>3
    <3>2. ASSUME NEW i \in DOMAIN b, i > j + 1 PROVE b[i].key # k
      <4>1. i - 1 \in DOMAIN c /\ i - 1 > j /\ c[i - 1] = b[i]
        BY <1>1, <1>2, <1>3, <3>2
      <4>. QED BY <4>1
    <3>. QED BY <3>1, <3>2
  <2>3. P(b) => P(c) \/ (e = Event(k, "press") /\ \A i \in DOMAIN c : c[i].key # k)
    <3> SUFFICES ASSUME NEW j \in DOMAIN b, b[j] = Event(k, "press"), \A i \in DOMAIN b : i > j => b[i].key # k
                 PROVE  P(c) \/ (e = Event(k, "press") /\ \A i \in DOMAIN c : c[i].key # k)
      OBVIOUS
    <3>1. CASE j = 1
      BY <1>1, <1>2, <1>3, <1>4, <3>1
    <3>2. CASE j # 1
      <4>1. j - 1 \in DOMAIN c /\ c[j - 1] = Event(k, "press")
        BY <1>1, <1>2, <1>3, <3>2
      <4>2. ASSUME NEW i \in DOMAIN c, i > j - 1 PROVE c[i].key # k
        <5>1. i + 1 \in DOMAIN b /\ i + 1 > j /\ c[i] = b[i + 1]
          BY <1>1, <1>2, <1>3, <4>2
        <5>. QED BY <5>1
      <4>. QED BY <4>1, <4>2
    <3>. QED BY <3>1, <3>2
  <2>4. e = Event(k, "press") /\ (\A i \in DOMAIN c : c[i].key # k) => P(b)
    <3> SUFFICES ASSUME e = Event(k, "press"), \A i \in DOMAIN c : c[i].key # k PROVE P(b)
      OBVIOUS
    <3>1. 1 \in DOMAIN b /\ b[1] = Event(k, "press")
      BY <1>1, <1>4
    <3>2. ASSUME NEW i \in DOMAIN b, i > 1 PROVE b[i].key # k
      <4>1. i - 1 \in DOMAIN c /\ c[i - 1] = b[i]
        BY <1>1, <1>2, <1>3, <3>2
      <4>. QED BY <4>1
    <3>. QED BY <3>1, <3>2
  <2>5. /\ k \in Known(t, b) <=> P(b) \/ (k \in t /\ \A j \in DOMAIN b : b[j].key # k)
        /\ k \in Known(u, c) <=> P(c) \/ (k \in u /\ \A j \in DOMAIN c : c[j].key # k)
    BY DEF Known
  <2>6. k \in u <=> (e = Event(k, "press") \/ (k \in t /\ e.key # k))
    BY <1>5 DEF Heard, Event
  <2> HIDE DEF P, u
  <2>. QED BY <2>1, <2>2, <2>3, <2>4, <2>5, <2>6
<1>7. Known(u, c) \subseteq Keys /\ Known(t, b) \subseteq Keys
  BY DEF Known
<1>8. Known(u, c) = Known(t, b)
  BY <1>6, <1>7
<1>9. u \in SUBSET Keys
  BY <1>5 DEF Heard
<1>. QED BY <1>8, <1>9 DEF c, e

-----------------------------------------------------------------------------
(* A row of keys *)

(* What RowLooked's function is equal to.                                  *)
Body(keys, f) == [j \in 0 .. Len(keys) |->
  IF j = 0 THEN [state |-> state, buf |-> buf, lost |-> lost, rep |-> rep] ELSE Looked(f[j - 1], keys[j])]

(* The loop over a row has values.                                         *)
LEMMA RowAt ==
  ASSUME NEW keys, Len(keys) \in Nat
  PROVE  \E f : f = Body(keys, f) /\ RowLooked(keys) = f[Len(keys)]
<1> DEFINE d0 == [state |-> state, buf |-> buf, lost |-> lost, rep |-> rep]
           F(n, f) == [j \in 0 .. n |-> IF j = 0 THEN d0 ELSE Looked(f[j - 1], keys[j])]
           S == {n \in Nat : ~(\E f : f = F(n, f))}
<1>1. S = {}
  <2> SUFFICES ASSUME S # {} PROVE FALSE
    OBVIOUS
  <2>1. PICK m \in S : \A y \in S : m <= y
    BY Least
  <2>2. ~(\E f : f = F(m, f)) /\ m \in Nat
    BY <2>1
  <2>3. m # 0
    <3>1. [j \in 0 .. 0 |-> d0] = F(0, [j \in 0 .. 0 |-> d0])
      OBVIOUS
    <3>. QED BY <2>2, <3>1
  <2>4. m - 1 \in Nat /\ ~(m <= m - 1)
    BY <2>2, <2>3
  <2>5. PICK g : g = F(m - 1, g)
    <3>1. m - 1 \notin S
      <4> HIDE DEF S
      <4>. QED BY <2>1, <2>4
    <3>. QED BY <2>4, <3>1
  <2> DEFINE h == [j \in 0 .. m |-> IF j = m THEN Looked(g[m - 1], keys[m]) ELSE g[j]]
  <2>6. ASSUME NEW j \in 0 .. m PROVE h[j] = IF j = 0 THEN d0 ELSE Looked(h[j - 1], keys[j])
    <3>1. CASE j = 0
      <4>1. g[0] = d0
        BY <2>4, <2>5
      <4>. QED BY <2>2, <2>3, <3>1, <4>1
    <3>2. CASE j # 0 /\ j = m
      <4>1. h[m] = Looked(g[m - 1], keys[m]) /\ h[m - 1] = g[m - 1]
        BY <2>2, <2>3
      <4>. QED BY <3>2, <4>1
    <3>3. CASE j # 0 /\ j # m
      <4>1. j \in 0 .. m - 1 /\ j - 1 \in 0 .. m - 1 /\ j - 1 # m /\ j - 1 \in 0 .. m
        BY <2>2, <3>3
      <4>2. g[j] = Looked(g[j - 1], keys[j])
        BY <2>5, <3>3, <4>1
      <4>3. h[j] = g[j] /\ h[j - 1] = g[j - 1]
        BY <3>3, <4>1
      <4>. QED BY <3>3, <4>2, <4>3
    <3>. QED BY <3>1, <3>2, <3>3
  <2>7. h = F(m, h)
    BY <2>6
  <2>. QED BY <2>2, <2>7
<1> DEFINE at == CHOOSE f : f = F(Len(keys), f)
<1>2. RowLooked(keys) = at[Len(keys)]
  BY DEF RowLooked
<1>3. \E f : f = F(Len(keys), f)
  BY <1>1
<1>4. at = F(Len(keys), at)
  BY <1>3
<1>. QED BY <1>2, <1>4 DEF Body

(* What holds before a row and is kept by each key holds after it.  Held   *)
(* by d: its types; the key that repeats is down; what is told is right.   *)
Tells(t, b, l, s) == \A k \in Keys \ l : k \in Known(t, b) <=> k \in s

Told(d) ==
  /\ d \in Looks
  /\ d.rep.key # NoKey => d.rep.key \in d.state
  /\ ~EndOfBoot => d.buf = <<>> /\ d.rep = NoRepeat
  /\ EndOfBoot => Tells(told, d.buf, d.lost, d.state)

Stable(k) == k \in contact <=> k \in debounce

(* A look at a key keeps what is told right: an event goes to the ring for *)
(* each change of the state, or is known to be lost.                       *)
LEMMA LookedRight ==
  ASSUME NEW d, Told(d), NEW k \in Keys, told \in SUBSET Keys, contact \in SUBSET Keys
  PROVE  /\ Told(Looked(d, k))
         /\ Looked(d, k).state = IF ~Stable(k) THEN d.state
                               ELSE IF k \in contact THEN d.state \cup {k} ELSE d.state \ {k}
<1> DEFINE pressed == k \in contact
           e == Event(k, IF pressed THEN "press" ELSE "release")
           s == IF pressed THEN d.state \cup {k} ELSE d.state \ {k}
           x == Looked(d, k)
<1>1. d \in Looks /\ d.state \in SUBSET Keys /\ d.buf \in Seq(Events) /\ d.lost \in SUBSET Keys /\ d.rep \in Held
  BY DEF Told, Looks
<1>2. e \in Events /\ e.key = k /\ (e.action = "press" <=> pressed) /\ (e.action = "release" <=> ~pressed)
  BY DEF Events, Event
<1>3. s \in SUBSET Keys
  BY <1>1
<1>4. CASE (pressed <=> k \in d.state) \/ ~Stable(k)
  <2>1. x = d
    BY <1>4 DEF Looked, Stable
  <2>2. Stable(k) => d.state = s
    BY <1>4
  <2>. QED BY <2>1, <2>2
<1>5. CASE ~((pressed <=> k \in d.state) \/ ~Stable(k)) /\ ~EndOfBoot
  <2>1. x = [d EXCEPT !.state = s]
    BY <1>5 DEF Looked, Stable
  <2> HIDE DEF x, s, pressed
  <2>2. x \in Looks /\ x.state = s /\ x.buf = d.buf /\ x.lost = d.lost /\ x.rep = d.rep
    BY <1>1, <1>3, <2>1 DEF Looks
  <2>3. Told(x)
    BY <1>5, <2>2 DEF Told, NoRepeat
  <2>. QED BY <1>5, <2>2, <2>3 DEF s, x, pressed
<1>6. CASE ~((pressed <=> k \in d.state) \/ ~Stable(k)) /\ EndOfBoot
  <2> DEFINE p == RepeatAfter(d.rep, e)
  <2>1. x = [d EXCEPT !.state = s, !.buf = Pushed(d.buf, e), !.rep = p,
                      !.lost = IF Full(d.buf) THEN d.lost \cup {k} ELSE d.lost \ {k}]
    BY <1>1, <1>6 DEF Looked, Stable, Looks
  <2>2. Pushed(d.buf, e) \in Seq(Events)
    BY <1>1, <1>2, AppendProperties DEF Pushed
  <2>3. p \in Held /\ (p.key # NoKey => p.key \in s)
    <3>1. d.rep.key \in Keys \cup {NoKey} /\ (d.rep.key # NoKey => d.rep.key \in d.state)
      BY <1>1 DEF Held, Told
    <3>2. CASE pressed
      BY <1>1, <1>2, <3>1, <3>2 DEF RepeatAfter, Held
    <3>3. CASE ~pressed
      <4>1. p = IF k = d.rep.key THEN NoRepeat ELSE d.rep
        BY <1>2, <3>3 DEF RepeatAfter
      <4>2. CASE k = d.rep.key
        <5>1. NoRepeat \in Held /\ NoRepeat.key = NoKey
          BY DEF NoRepeat, Held
        <5>2. p = NoRepeat
          BY <4>1, <4>2
        <5> HIDE DEF p
        <5>. QED BY <5>1, <5>2
      <4>3. CASE k # d.rep.key
        <5>1. p = d.rep /\ s = d.state \ {k}
          BY <3>3, <4>1, <4>3
        <5> HIDE DEF p, s
        <5>. QED BY <1>1, <3>1, <4>3, <5>1
      <4>. QED BY <4>2, <4>3
    <3>. QED BY <3>2, <3>3
  <2> DEFINE l == IF Full(d.buf) THEN d.lost \cup {k} ELSE d.lost \ {k}
             b == Pushed(d.buf, e)
  <2>4. Tells(told, d.buf, d.lost, d.state)
    BY <1>6 DEF Told
  <2>5. Tells(told, b, l, s)
    <3>1. CASE Full(d.buf)
      BY <2>4, <3>1 DEF Tells, Pushed
    <3>2. CASE ~Full(d.buf)
      <4>1. Known(told, Append(d.buf, e)) =
              IF e.action = "press" THEN Known(told, d.buf) \cup {e.key} ELSE Known(told, d.buf) \ {e.key}
        BY <1>1, <1>2, KnownPush
      <4>2. b = Append(d.buf, e) /\ l = d.lost \ {k}
        BY <3>2 DEF Pushed
      <4> HIDE DEF b, l, e
      <4>. QED BY <1>2, <2>4, <4>1, <4>2 DEF Tells
    <3>. QED BY <3>1, <3>2
  <2>6. l \in SUBSET Keys /\ b \in Seq(Events)
    BY <1>1, <2>2
  <2> HIDE DEF x, s, p, e
  <2>7. x = [d EXCEPT !.state = s, !.buf = b, !.lost = l, !.rep = p]
    BY <2>1
  <2> HIDE DEF l, b
  <2>8. x \in Looks /\ x.state = s /\ x.buf = b /\ x.lost = l /\ x.rep = p
    BY <1>1, <1>3, <2>3, <2>6, <2>7 DEF Looks
  <2>9. Told(x)
    BY <1>6, <2>3, <2>5, <2>8 DEF Told
  <2>. QED BY <1>6, <2>8, <2>9 DEF s, x
<1>. QED BY <1>4, <1>5, <1>6

(* After a row: what is told is still right, and a key that read twice the *)
(* same is known; no other key's state has changed.                        *)
LEMMA RowRight ==
  ASSUME NEW keys \in Seq(Keys), told \in SUBSET Keys, contact \in SUBSET Keys,
         NEW d0, d0 = [state |-> state, buf |-> buf, lost |-> lost, rep |-> rep], Told(d0),
         NEW x, x = RowLooked(keys)
  PROVE  /\ Told(x)
         /\ \A k \in Keys \ Range(keys) : k \in x.state <=> k \in state
         /\ \A k \in Range(keys) : k \in x.state <=> IF Stable(k) THEN k \in contact ELSE k \in state
<1> DEFINE n == Len(keys)
<1>0. n \in Nat /\ keys \in [1 .. n -> Keys]
  BY LenProperties
<1>1. PICK f : f = Body(keys, f) /\ x = f[n]
  BY <1>0, RowAt
<1> DEFINE P(j) == /\ Told(f[j])
                   /\ \A k \in Keys : k \in f[j].state <=>
                        IF Stable(k) /\ (\E i \in 1 .. j : keys[i] = k) THEN k \in contact ELSE k \in state
<1>2. f[0] = d0 /\ \A j \in 1 .. n : f[j] = Looked(f[j - 1], keys[j])
  BY <1>0, <1>1 DEF Body
<1>3. P(0)
  <2>1. Told(f[0]) /\ f[0].state = state
    BY <1>2
  <2>. QED BY <2>1
<1>4. ASSUME NEW j \in 1 .. n, P(j - 1) PROVE P(j)
  <2>1. /\ Told(f[j])
        /\ f[j].state = IF ~Stable(keys[j]) THEN f[j - 1].state
                        ELSE IF keys[j] \in contact THEN f[j - 1].state \cup {keys[j]} ELSE f[j - 1].state \ {keys[j]}
    <3>1. keys[j] \in Keys /\ Told(f[j - 1]) /\ f[j] = Looked(f[j - 1], keys[j])
      BY <1>0, <1>2, <1>4
    <3> DEFINE g == f[j - 1]
               k == keys[j]
    <3>2. k \in Keys /\ Told(g) /\ f[j] = Looked(g, k)
      BY <3>1
    <3> HIDE DEF g, k
    <3>3. /\ Told(Looked(g, k))
          /\ Looked(g, k).state = IF ~Stable(k) THEN g.state
                                  ELSE IF k \in contact THEN g.state \cup {k} ELSE g.state \ {k}
      BY <3>2, LookedRight
    <3>. QED BY <3>2, <3>3 DEF g, k
  <2>2. ASSUME NEW k \in Keys
        PROVE  k \in f[j].state <=>
                 IF Stable(k) /\ (\E i \in 1 .. j : keys[i] = k) THEN k \in contact ELSE k \in state
    <3>1. (\E i \in 1 .. j : keys[i] = k) <=> (keys[j] = k \/ \E i \in 1 .. j - 1 : keys[i] = k)
      BY <1>0
    <3>2. k \in f[j - 1].state <=>
            IF Stable(k) /\ (\E i \in 1 .. j - 1 : keys[i] = k) THEN k \in contact ELSE k \in state
      BY <1>4
    <3>3. CASE k = keys[j]
      BY <2>1, <3>1, <3>2, <3>3
    <3>4. CASE k # keys[j]
      <4>1. k \in f[j].state <=> k \in f[j - 1].state
        BY <2>1, <3>4
      <4>. QED BY <3>1, <3>2, <3>4, <4>1
    <3>. QED BY <3>3, <3>4
  <2>. QED BY <2>1, <2>2
<1>5. P(n)
  <2> DEFINE S == {j \in 0 .. n : ~P(j)}
  <2>1. S = {}
    <3> SUFFICES ASSUME S # {} PROVE FALSE
      OBVIOUS
    <3>1. S \in SUBSET Nat
      BY <1>0
    <3>2. PICK m \in S : \A y \in S : m <= y
      BY <3>1, Least
    <3>3. m \in 0 .. n /\ ~P(m)
      BY <3>2
    <3>4. m # 0
      BY <1>3, <3>3
    <3>5. m \in 1 .. n /\ m - 1 \in 0 .. n /\ ~(m <= m - 1)
      BY <1>0, <3>3, <3>4
    <3>6. P(m - 1)
      <4>1. m - 1 \notin S
        <5> HIDE DEF S
        <5>. QED BY <3>2, <3>5
      <4>. QED BY <3>5, <4>1
    <3>. QED BY <1>4, <3>3, <3>5, <3>6
  <2>. QED BY <1>0, <2>1
<1>6. Range(keys) = {keys[i] : i \in 1 .. n}
  BY <1>0 DEF Range
<1>. QED BY <1>0, <1>1, <1>5, <1>6

-----------------------------------------------------------------------------
(* The invariant *)

Now == [state |-> state, buf |-> buf, lost |-> lost, rep |-> rep]
Agrees(S) == Watched \in S <=> Watched \in contact
Reading == row \in DOMAIN Rows
WatchedRead == Reading /\ \E i \in 1 .. row - 1 : Watched \in Range(Rows[i])

KbdTypes ==
  /\ contact \in SUBSET Keys /\ state \in SUBSET Keys /\ debounce \in SUBSET Keys /\ told \in SUBSET Keys
  /\ anyDown \in BOOLEAN /\ any \in BOOLEAN
  /\ row \in 0 .. Over /\ boot \in 0 .. 2 /\ steady \in -1 .. 2

(* Two passes: the first leaves the contact in s_debounce, the second in   *)
(* s_state.                                                                *)
TwoPasses ==
  /\ steady >= 1 \/ (steady = 0 /\ WatchedRead) => Agrees(debounce)
  /\ steady = 2 \/ (steady = 1 /\ WatchedRead) => Agrees(state)

(* A pass that reads no rows may be trusted: when s_any_down says that     *)
(* nothing is down, nothing is, and nothing was at the last read.          *)
NoneDown ==
  /\ ~Reading /\ ~anyDown => state = {} /\ debounce = {}
  /\ Reading /\ ~any => \A i \in 1 .. row - 1 : Range(Rows[i]) \cap (state \cup debounce) = {}

(* The inductive invariant.                                                *)
KbdInv == KbdTypes /\ TwoPasses /\ NoneDown /\ Told(Now)

(* The driver is not called; its repeat may fall due.                      *)
KbdWaits ==
  /\ rep' \in {rep, [rep EXCEPT !.due = rep.key # NoKey]}
  /\ UNCHANGED <<contact, state, debounce, anyDown, any, row, buf, boot, steady, told, lost>>

(* The matrix has rows, and the rows have keys.                            *)
LEMMA RowsAre ==
  /\ Len(Rows) \in Nat \ {0} /\ DOMAIN Rows = 1 .. Len(Rows)
  /\ \A i \in DOMAIN Rows : Rows[i] \in Seq(Keys) /\ Range(Rows[i]) \subseteq Keys
  /\ Keys = UNION {Range(Rows[i]) : i \in DOMAIN Rows}
<1>1. Rows \in Seq(Seq(Keys)) /\ Rows # <<>>
  BY Matrix
<1>2. Len(Rows) \in Nat \ {0} /\ DOMAIN Rows = 1 .. Len(Rows)
  BY <1>1, LenProperties, EmptySeq
<1>3. \A i \in DOMAIN Rows : Rows[i] \in Seq(Keys)
  BY <1>1, <1>2, ElementOfSeq
<1>4. \A i \in DOMAIN Rows : Range(Rows[i]) \subseteq Keys
  BY DEF Keys
<1>. QED BY <1>2, <1>3, <1>4 DEF Keys

(* The places of a pass.                                                   *)
LEMMA RowsFrom0 == Over \in Nat /\ Over > 1 /\ 0 \in 0 .. Over /\ 1 \in 0 .. Over /\ Over \in 0 .. Over
BY RowsAre DEF Over

(* Before keyboard_init()'s first pass nothing is known and nothing is told. *)
LEMMA KbdStarts == KbdInit => KbdInv
<1> SUFFICES ASSUME KbdInit PROVE KbdInv
  OBVIOUS
<1>1. KbdTypes
  <2>1. row \in 0 .. Over /\ boot \in 0 .. 2 /\ steady \in -1 .. 2
    BY RowsFrom0 DEF KbdInit
  <2>. QED BY <2>1 DEF KbdInit, KbdTypes
<1>2. ~Reading
  BY RowsAre DEF KbdInit, Reading
<1>3. TwoPasses /\ NoneDown
  BY <1>2 DEF KbdInit, TwoPasses, NoneDown, WatchedRead
<1>4. NoRepeat \in Held /\ NoRepeat.key = NoKey
  BY DEF NoRepeat, Held
<1>5. Now \in Looks
  BY <1>4, EmptySeq DEF Now, Looks, KbdInit
<1>6. ~EndOfBoot
  BY DEF KbdInit, EndOfBoot
<1>7. Told(Now)
  BY <1>4, <1>5, <1>6 DEF Told, Now, KbdInit
<1>. QED BY <1>1, <1>3, <1>7 DEF KbdInv

(* The start of a pass keeps the invariant: where it reads no rows, both   *)
(* reads of every key were and are that it is up.                          *)
LEMMA ScanStartKeeps == ASSUME KbdInv, ScanStart PROVE KbdInv'
<1>1. KbdTypes /\ TwoPasses /\ NoneDown /\ Told(Now)
  BY DEF KbdInv
<1>2. /\ row = 0 /\ any' = FALSE /\ UNCHANGED <<contact, state, debounce, anyDown, buf, rep, boot, told, lost>>
      /\ row' = (IF ~anyDown /\ contact = {} THEN Over ELSE 1)
      /\ steady' = (IF row' = Over THEN OnePassMore ELSE steady)
  BY DEF ScanStart
<1>3. ~Reading
  BY <1>2, RowsAre DEF Reading
<1>4. Told(Now)'
  BY <1>1, <1>2 DEF Told, Now, EndOfBoot
<1>5. OnePassMore \in 0 .. 2
  BY <1>1 DEF KbdTypes, OnePassMore
<1>6. KbdTypes'
  <2>1. row' \in 0 .. Over
    BY <1>2, RowsFrom0
  <2>2. steady' \in -1 .. 2
    BY <1>1, <1>2, <1>5 DEF KbdTypes
  <2>. QED BY <1>1, <1>2, <2>1, <2>2 DEF KbdTypes
<1>7. ~WatchedRead'
  BY <1>2, RowsAre DEF WatchedRead, Reading, Over
<1>8. CASE ~anyDown /\ contact = {}
  <2>1. state = {} /\ debounce = {} /\ row' = Over /\ ~Reading'
    BY <1>1, <1>2, <1>3, <1>8, RowsAre DEF NoneDown, Reading, Over
  <2>2. Agrees(state)' /\ Agrees(debounce)' /\ NoneDown'
    BY <1>2, <1>8, <2>1 DEF Agrees, NoneDown
  <2>. QED BY <1>4, <1>6, <2>2 DEF KbdInv, TwoPasses
<1>9. CASE ~(~anyDown /\ contact = {})
  <2>1. row' = 1 /\ row' # Over /\ steady' = steady /\ Reading'
    BY <1>2, <1>9, RowsAre DEF Reading, Over
  <2>2. NoneDown'
    BY <2>1 DEF NoneDown
  <2>3. TwoPasses'
    BY <1>1, <1>2, <1>7, <2>1 DEF TwoPasses, Agrees
  <2>. QED BY <1>4, <1>6, <2>2, <2>3 DEF KbdInv
<1>. QED BY <1>8, <1>9

(* A row keeps the invariant.                                              *)
LEMMA ScanRowKeeps == ASSUME KbdInv, ScanRow PROVE KbdInv'
<1> DEFINE keys == Rows[row]
           last == row = Len(Rows)
<1>1. KbdTypes /\ TwoPasses /\ NoneDown /\ Told(Now)
  BY DEF KbdInv
<1>2. /\ row \in DOMAIN Rows /\ row' = row + 1
      /\ state' = RowLooked(keys).state /\ buf' = RowLooked(keys).buf
      /\ lost' = RowLooked(keys).lost /\ rep' = RowLooked(keys).rep
      /\ debounce' = (debounce \ Range(keys)) \cup (contact \cap Range(keys))
      /\ any' = ((any \/ Found(row)) /\ ~last)
      /\ anyDown' = (IF last THEN any \/ Found(row) ELSE anyDown)
      /\ steady' = (IF last THEN OnePassMore ELSE steady)
      /\ UNCHANGED <<contact, boot, told>>
  BY DEF ScanRow
<1>3. keys \in Seq(Keys) /\ Range(keys) \subseteq Keys
  BY <1>2, RowsAre
<1>4. told \in SUBSET Keys /\ contact \in SUBSET Keys /\ state \in SUBSET Keys /\ debounce \in SUBSET Keys
  BY <1>1 DEF KbdTypes
<1> DEFINE x == RowLooked(keys)
<1>5. /\ Told(x)
      /\ \A k \in Keys \ Range(keys) : k \in x.state <=> k \in state
      /\ \A k \in Range(keys) : k \in x.state <=> IF Stable(k) THEN k \in contact ELSE k \in state
  <2>1. Told([state |-> state, buf |-> buf, lost |-> lost, rep |-> rep])
    BY <1>1 DEF Now
  <2> HIDE DEF keys
  <2>. QED BY <1>3, <1>4, <2>1, RowRight
<1>6. x \in Looks
  BY <1>5 DEF Told
<1>7. state' = x.state /\ buf' = x.buf /\ lost' = x.lost /\ rep' = x.rep
  BY <1>2
<1> HIDE DEF x, keys
<1>8. x = [state |-> x.state, buf |-> x.buf, lost |-> x.lost, rep |-> x.rep]
  BY <1>6 DEF Looks
<1>9. Now' = x
  BY <1>7, <1>8 DEF Now
<1>10. Told(Now)'
  BY <1>2, <1>5, <1>9 DEF Told, EndOfBoot
<1>11. OnePassMore \in 0 .. 2 /\ (OnePassMore >= 1 => steady >= 0) /\ (OnePassMore = 2 => steady >= 1)
  BY <1>1 DEF KbdTypes, OnePassMore
<1>12. state' \in SUBSET Keys /\ debounce' \in SUBSET Keys
  BY <1>2, <1>3, <1>4, <1>6, <1>7 DEF Looks
<1>13. KbdTypes'
  <2>1. row' \in 0 .. Over
    BY <1>2, RowsAre DEF Over
  <2>2. Found(row) \in BOOLEAN
    BY DEF Found
  <2>. QED BY <1>1, <1>2, <1>4, <1>11, <1>12, <2>1, <2>2 DEF KbdTypes
<1>14. row \in 1 .. Len(Rows) /\ (last => ~Reading') /\ (~last => Reading') /\ Reading
  BY <1>2, RowsAre DEF Reading
<1>15. NoneDown'
  <2>1. ASSUME ~any, ~Found(row), NEW i \in 1 .. row PROVE Range(Rows[i]) \cap (state' \cup debounce') = {}
    <3>1. \A k \in Range(keys) : k \notin contact /\ k \notin state
      BY <2>1 DEF Found, keys
    <3>2. \A k \in Range(keys) : k \notin state' /\ k \notin debounce'
      BY <1>2, <1>5, <1>7, <3>1
    <3>3. CASE i = row
      BY <3>2, <3>3 DEF keys
    <3>4. CASE i # row
      <4>1. i \in 1 .. row - 1 /\ i \in DOMAIN Rows
        BY <1>14, <3>4, RowsAre
      <4>2. Range(Rows[i]) \cap (state \cup debounce) = {} /\ Range(Rows[i]) \subseteq Keys
        BY <1>1, <1>14, <2>1, <4>1, RowsAre DEF NoneDown
      <4>3. ASSUME NEW k \in Range(Rows[i]) PROVE k \notin state' /\ k \notin debounce'
        BY <1>2, <1>5, <1>7, <3>2, <4>2
      <4>. QED BY <4>3
    <3>. QED BY <3>3, <3>4
  <2>2. CASE last
    <3>1. ~Reading' /\ (anyDown' <=> any \/ Found(row))
      BY <1>2, <1>14, <2>2
    <3>2. ASSUME ~any, ~Found(row) PROVE state' = {} /\ debounce' = {}
      <4>1. \A i \in DOMAIN Rows : Range(Rows[i]) \cap (state' \cup debounce') = {}
        BY <2>1, <2>2, <3>2, RowsAre
      <4>. QED BY <1>12, <4>1, RowsAre
    <3>. QED BY <3>1, <3>2 DEF NoneDown
  <2>3. CASE ~last
    <3>1. Reading' /\ row' = row + 1 /\ row \in Int
      BY <1>2, <1>14, <2>3
    <3>2. any' = (any \/ Found(row))
      BY <1>2, <2>3
    <3>3. row' - 1 = row
      BY <3>1
    <3>. QED BY <2>1, <3>1, <3>2, <3>3 DEF NoneDown
  <2>. QED BY <2>2, <2>3
<1>16. TwoPasses'
  <2>1. ASSUME Watched \in Range(keys)
       PROVE  Agrees(debounce)' /\ (Agrees(debounce) => Agrees(state)')
    BY <1>2, <1>5, <1>7, <2>1 DEF Agrees, Stable
  <2>2. ASSUME Watched \notin Range(keys)
       PROVE  (Agrees(debounce)' <=> Agrees(debounce)) /\ (Agrees(state)' <=> Agrees(state))
    BY <1>2, <1>5, <1>7, <2>2, Matrix DEF Agrees
  <2>3. CASE last
    <3>1. ~WatchedRead' /\ steady' = OnePassMore
      BY <1>2, <1>14, <2>3 DEF WatchedRead
    <3>2. Watched \in Range(keys) \/ WatchedRead
      <4>1. PICK i \in DOMAIN Rows : Watched \in Range(Rows[i])
        BY Matrix, RowsAre
      <4>2. i = row \/ i \in 1 .. row - 1
        BY <1>14, <2>3, RowsAre
      <4>. QED BY <1>14, <4>1, <4>2 DEF WatchedRead, keys
    <3>3. ASSUME steady >= 0 PROVE Agrees(debounce)'
      <4>1. steady >= 1 \/ steady = 0
        BY <1>1, <3>3 DEF KbdTypes
      <4>. QED BY <1>1, <2>1, <2>2, <3>2, <4>1 DEF TwoPasses
    <3>4. ASSUME steady >= 1 PROVE Agrees(state)'
      <4>1. steady = 1 \/ steady = 2
        BY <1>1, <3>4 DEF KbdTypes
      <4>. QED BY <1>1, <2>1, <2>2, <3>2, <3>4, <4>1 DEF TwoPasses
    <3>. QED BY <1>11, <3>1, <3>3, <3>4 DEF TwoPasses
  <2>4. CASE ~last
    <3>1. steady' = steady /\ row' - 1 = row
      <4>1. steady' = steady
        BY <1>2, <2>4
      <4>2. row' = row + 1 /\ row \in Int
        BY <1>2, <1>14
      <4>. QED BY <4>1, <4>2
    <3>2. WatchedRead' => Watched \in Range(keys) \/ WatchedRead
      <4> SUFFICES ASSUME NEW i \in 1 .. row, Watched \in Range(Rows[i]) PROVE Watched \in Range(keys) \/ WatchedRead
        BY <3>1 DEF WatchedRead
      <4>1. i = row \/ i \in 1 .. row - 1
        BY <1>14
      <4>. QED BY <1>14, <4>1 DEF WatchedRead, keys
    <3>3. steady = 2 => steady >= 1
      BY <1>1 DEF KbdTypes
    <3>4. steady = 1 => steady >= 1
      BY <1>1 DEF KbdTypes
    <3>. QED BY <1>1, <2>1, <2>2, <3>1, <3>2, <3>3, <3>4 DEF TwoPasses
  <2>. QED BY <2>3, <2>4
<1>. QED BY <1>10, <1>13, <1>15, <1>16 DEF KbdInv

(* The end of a pass of keyboard_init(): what is down is taken as told.    *)
LEMMA InitPassKeeps == ASSUME KbdInv, InitPass PROVE KbdInv'
<1>1. KbdTypes /\ TwoPasses /\ NoneDown /\ Told(Now)
  BY DEF KbdInv
<1>2. /\ ~EndOfBoot /\ row = Over /\ row' = 0 /\ boot' = boot - 1
      /\ told' = (IF boot' = 0 THEN state ELSE told)
      /\ UNCHANGED <<contact, state, debounce, anyDown, any, buf, rep, steady, lost>>
  BY DEF InitPass
<1>3. ~Reading /\ ~Reading'
  BY <1>2, RowsAre DEF Reading, Over
<1>4. buf = <<>> /\ rep = NoRepeat
  BY <1>1, <1>2 DEF Told, Now
<1>5. boot' \in 0 .. 2 /\ told' \in SUBSET Keys
  BY <1>1, <1>2 DEF KbdTypes, EndOfBoot
<1>6. KbdTypes'
  BY <1>1, <1>2, <1>5, RowsFrom0 DEF KbdTypes
<1>7. TwoPasses' /\ NoneDown'
  BY <1>1, <1>2, <1>3 DEF TwoPasses, NoneDown, WatchedRead, Agrees
<1>8. EndOfBoot' => Tells(told', buf, lost, state)
  <2>1. EndOfBoot' => told' = state
    BY <1>2 DEF EndOfBoot
  <2>2. state \in SUBSET Keys
    BY <1>1 DEF KbdTypes
  <2>. QED BY <1>4, <2>1, <2>2, KnownEmpty DEF Tells
<1>9. Told(Now)'
  BY <1>1, <1>2, <1>4, <1>8 DEF Told, Now
<1>. QED BY <1>6, <1>7, <1>9 DEF KbdInv

(* A poll keeps the invariant: it repeats only a key that is down, so a    *)
(* repeat that finds the ring full tells nobody less.                      *)
LEMMA PolledKeeps == ASSUME KbdInv, Polled PROVE KbdInv'
<1>1. KbdTypes /\ TwoPasses /\ NoneDown /\ Told(Now)
  BY DEF KbdInv
<1>2. /\ PollReady /\ row' = 0
      /\ buf' = (IF Filled = <<>> THEN <<>> ELSE Tail(Filled))
      /\ rep' = (IF Repeating THEN [rep EXCEPT !.due = FALSE] ELSE rep)
      /\ told' = (IF Filled = <<>> THEN told ELSE Heard(told, Head(Filled)))
      /\ lost' = (IF Repeating /\ ~Full(buf) THEN lost \ {rep.key} ELSE lost)
      /\ UNCHANGED <<contact, state, debounce, anyDown, any, boot, steady>>
  BY DEF Polled, Heard
<1>3. EndOfBoot /\ ~Reading /\ ~Reading'
  BY <1>2, RowsAre DEF PollReady, Reading, Over
<1>4. /\ state \in SUBSET Keys /\ buf \in Seq(Events) /\ lost \in SUBSET Keys /\ rep \in Held
      /\ rep.key # NoKey => rep.key \in state
      /\ Tells(told, buf, lost, state)
      /\ told \in SUBSET Keys
  BY <1>1, <1>3 DEF Told, Now, Looks, KbdTypes
<1>5. Filled \in Seq(Events) /\ lost' \in SUBSET Keys /\ Tells(told, Filled, lost', state)
  <2>1. CASE Repeating
    <3> DEFINE e == Event(rep.key, "press")
    <3>1. rep.key \in state /\ rep.key \in Keys
      BY <1>4, <2>1 DEF Repeating
    <3>2. e \in Events /\ e.key = rep.key /\ e.action = "press"
      BY <3>1 DEF Events, Event
    <3> HIDE DEF e
    <3>3. Filled = IF Full(buf) THEN buf ELSE Append(buf, e)
      BY <2>1 DEF Filled, Pushed, e
    <3>4. Append(buf, e) \in Seq(Events)
      BY <1>4, <3>2, AppendProperties
    <3>5. Known(told, Append(buf, e)) = Known(told, buf) \cup {rep.key}
      BY <1>4, <3>2, KnownPush
    <3>6. lost' = IF Full(buf) THEN lost ELSE lost \ {rep.key}
      BY <1>2, <2>1
    <3>. QED BY <1>4, <3>1, <3>3, <3>4, <3>5, <3>6 DEF Tells
  <2>2. CASE ~Repeating
    BY <1>2, <1>4, <2>2 DEF Filled
  <2>. QED BY <2>1, <2>2
<1> HIDE DEF Filled
<1>6. /\ buf' \in Seq(Events) /\ told' \in SUBSET Keys
      /\ Tells(told', buf', lost', state)
  <2>1. CASE Filled = <<>>
    BY <1>2, <1>4, <1>5, <2>1
  <2>2. CASE Filled # <<>>
    <3>1. Tail(Filled) \in Seq(Events)
      BY <1>5, <2>2, HeadTailProperties
    <3>2. /\ Known(Heard(told, Head(Filled)), Tail(Filled)) = Known(told, Filled)
          /\ Heard(told, Head(Filled)) \in SUBSET Keys
      BY <1>4, <1>5, <2>2, KnownTake
    <3>. QED BY <1>2, <1>5, <2>2, <3>1, <3>2 DEF Tells
  <2>. QED BY <2>1, <2>2
<1>7. rep' \in Held /\ rep'.key = rep.key
  BY <1>2, <1>4 DEF Held
<1>8. KbdTypes'
  BY <1>1, <1>2, <1>6, RowsFrom0 DEF KbdTypes
<1>9. TwoPasses' /\ NoneDown'
  BY <1>1, <1>2, <1>3 DEF TwoPasses, NoneDown, WatchedRead, Agrees
<1>10. EndOfBoot'
  BY <1>2, <1>3 DEF EndOfBoot
<1>11. Now' \in Looks /\ Now'.state = state /\ Now'.buf = buf' /\ Now'.lost = lost' /\ Now'.rep = rep'
  BY <1>2, <1>4, <1>5, <1>6, <1>7 DEF Now, Looks
<1>12. Told(Now)'
  BY <1>4, <1>6, <1>7, <1>10, <1>11 DEF Told
<1>. QED BY <1>8, <1>9, <1>12 DEF KbdInv

(* A contact that changes keeps it: what was said of it was that it is quiet. *)
LEMMA ContactKeeps == ASSUME KbdInv, Contact PROVE KbdInv'
<1>1. KbdTypes /\ TwoPasses /\ NoneDown /\ Told(Now)
  BY DEF KbdInv
<1>2. PICK k \in Keys :
        /\ contact' = (IF k \in contact THEN contact \ {k} ELSE contact \cup {k})
        /\ steady' = (IF k # Watched THEN steady ELSE IF Reading THEN -1 ELSE 0)
        /\ UNCHANGED <<state, debounce, anyDown, any, row, due, buf, rep, boot, told, lost>>
  BY DEF Contact, Reading
<1>3. KbdTypes'
  BY <1>1, <1>2 DEF KbdTypes
<1>4. NoneDown' /\ Told(Now)'
  BY <1>1, <1>2 DEF NoneDown, Reading, Told, Now, EndOfBoot
<1>5. WatchedRead' = WatchedRead /\ (WatchedRead => Reading)
  BY <1>2 DEF WatchedRead, Reading
<1>6. TwoPasses'
  <2>1. CASE k = Watched
    BY <1>2, <1>5, <2>1 DEF TwoPasses
  <2>2. CASE k # Watched
    BY <1>1, <1>2, <1>5, <2>2 DEF TwoPasses, Agrees
  <2>. QED BY <2>1, <2>2
<1>. QED BY <1>3, <1>4, <1>6 DEF KbdInv

(* Where the driver is not called, nothing changes.                        *)
LEMMA WaitKeeps == ASSUME KbdInv, KbdWaits PROVE KbdInv'
<1>1. KbdTypes /\ TwoPasses /\ NoneDown /\ Told(Now)
  BY DEF KbdInv
<1>2. rep \in Held /\ (~EndOfBoot => rep = NoRepeat)
  BY <1>1 DEF Told, Now, Looks
<1>3. rep' \in Held /\ rep'.key = rep.key /\ (rep = NoRepeat => rep' = NoRepeat)
  <2>1. NoRepeat.key = NoKey /\ NoRepeat.due = FALSE /\ NoRepeat \in Held
    BY DEF NoRepeat, Held
  <2>2. CASE rep' = rep
    BY <1>2, <2>2
  <2>3. CASE rep' = [rep EXCEPT !.due = rep.key # NoKey]
    <3>1. rep' \in Held /\ rep'.key = rep.key
      BY <1>2, <2>3 DEF Held
    <3>2. ASSUME rep = NoRepeat PROVE rep' = NoRepeat
      <4>1. rep' = [NoRepeat EXCEPT !.due = FALSE]
        BY <2>1, <2>3, <3>2
      <4>2. [NoRepeat EXCEPT !.due = FALSE] = NoRepeat
        BY <2>1 DEF Held
      <4>. QED BY <4>1, <4>2
    <3>. QED BY <3>1, <3>2
  <2>. QED BY <2>2, <2>3 DEF KbdWaits
<1>4. KbdTypes' /\ TwoPasses' /\ NoneDown'
  BY <1>1 DEF KbdWaits, KbdTypes, TwoPasses, NoneDown, WatchedRead, Reading, Agrees
<1>5. Told(Now)'
  <2>1. UNCHANGED <<state, buf, lost, told, boot>>
    BY DEF KbdWaits
  <2>2. /\ state \in SUBSET Keys /\ buf \in Seq(Events) /\ lost \in SUBSET Keys
        /\ rep.key # NoKey => rep.key \in state
        /\ ~EndOfBoot => buf = <<>> /\ rep = NoRepeat
        /\ EndOfBoot => Tells(told, buf, lost, state)
    BY <1>1 DEF Told, Now, Looks
  <2>3. Now' \in Looks /\ Now'.state = state /\ Now'.buf = buf /\ Now'.lost = lost /\ Now'.rep = rep'
    BY <1>3, <2>1, <2>2 DEF Now, Looks
  <2>. QED BY <1>3, <2>1, <2>2, <2>3 DEF Told, EndOfBoot
<1>. QED BY <1>4, <1>5 DEF KbdInv

(* What the kernel does with the keyboard.                                 *)
LEMMA KbdMoves == [Next]_vars => Scan \/ InitPass \/ Polled \/ Contact \/ KbdWaits
<1> SUFFICES ASSUME [Next]_vars PROVE Scan \/ InitPass \/ Polled \/ Contact \/ KbdWaits
  OBVIOUS
<1>1. UNCHANGED kbd => KbdWaits
  BY DEF kbd, KbdWaits
<1>2. CASE Main
  <2>1. CASE Tasks
    BY <1>1, <2>1 DEF Tasks, InputEvent, InputDone, InputCheck, ShellEvent, ShellEnd
  <2>2. CASE Sleeping
    BY <1>1, <2>2 DEF Sleeping, SleepClocks, SleepDelay, SleepEvent,
                         SleepDrained, SleepRest, Wake, Woken, TimePasses, KbdWaits
  <2>3. CASE Start("input") \/ Start("shell") \/ KbdStep
    BY <1>1, <2>3 DEF Start, KbdStep
  <2>. QED BY <1>2, <2>1, <2>2, <2>3 DEF Main
<1>3. CASE Elapse \/ UserKey \/ Cable
  BY <1>1, <1>3 DEF Elapse, TimePasses, UserKey, Cable, KbdWaits
<1>4. CASE UNCHANGED vars
  BY <1>1, <1>4 DEF vars, kbd
<1>. QED BY <1>2, <1>3, <1>4 DEF Next

(* Every step of Kernel keeps the invariant.                               *)
LEMMA KbdKeeps == KbdInv /\ [Next]_vars => KbdInv'
BY KbdMoves, ScanStartKeeps, ScanRowKeeps, InitPassKeeps, PolledKeeps, ContactKeeps, WaitKeeps DEF Scan

(* The invariant says what the property says.                              *)
LEMMA KbdTells == KbdInv => KeyEvents
BY DEF KbdInv, KeyEvents, Settled, KeysTold, Tells, TwoPasses, Agrees, Told, Now

(* A key that has been quiet for two passes is known, and whoever takes    *)
(* the events knows the keys, for any matrix, any ring, any bouncing.      *)
THEOREM KeysAreTold == Spec => []KeyEvents
<1>1. Init => KbdInv
  BY KbdStarts DEF Init
<1>. QED BY <1>1, KbdKeeps, KbdTells, PTL DEF Spec
=============================================================================

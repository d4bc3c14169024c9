------------------------------- MODULE Keyboard -------------------------------
(***************************************************************************)
(* The keyboard driver, hal/keyboard.c: the scan of the key matrix, one    *)
(* row at a time while contacts close, open and bounce; debouncing; the    *)
(* ring of key events; auto-repeat.  Whoever calls keyboard_poll() does so *)
(* through Poll and Taken below (module Kernel).                           *)
(***************************************************************************)
EXTENDS Integers, Sequences, FiniteSets, SequencesExt

CONSTANTS
  Rows,        \* s_matrix: the keys of each row, in the order of the columns
  Repeats,     \* key_repeats()
  KbdBuf,      \* KBD_BUF
  Watched      \* the key that Settled looks at: any

Keys == UNION {Range(Rows[r]) : r \in DOMAIN Rows}
NoKey == "none"

ASSUME Matrix ==
  /\ Rows \in Seq(Seq(Keys)) \ {<<>>} /\ Repeats \subseteq Keys /\ NoKey \notin Keys /\ KbdBuf \in Nat \ {0}
  /\ Watched \in Keys

VARIABLES
  contact,          \* the keys whose contacts are closed
  state, debounce,  \* s_state, s_debounce: the keys that are 1 in it
  anyDown, any,     \* s_any_down, and what the pass has found so far
  row,              \* 0: no pass; the row read next; past the last: a pass is over
  due,              \* SCAN_PERIOD_MS have passed since the last pass
  buf,              \* s_kbuf
  rep,              \* s_rep_key, and whether s_rep_next has passed
  boot,             \* passes that keyboard_init() still makes
  steady,           \* history: passes since the watched key's contact changed
  told, lost        \* history: keys last reported as pressed; keys whose last event was dropped

kbd == <<contact, state, debounce, anyDown, any, row, due, buf, rep, boot, steady, told, lost>>

Event(k, act) == [key |-> k, action |-> act]
NoRepeat == [key |-> NoKey, due |-> FALSE]
Over == Len(Rows) + 1
EndOfBoot == boot = 0
OnePassMore == IF steady < 2 THEN steady + 1 ELSE 2

-----------------------------------------------------------------------------
(* The ring: one slot stays empty *)

(* kbuf_push(): what does not fit is dropped.                              *)
Full(b) == Len(b) = KbdBuf - 1
Pushed(b, e) == IF Full(b) THEN b ELSE Append(b, e)

-----------------------------------------------------------------------------
(* keyboard_scan() *)

\* mutant: only what is down keeps the passes going
FoundPressed(r) == contact \cap Range(Rows[r]) # {}

(* any |= pressed | s_state *)
Found(r) == (contact \cup state) \cap Range(Rows[r]) # {}

\* mutant: released keys go on repeating
RepeatNotStopped(p, e) ==
  IF e.action = "press" /\ e.key \in Repeats THEN [key |-> e.key, due |-> FALSE] ELSE p

(* Which key repeats after an event.                                       *)
RepeatAfter(p, e) ==
  IF e.action = "press" /\ e.key \in Repeats THEN [key |-> e.key, due |-> FALSE]
  ELSE IF e.action = "release" /\ e.key = p.key THEN NoRepeat ELSE p

(* A key of a row: two equal reads count.  d is what the scan changes; the *)
(* passes of keyboard_init() report nothing.                               *)
Looked(d, k) ==
  LET pressed == k \in contact
      e == Event(k, IF pressed THEN "press" ELSE "release")
      known == [d EXCEPT !.state = IF pressed THEN @ \cup {k} ELSE @ \ {k}]
  IN  IF (pressed <=> k \in d.state) \/ ~(pressed <=> k \in debounce) THEN d
      ELSE IF ~EndOfBoot THEN known
      ELSE [known EXCEPT !.buf = Pushed(@, e), !.rep = RepeatAfter(@, e),
                         !.lost = IF Full(d.buf) THEN @ \cup {k} ELSE @ \ {k}]

(* The keys of a row, one after the other.                                 *)
RowLooked(keys) ==
  LET at[j \in 0 .. Len(keys)] ==
        IF j = 0 THEN [state |-> state, buf |-> buf, lost |-> lost, rep |-> rep] ELSE Looked(at[j - 1], keys[j])
  IN  at[Len(keys)]

(* The start: with nothing down, one read of all rows may be enough.       *)
ScanStart ==
  /\ row = 0 /\ due /\ due' = FALSE /\ any' = FALSE
  /\ row' = (IF ~anyDown /\ contact = {} THEN Over ELSE 1)
  /\ steady' = (IF row' = Over THEN OnePassMore ELSE steady)
  /\ UNCHANGED <<contact, state, debounce, anyDown, buf, rep, boot, told, lost>>

(* One row: the columns are read, then each of its keys is looked at.      *)
ScanRow ==
  LET keys == Rows[row]
      d == RowLooked(keys)
      last == row = Len(Rows)
  IN  /\ row \in DOMAIN Rows /\ row' = row + 1
      /\ state' = d.state /\ buf' = d.buf /\ lost' = d.lost /\ rep' = d.rep
      /\ debounce' = (debounce \ Range(keys)) \cup (contact \cap Range(keys))
      /\ any' = ((any \/ Found(row)) /\ ~last)
      /\ anyDown' = (IF last THEN any \/ Found(row) ELSE anyDown)
      /\ steady' = (IF last THEN OnePassMore ELSE steady)
      /\ UNCHANGED <<contact, due, boot, told>>

Scan == ScanStart \/ ScanRow

(* keyboard_init() makes two passes, SCAN_PERIOD_MS apart.                 *)
InitPass ==
  /\ ~EndOfBoot /\ row = Over /\ row' = 0
  /\ boot' = boot - 1 /\ due' = (boot' > 0)
  /\ told' = (IF boot' = 0 THEN state ELSE told)
  /\ UNCHANGED <<contact, state, debounce, anyDown, any, buf, rep, steady, lost>>

-----------------------------------------------------------------------------
(* keyboard_poll(), after the pass if one was due: auto-repeat, and what   *)
(* it leaves in the ring.                                                  *)

Repeating == row = Over /\ rep.key # NoKey /\ rep.due
Filled == IF Repeating THEN Pushed(buf, Event(rep.key, "press")) ELSE buf

PollReady == EndOfBoot /\ (row = Over \/ (row = 0 /\ ~due))

(* The poll takes the first event, or finds none.                          *)
Polled ==
  /\ PollReady /\ row' = 0
  /\ buf' = (IF Filled = <<>> THEN <<>> ELSE Tail(Filled))
  /\ rep' = (IF Repeating THEN [rep EXCEPT !.due = FALSE] ELSE rep)
  /\ lost' = (IF Repeating /\ ~Full(buf) THEN lost \ {rep.key} ELSE lost)
  /\ told' = (IF Filled = <<>> THEN told
              ELSE IF Head(Filled).action = "press" THEN told \cup {Head(Filled).key}
              ELSE told \ {Head(Filled).key})
  /\ UNCHANGED <<contact, state, debounce, anyDown, any, due, boot, steady>>

(* A contact closes, opens or bounces, at any time.                        *)
Contact ==
  /\ \E k \in Keys :
       /\ contact' = (IF k \in contact THEN contact \ {k} ELSE contact \cup {k})
       /\ steady' = (IF k # Watched THEN steady ELSE IF row \in DOMAIN Rows THEN -1 ELSE 0)
  /\ UNCHANGED <<state, debounce, anyDown, any, row, due, buf, rep, boot, told, lost>>

KbdInit ==
  /\ contact \in SUBSET Keys /\ state = {} /\ debounce = {}
  /\ anyDown = TRUE /\ any = FALSE /\ row = 0 /\ due = TRUE /\ buf = <<>> /\ rep = NoRepeat
  /\ boot = 2 /\ steady = 0 /\ told = {} /\ lost = {}

-----------------------------------------------------------------------------
(* Properties *)

(* Two passes are enough: a key whose contact has been quiet for two is    *)
(* known to be what it is - although a pass reads no rows at all when the  *)
(* last one found nothing down.                                            *)
Settled == steady = 2 => (Watched \in state <=> Watched \in contact)

(* Those who read the ring know of each key whether it is down once they   *)
(* have taken everything in it - unless the last event of that very key    *)
(* found the ring full.  An event that is dropped says nothing wrong of    *)
(* another key, and the next event of the key, or its repeat, puts it      *)
(* right.                                                                  *)
Known(t, b) ==
  {k \in Keys :
     \/ \E j \in DOMAIN b : b[j] = Event(k, "press") /\ \A i \in DOMAIN b : i > j => b[i].key # k
     \/ k \in t /\ \A j \in DOMAIN b : b[j].key # k}
KeysTold == EndOfBoot => \A k \in Keys \ lost : k \in Known(told, buf) <=> k \in state

(* The scan knows the keys, and its events tell every press and release,   *)
(* whatever the contacts did meanwhile and whoever reads them.             *)
KeyEvents == Settled /\ KeysTold
=============================================================================

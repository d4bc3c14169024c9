----------------------------- MODULE LineInput ------------------------------
(***************************************************************************)
(* ui/line_input.c: a line that Python's input() asks for, from the keys   *)
(* and from the serial port.  The loop draws when something has changed,   *)
(* waits, and takes every key and then every character there is.           *)
(***************************************************************************)
EXTENDS Integers, Sequences, SequencesExt

CONSTANTS
  BUF_MAX,       \* max: the size of the buffer
  NoChar         \* the 0 of key_to_char()

ASSUME BufSize == BUF_MAX \in Nat \ {0}

VARIABLES
  inputAt,               \* "nowhere", or in the loop: "draw", "keys", "serial"
  buf,                   \* buf, with len
  mod,                   \* [shift, alpha]
  changed,
  drawnBuf               \* what draw() was given last

lineInput == <<inputAt, buf, mod, changed, drawnBuf>>

(* key_to_char(): the characters of a key alone, with SHIFT, with ALPHA    *)
(* and with both, for one of each kind: a letter and two signs; nothing    *)
(* with ALPHA, and with SHIFT what it is alone.                            *)
Caps == [plus |-> <<"+", "=", "z", "Z">>, ee |-> <<"e", "e", NoChar, NoChar>>]
KeyToChar(k) ==
  IF mod.alpha THEN Caps[k][IF mod.shift THEN 4 ELSE 3] ELSE Caps[k][IF mod.shift THEN 2 ELSE 1]

-----------------------------------------------------------------------------
InputStart ==
  /\ inputAt = "nowhere" /\ inputAt' = "draw" /\ buf' = <<>>
  /\ mod' = [shift |-> FALSE, alpha |-> FALSE] /\ changed' = TRUE /\ drawnBuf' = <<>>

InputDraw ==
  /\ inputAt = "draw" /\ inputAt' = "keys" /\ changed' = FALSE
  /\ drawnBuf' = (IF changed THEN <<buf, mod>> ELSE drawnBuf) /\ UNCHANGED <<buf, mod>>

Takes(at) == inputAt = at /\ UNCHANGED <<inputAt, drawnBuf>>
Erased == IF buf = <<>> THEN buf ELSE Front(buf)
Room == Len(buf) < BUF_MAX - 1

InputMods ==
  /\ Takes("keys") /\ \E m \in DOMAIN mod : mod' = [mod EXCEPT ![m] = ~@]
  /\ changed' = TRUE /\ UNCHANGED buf
InputErase == Takes("keys") /\ buf' = Erased /\ changed' = TRUE /\ UNCHANGED mod

(* A key that types nothing, or a line that is full, changes nothing.      *)
InputType ==
  /\ Takes("keys")
  /\ \E k \in DOMAIN Caps :
       /\ KeyToChar(k) # NoChar /\ Room
       /\ buf' = Append(buf, KeyToChar(k)) /\ mod' = [mod EXCEPT !.shift = FALSE] /\ changed' = TRUE

\* mutant: a character that is erased is not a change
InputSerialQuiet ==
  /\ Takes("serial")
  /\ \/ buf' = Erased /\ UNCHANGED changed
     \/ buf' = (IF Room THEN Append(buf, "z") ELSE buf) /\ changed' = TRUE
     \/ UNCHANGED buf /\ changed' = TRUE
  /\ UNCHANGED mod

(* Characters from the serial port: one to erase, one that is typed, one   *)
(* that is neither.                                                        *)
InputSerial ==
  /\ Takes("serial")
  /\ \/ buf' = Erased \/ buf' = (IF Room THEN Append(buf, "z") ELSE buf) \/ UNCHANGED buf
  /\ changed' = TRUE /\ UNCHANGED mod

InputOn ==
  /\ inputAt \in {"keys", "serial"} /\ inputAt' = (IF inputAt = "keys" THEN "serial" ELSE "draw")
  /\ UNCHANGED <<buf, mod, changed, drawnBuf>>

(* EXE or a newline, BACK, HOME or Ctrl-C: in the middle of what there is. *)
InputEnd == inputAt \in {"keys", "serial"} /\ inputAt' = "nowhere" /\ UNCHANGED <<buf, mod, changed, drawnBuf>>

LineInputInit ==
  /\ inputAt = "nowhere" /\ buf = <<>> /\ mod = [shift |-> FALSE, alpha |-> FALSE]
  /\ changed = FALSE /\ drawnBuf = <<>>

LineInputStep ==
  \/ InputStart \/ InputDraw \/ InputMods \/ InputErase \/ InputType \/ InputSerial \/ InputOn \/ InputEnd

-----------------------------------------------------------------------------
(* What is not drawn yet is marked, so that the loop never waits with a    *)
(* line or a modifier that the screen does not show; the line and its end  *)
(* fit in the buffer.                                                      *)
LineTells ==
  /\ inputAt # "nowhere" /\ ~changed => drawnBuf = <<buf, mod>>
  /\ Len(buf) < BUF_MAX
=============================================================================

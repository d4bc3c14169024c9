----------------------------- MODULE QspiDriver -----------------------------
(***************************************************************************)
(* fs/storage_qspi.c: erasing and programming the chip that the program    *)
(* runs from.  Every operation takes the flash out of memory-mapped mode,  *)
(* sends its commands from RAM with interrupts masked, and maps the flash  *)
(* again, whatever went wrong; what was done is then read back.            *)
(***************************************************************************)
EXTENDS FlashChip

CONSTANT LostBudget    \* bound: the commands that time out

VARIABLES
  qpc,           \* where the driver is
  call,          \* the call in progress: kind, first and last unit, value
  at,            \* offset
  r,             \* r: nothing has timed out in this operation
  res,           \* what the last call returned
  usable,         \* s_ok
  usesCont,      \* s_cont: mapped reads leave the chip in continuous read
  lost           \* history: commands that timed out

driver == <<qpc, call, at, r, res, usable, usesCont, lost>>
NoCall == [kind |-> "none", from |-> 0, to |-> 0, val |-> Erased]

(* The program runs from the flash, not from RAM.                          *)
FromFlash == qpc \in {"idle", "chunk", "check"}

\* mutant: pages are not looked at
ChunkAnySize == IF call.kind = "erase" THEN Block ELSE call.to - at

(* n: a big block where one fits; never across the end of a page.          *)
Chunk ==
  LET left == call.to - at
      page == Page - (at % Page)
  IN  IF call.kind = "erase" THEN (IF at % Big = 0 /\ left >= Big THEN Big ELSE Block)
      ELSE IF page < left THEN page ELSE left

Go(step) == qpc' = step /\ UNCHANGED <<call, at, res, usable, usesCont>>
Return(ok) ==
  qpc' = "idle" /\ res' = (IF ok THEN "ok" ELSE "failed") /\ UNCHANGED <<call, at, usable, usesCont>>
Enter(c) ==
  /\ qpc = "idle" /\ call' = c /\ at' = c.from /\ r' = TRUE /\ res' = "none"
  /\ qpc' = (IF c.kind = "info" THEN "leave" ELSE "chunk") /\ UNCHANGED <<usesCont, lost, chip>>

(* storage_init(): the loader left the controller mapped (check_controller) *)
StorageInit ==
  /\ Enter([NoCall EXCEPT !.kind = "info"]) /\ usable' = FALSE

StorageErase ==
  /\ usable /\ UNCHANGED usable
  /\ \E from, to \in 0 .. Size :
       /\ from < to /\ from % Block = 0 /\ to % Block = 0
       /\ Enter([kind |-> "erase", from |-> from, to |-> to, val |-> Erased])

(* flashfs.c's prog() only asks for units that are erased.                 *)
StorageProgram ==
  /\ usable /\ UNCHANGED usable
  /\ \E from, to \in 0 .. Size, v \in Vals :
       /\ from < to /\ Blank(from, to)
       /\ Enter([kind |-> "program", from |-> from, to |-> to, val |-> v])

(* The next block or page; blocks that are blank are left alone.           *)
NextChunk ==
  /\ qpc = "chunk" /\ UNCHANGED <<chip, r, lost>>
  /\ IF at = call.to THEN Return(TRUE)
     ELSE IF call.kind = "erase" /\ Blank(at, at + Chunk)
     THEN at' = at + Chunk /\ UNCHANGED <<qpc, call, res, usable, usesCont>>
     ELSE Go("leave")

LeaveMapped ==
  /\ qpc = "leave" /\ r' = TRUE
  /\ Go(IF usesCont THEN "endcont" ELSE IF call.kind = "info" THEN "id" ELSE "wren")
  /\ UNCHANGED <<chip, lost>>

\* mutant: the first command ends the mode by itself
EndContinuousNot ==
  /\ qpc = "endcont" /\ Go(IF call.kind = "info" THEN "id" ELSE "wren") /\ UNCHANGED <<chip, r, lost>>

EndContinuous ==
  /\ qpc = "endcont" /\ cont' = FALSE /\ Go(IF call.kind = "info" THEN "id" ELSE "wren")
  /\ UNCHANGED <<cells, dpd, wel, qe, job, defect, r, lost>>

(* The answer of a chip that does not hear is no ID.                       *)
ReadId ==
  /\ qpc = "id" /\ r' = Hears("id") /\ Go("remap") /\ UNCHANGED <<chip, lost>>

SendWriteEnable ==
  /\ qpc = "wren" /\ WriteEnable /\ Go("send") /\ UNCHANGED <<r, lost>>

Send ==
  /\ qpc = "send" /\ Go("poll") /\ UNCHANGED <<r, lost>>
  /\ StartJob(IF call.kind = "erase" THEN EraseOf(at, Chunk) ELSE ProgramOf(at, Chunk, call.val))

\* mutant: the flash is mapped again at once
PollNot == qpc = "poll" /\ Go("remap") /\ UNCHANGED <<chip, r, lost>>

(* wait_ready(): until the chip is done, or BUSY_POLLS times in vain.      *)
Poll ==
  /\ qpc = "poll" /\ UNCHANGED <<chip, lost>>
  /\ \/ ~Busy /\ UNCHANGED r
     \/ Busy /\ defect = "stuck" /\ r' = FALSE
  /\ Go("remap")

(* A flag that never comes: the command may have been sent, or not.        *)
TimesOut ==
  /\ qpc \in {"endcont", "id", "wren", "send", "poll"} /\ lost < LostBudget /\ lost' = lost + 1
  /\ r' = FALSE /\ Go("remap")
  /\ CASE qpc = "endcont" -> cont' \in {cont, FALSE} /\ UNCHANGED <<content, dpd, qe, defect>>
       [] qpc = "wren" -> WriteEnable \/ UNCHANGED chip
       [] qpc = "send" ->
            StartJob(IF call.kind = "erase" THEN EraseOf(at, Chunk) ELSE ProgramOf(at, Chunk, call.val))
            \/ UNCHANGED chip
       [] OTHER -> UNCHANGED chip

(* The flash is mapped and the next instruction read from it: a chip that  *)
(* is still at work, or takes the read's instruction for an address, does  *)
(* not give it, and the program is lost.                                   *)
EnterMapped ==
  /\ qpc = "remap" /\ UNCHANGED <<cells, dpd, wel, qe, job, defect, r, lost>>
  /\ cont' = (IF Reads THEN usesCont ELSE cont)
  /\ IF ~Reads THEN Go("dead")
     ELSE IF call.kind = "info"
     THEN /\ qpc' = "idle" /\ usable' = r /\ res' = (IF r THEN "ok" ELSE "failed")
          /\ UNCHANGED <<call, at, usesCont>>
     ELSE IF r THEN Go("check") ELSE Return(FALSE)

\* mutant: what the flash holds is not read back
CheckNot ==
  /\ qpc = "check" /\ UNCHANGED <<chip, r, lost>>
  /\ qpc' = "chunk" /\ at' = at + Chunk /\ UNCHANGED <<call, res, usable, usesCont>>

(* erased(), memcmp(): read back through the map.                          *)
Check ==
  /\ qpc = "check" /\ UNCHANGED <<chip, r, lost>>
  /\ IF Holds(at, at + Chunk, call.val)
     THEN qpc' = "chunk" /\ at' = at + Chunk /\ UNCHANGED <<call, res, usable, usesCont>>
     ELSE Return(FALSE)

DriverStep ==
  \/ NextChunk \/ LeaveMapped \/ EndContinuous \/ ReadId \/ SendWriteEnable \/ Send \/ Poll
  \/ EnterMapped \/ Check

-----------------------------------------------------------------------------
(* storage.h, "0 on success": a call that says so has done all of it, and  *)
(* one that fails was kept from it by the chip or by a lost command.       *)
AnswersTrue ==
  /\ qpc = "idle" /\ res = "ok" => Holds(call.from, call.to, call.val)
  /\ qpc = "idle" /\ res = "failed" => defect # "none" \/ lost > 0

(* Whenever code runs from the flash the flash can be read, and it is in   *)
(* the mode in which the controller reads it; only a chip that hangs, or a *)
(* lost command, may leave the program without its code.                   *)
CodeReadable ==
  /\ FromFlash => Readable /\ cont = usesCont
  /\ qpc = "dead" => defect = "stuck" \/ lost > 0
=============================================================================

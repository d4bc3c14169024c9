------------------------------- MODULE Loader -------------------------------
(***************************************************************************)
(* loader/loader.c: from a reset, whatever the chip was doing, to the OS   *)
(* in memory-mapped flash, or to the recovery program.  Every command      *)
(* waits for the controller; one that times out ends in recovery, but for  *)
(* those that set quad enable.                                             *)
(***************************************************************************)
EXTENDS QspiDriver

CONSTANT ResetBudget   \* bound: the resets and power cuts of a behaviour

VARIABLES
  stage,         \* who runs: "loader", "recovery", "os"
  lpc,           \* where the loader is
  held,          \* key 6 was held when it started
  quad,          \* what it has read of QE in status register 2
  image,         \* what the vector table in the flash looks like: a program, or not
  resets

loader == <<stage, lpc, held, quad, image, resets>>
startVars == <<chip, driver, loader>>

LGo(step) == lpc' = step /\ UNCHANGED <<stage, held, quad, image, resets, driver>>
Recover == stage' = "recovery" /\ lpc' = "key" /\ UNCHANGED <<held, quad, image, resets, driver>>
LoaderAt(step) == stage = "loader" /\ lpc = step

(* recovery_key_held(): all of the ten samples.                            *)
RecoveryKey ==
  /\ LoaderAt("key") /\ UNCHANGED chip /\ IF held THEN Recover ELSE LGo("leave")

\* mutant: the mode the OS left the chip in is not ended
LeaveContinuousNot == LoaderAt("leave") /\ LGo("release") /\ UNCHANGED chip

(* q_leave_continuous(): a chip that is not in that mode ignores it.       *)
LeaveContinuous ==
  /\ LoaderAt("leave") /\ cont' = FALSE /\ LGo("release")
  /\ UNCHANGED <<content, dpd, qe, defect>>

Release ==
  /\ LoaderAt("release") /\ dpd' = (dpd /\ ~Hears("release")) /\ LGo("ready")
  /\ UNCHANGED <<content, cont, qe, defect>>

\* mutant: asks once
ReadyOnce ==
  /\ LoaderAt("ready") /\ UNCHANGED chip
  /\ IF Hears("status") THEN LGo("id") ELSE Recover

(* q_ready(): the chip is done, or gives no answer, or no end within       *)
(* LOADER_BUSY_TIMEOUT_MS.                                                 *)
ChipEnds == Hears("status") /\ ~Busy
ChipDoesNot == ~Hears("status") \/ (Busy /\ defect = "stuck")

ChipReady ==
  /\ LoaderAt("ready") /\ UNCHANGED chip
  /\ \/ ChipEnds /\ LGo("id")
     \/ ChipDoesNot /\ Recover

Identify ==
  /\ LoaderAt("id") /\ UNCHANGED chip
  /\ IF Hears("id") THEN LGo("sr2") ELSE Recover

(* CMD_RDSR2; nothing driving the line reads as anything.                  *)
ReadsQuad == quad' \in (IF Hears("status") THEN {qe} ELSE BOOLEAN)
ReadStatus2 ==
  /\ LoaderAt("sr2") /\ ReadsQuad /\ lpc' = (IF quad' THEN "map" ELSE "qewren")
  /\ UNCHANGED <<chip, driver, stage, held, image, resets>>

(* Quad enable, where it is missing: the chip is busy with its status      *)
(* register, and one that keeps it off is read on one line.  Nothing here  *)
(* ends in recovery: the flash is mapped, as a chip that has not got it.   *)
QuadWriteEnable == LoaderAt("qewren") /\ WriteEnable /\ LGo("qewrite")
QuadWrite == LoaderAt("qewrite") /\ StartJob(StatusWrite) /\ LGo("qeready")

\* mutants: no wait for the chip, and what was written is not read back
QuadReadyNot == LoaderAt("qeready") /\ LGo("qeread") /\ UNCHANGED chip
QuadReadNot ==
  /\ LoaderAt("qeread") /\ quad' = TRUE /\ lpc' = "map"
  /\ UNCHANGED <<chip, driver, stage, held, image, resets>>

QuadReady ==
  /\ LoaderAt("qeready") /\ UNCHANGED chip
  /\ \/ ChipEnds /\ LGo("qeread")
     \/ ChipDoesNot /\ LGo("map")
QuadRead ==
  /\ LoaderAt("qeread") /\ ReadsQuad /\ lpc' = "map"
  /\ UNCHANGED <<chip, driver, stage, held, image, resets>>

(* Memory-mapped mode: the controller's, the chip sees nothing of it yet.  *)
MapFlash ==
  /\ LoaderAt("map") /\ lpc' = "vectors" /\ usesCont' = quad /\ UNCHANGED chip
  /\ UNCHANGED <<stage, held, quad, image, resets, qpc, call, at, r, res, usable, lost>>

(* The first mapped read: the vector table.  A chip that does not give its *)
(* contents, or not on four lines, gives no address of a program.          *)
Vectors ==
  /\ LoaderAt("vectors") /\ cont' = (IF Reads THEN usesCont ELSE cont)
  /\ UNCHANGED <<content, dpd, qe, defect>>
  /\ IF image /\ Reads /\ (usesCont => qe)
     THEN /\ stage' = "os" /\ lpc' = "key" /\ qpc' = "idle" /\ usable' = FALSE
          /\ UNCHANGED <<held, quad, image, resets, call, at, r, res, usesCont, lost>>
     ELSE Recover

(* q_wait(), q_idle(): the command was carried out, or not.                *)
Unanswered == lost < LostBudget /\ lost' = lost + 1 /\ UNCHANGED <<qpc, call, at, r, res, usable, usesCont>>
LoaderTimesOut ==
  /\ stage = "loader" /\ Unanswered /\ stage' = "recovery" /\ lpc' = "key"
  /\ UNCHANGED <<held, quad, image, resets>>
  /\ CASE lpc = "leave" -> cont' \in {cont, FALSE} /\ UNCHANGED <<content, dpd, qe, defect>>
       [] lpc = "release" -> dpd' \in {dpd, dpd /\ ~Hears("release")} /\ UNCHANGED <<content, cont, qe, defect>>
       [] lpc \in {"ready", "id", "sr2", "map"} -> UNCHANGED chip
       [] OTHER -> FALSE
QuadTimesOut ==
  /\ stage = "loader" /\ Unanswered /\ lpc' = "map"
  /\ UNCHANGED <<stage, held, image, resets>>
  /\ CASE lpc = "qewren" -> (WriteEnable \/ UNCHANGED chip) /\ UNCHANGED quad
       [] lpc = "qewrite" -> (StartJob(StatusWrite) \/ UNCHANGED chip) /\ UNCHANGED quad
       [] lpc = "qeready" -> UNCHANGED <<chip, quad>>
       [] lpc = "qeread" -> (ReadsQuad \/ UNCHANGED quad) /\ UNCHANGED chip
       [] OTHER -> FALSE

(* The reset button and the watchdog reset the processor and its           *)
(* controller, a power cut the chip as well.                               *)
Restart ==
  /\ resets < ResetBudget /\ resets' = resets + 1
  /\ stage' = "loader" /\ lpc' = "key" /\ held' \in BOOLEAN /\ quad' = FALSE
  /\ qpc' = "off" /\ res' = "none" /\ usable' = FALSE /\ call' = NoCall /\ at' = 0 /\ r' = TRUE
  /\ UNCHANGED <<image, usesCont, lost>>
Reset == Restart /\ UNCHANGED chip
PowerCut == Restart /\ ChipPowerCut

-----------------------------------------------------------------------------
StartInit ==
  /\ ChipInit
  /\ qpc = "off" /\ call = NoCall /\ at = 0 /\ r = TRUE /\ res = "none" /\ usable = FALSE
  /\ usesCont = FALSE /\ lost = 0
  /\ stage = "loader" /\ lpc = "key" /\ held \in BOOLEAN /\ quad = FALSE /\ image \in BOOLEAN
  /\ resets = 0

LoaderStep ==
  \/ RecoveryKey \/ LeaveContinuous \/ Release \/ ChipReady \/ Identify \/ ReadStatus2
  \/ QuadWriteEnable \/ QuadWrite \/ QuadReady \/ QuadRead \/ MapFlash \/ Vectors
OsStep == stage = "os" /\ DriverStep /\ UNCHANGED loader
OsTimesOut == stage = "os" /\ TimesOut /\ UNCHANGED loader
OsCall == stage = "os" /\ (StorageInit \/ StorageErase \/ StorageProgram) /\ UNCHANGED loader

StartNext ==
  \/ LoaderStep \/ LoaderTimesOut \/ QuadTimesOut
  \/ OsStep \/ OsCall \/ OsTimesOut
  \/ ChipFinishes /\ UNCHANGED <<driver, loader>>
  \/ Reset \/ PowerCut

StartSpec == StartInit /\ [][StartNext]_startVars

-----------------------------------------------------------------------------
(* "Started by the loader, whatever the flash was doing": after a reset at *)
(* any moment, in the middle of an erase or of a mapped read, the loader   *)
(* always has a step to take, or waits for a chip that will finish.  As    *)
(* its steps go one way, it ends, in the OS or in recovery.                *)
StartGoesOn == stage = "loader" => ENABLED LoaderStep \/ (Busy /\ defect # "stuck")

(* Recovery is only for a cause.  The vector table is read from a chip     *)
(* that gives its contents, but for one that hangs or a command that was   *)
(* lost; on four lines only from a chip that has QE on and is not at work, *)
(* whatever became of the write that was to set it.                        *)
StartsRight ==
  /\ stage = "recovery" => held \/ ~image \/ lost > 0 \/ defect \in {"stuck", "mute"}
  /\ LoaderAt("vectors") =>
       /\ ~cont /\ (Readable \/ lost > 0 \/ defect = "stuck")
       /\ usesCont => qe /\ Readable
=============================================================================

----------------------------- MODULE FlashChip -----------------------------
(***************************************************************************)
(* The AT25SF641 flash chip behind the QUADSPI controller, as loader.c and *)
(* storage_qspi.c use it: what it makes of a command depends on what it is *)
(* doing, and nothing but a power cut makes it forget that.  A reset of    *)
(* the processor leaves it as it is.                                       *)
(***************************************************************************)
EXTENDS Integers, FiniteSets

CONSTANTS
  Size,          \* units of flash
  Block, Big,    \* units of a 4 KB block and of a 64 KB block
  Page,          \* units of a page
  Vals,          \* what a programmed unit may hold
  Erased, Spoiled

ASSUME ChipSizes ==
  /\ Size \in Nat \ {0} /\ Block \in Nat \ {0} /\ Big \in Nat \ {0} /\ Page \in Nat \ {0}
  /\ Big % Block = 0 /\ Block % Page = 0 /\ Size % Block = 0
  /\ Erased \notin Vals /\ Spoiled \notin Vals /\ Erased # Spoiled

VARIABLES
  cells,         \* the units
  cont,          \* continuous read: the next bytes are an address
  dpd,           \* deep power-down
  wel,           \* write enable latch
  qe,            \* quad enable, kept without power
  job,           \* what is being erased, programmed or set: unit -> its new value
  defect         \* what is wrong with this chip, if anything

content == <<cells, job, wel>>
chip == <<cells, cont, dpd, wel, qe, job, defect>>

Units == 0 .. Size - 1
Status == Size            \* status register 2, as one more unit to write
Defects == {"none", "stuck", "protected", "mute", "noqe"}

Busy == DOMAIN job # {}
NoJob == [u \in {} |-> Erased]

(* A command is understood, or ignored.                                    *)
Hears(c) ==
  /\ ~cont /\ defect # "mute"
  /\ dpd => c = "release"
  /\ Busy => c = "status"

(* A mapped read gives the chip's contents.                                *)
Readable == ~Busy /\ ~dpd /\ defect # "mute"

(* The first of them has an instruction.                                   *)
Reads == Readable /\ ~cont

Blank(from, to) == \A u \in from .. to - 1 : cells[u] = Erased
Holds(from, to, v) == \A u \in from .. to - 1 : cells[u] = v

(* Programming clears bits: only erased units take any value.              *)
Programmed(old, v) == IF old \in {Erased, v} THEN v ELSE Spoiled

(* Past the end of its page a program goes on at the page's start.         *)
InPage(first, k) == LET p == first - (first % Page) IN p + ((first + k - p) % Page)

WriteEnable == wel' = (wel \/ Hears("wren")) /\ UNCHANGED <<cells, job, cont, dpd, qe, defect>>

StartJob(new) ==
  /\ IF Hears("write") /\ wel /\ defect # "protected" THEN job' = new /\ wel' = FALSE
     ELSE IF Hears("write") THEN wel' = FALSE /\ UNCHANGED job
     ELSE UNCHANGED <<job, wel>>
  /\ UNCHANGED <<cells, cont, dpd, qe, defect>>

EraseOf(first, n) == [u \in first .. first + n - 1 |-> Erased]
ProgramOf(first, n, v) ==
  [u \in {InPage(first, k) : k \in 0 .. n - 1} |-> Programmed(cells[u], v)]

StatusWrite == [u \in {Status} |-> Erased]
QeSet == Status \in DOMAIN job /\ defect # "noqe"

(* The chip finishes by itself.                                            *)
ChipFinishes ==
  /\ Busy /\ defect # "stuck"
  /\ cells' = [u \in Units |-> IF u \in DOMAIN job THEN job[u] ELSE cells[u]] /\ job' = NoJob
  /\ qe' = (qe \/ QeSet) /\ UNCHANGED <<cont, dpd, wel, defect>>

(* A power cut: what was being written is as before, done, or spoiled.     *)
ChipPowerCut ==
  /\ \E how \in {"before", "done", "spoiled"} :
       cells' = [u \in Units |-> IF u \notin DOMAIN job \/ how = "before" THEN cells[u]
                                 ELSE IF how = "done" THEN job[u] ELSE Spoiled]
  /\ job' = NoJob /\ cont' = FALSE /\ dpd' = FALSE /\ wel' = FALSE
  /\ qe' \in {qe, qe \/ QeSet} /\ UNCHANGED defect

ChipInit ==
  /\ cells \in [Units -> {Erased, Spoiled}] /\ job = NoJob /\ wel = FALSE
  /\ cont \in BOOLEAN /\ dpd \in BOOLEAN /\ (cont => ~dpd)
  /\ qe \in BOOLEAN /\ defect \in Defects /\ (defect = "noqe" => ~qe)
=============================================================================

---------------------------- MODULE FlashFSProofs ----------------------------
(***************************************************************************)
(* Theorems about the flash filesystem, for every number of files, record  *)
(* slots, data units and generations.                                      *)
(*                                                                         *)
(* With every failure: ActiveAreaOutranks, NewestWins.                     *)
(* With power cuts at any primitive, but no primitive that fails of itself *)
(* and no rename in a full directory: CrashesAreSafe, DirectoryIsDurable,  *)
(* NothingRefused, FilesWellFormed, NoFileVanishes, BehavesLikeStore.      *)
(*                                                                         *)
(* The proof that FSInv is inductive has one lemma for each action (the    *)
(* ...Keeps); they rest on what a primitive does to the log (KeepsLog,     *)
(* CommitLog), to the data (UpData) and to the files (KeepsFiles,          *)
(* CommitDurable, SuperDurable).                                           *)
(***************************************************************************)
EXTENDS FlashFS, FiniteSetTheorems, SequenceTheorems, WellFoundedInduction, TLAPS

-----------------------------------------------------------------------------
(* The inductive invariants: GenInv is about the two superblocks, SpanInv  *)
(* about where the logs end; FSInv adds what the logs, the data, the       *)
(* directory, the stream and the history say of one another at every       *)
(* primitive of every call.                                                *)

Formatting == {"unformatted", "erase1", "erase0", "format"}

(* The superblocks tell the areas apart whenever one is valid; none is     *)
(* valid while the flash is being formatted; and the area in use has the   *)
(* greater generation of the two.                                          *)
GenTypeOK ==
  super \in [Areas -> Nat] /\ area \in Areas /\ gen \in Nat /\ pc \in Pcs
GenInv ==
  /\ GenTypeOK
  /\ super[0] = super[1] => super[0] = 0
  /\ pc \in Formatting => super[0] = 0 /\ super[1] = 0
  /\ ActiveOutranks

-----------------------------------------------------------------------------
(* A log, for itself: its slots, where it ends, the newest of the first k  *)
(* records for a name and the extent that it gives; the names that have    *)
(* one; and what a log with its pool holds for a name.                     *)
Logs == [Slots -> Records \cup {Erased, Torn}]
Pools == [Units -> Cells]

Ends(L, k) == (\A j \in 1 .. k : L[j] # Erased) /\ (k = LogRecords \/ L[k + 1] = Erased)
EndOf(L) == CHOOSE k \in 0 .. LogRecords : Ends(L, k)
IsNewest(L, k, n, j) == (j = 0 \/ IsFor(L[j], n)) /\ \A i \in j + 1 .. k : ~IsFor(L[i], n)
NewestIn(L, k, n) == CHOOSE j \in 0 .. k : IsNewest(L, k, n, j)

ExtentIn(L, k, n) ==
  LET j == NewestIn(L, k, n)
  IN  IF j # 0 /\ L[j].kind = "file" THEN {[off |-> L[j].off, size |-> L[j].size]} ELSE {}
Live(L, k) == {n \in Names : ExtentIn(L, k, n) # {}}

ReadOf(D, off, size) == [i \in 1 .. size |-> D[off + i - 1]]
FileOf(L, D, n) ==
  LET j == NewestIn(L, EndOf(L), n)
  IN  IF j # 0 /\ L[j].kind = "file" THEN ReadOf(D, L[j].off, L[j].size) ELSE Absent

(* Nothing is written beyond the end of the log.                           *)
Whole(L) == \A j \in Slots : j > EndOf(L) => L[j] = Erased

(* The files fit the directory, at each moment of a mount too; they lie in *)
(* the pool, apart from each other.                                        *)
Few(S) == IsFiniteSet(S) /\ Cardinality(S) <= MaxFiles
InPool(L) == \A j \in Slots : L[j].kind = "file" => L[j].off + L[j].size <= Pool
FilesApart(L) ==
  \A n, m \in Names : \A x \in ExtentIn(L, EndOf(L), n), y \in ExtentIn(L, EndOf(L), m) :
    x = y \/ Apart(x, y)
GoodLog(L) ==
  Whole(L) /\ InPool(L) /\ (\A k \in 0 .. EndOf(L) : Few(Live(L, k))) /\ FilesApart(L)

-----------------------------------------------------------------------------
(* Where a call is: the system is up; records are written for the call; it *)
(* compacts; a mount is under way.                                         *)
UpPcs == {"idle", "data", "body", "commit", "body2", "commit2", "swrite", "erase", "copy",
          "super", "reserve"}
Adding == {"data", "body", "commit", "body2", "commit2"}
Laying == {"erase", "copy", "super"}
Mounting == {"mount", "replay"}

Other == 1 - area

(* Where the logs end, and that they have no gaps: s_log_used is the end   *)
(* of the log in use, but for a slot counted before it is programmed.      *)
SpanTypes ==
  /\ DOMAIN log = Areas /\ \A a \in Areas : DOMAIN log[a] = Slots
  /\ logUsed \in Nat /\ nrec \in 0 .. LogRecords
SpanInv ==
  /\ SpanTypes
  /\ FailBudget = 0 \/ "nothing" \notin FailEffects
  /\ fails \in Nat /\ fails <= FailBudget
  /\ Valid(0) \/ Valid(1) => Whole(log[NewestArea])
  /\ pc \in UpPcs =>
       /\ logUsed = EndOf(log[area]) + (IF pc \in {"body", "body2"} THEN 1 ELSE 0)
       /\ logUsed <= LogRecords
  /\ pc = "data" => logUsed < LogRecords /\ op.kind # "rename"
  /\ pc \in {"body", "commit"} /\ op.kind = "rename" => logUsed < LogRecords
  /\ pc \in {"commit", "commit2"} => logUsed > 0 /\ log[area][logUsed] = Torn
  /\ pc = "replay" => logUsed <= EndOf(log[area])
  /\ pc \in {"copy", "super"} => super[Other] = 0 /\ Whole(log[Other]) /\ EndOf(log[Other]) = nrec
  /\ pc = "format" => log[0] = ErasedLog

-----------------------------------------------------------------------------
(* What follows holds of the behaviours in which no primitive fails of     *)
(* itself and no file is renamed while the directory is full.              *)

Compacts == {"write", "delete", "rename", "begin", "end"}

(* Which call can be where.                                                *)
OpInv ==
  /\ FailBudget = 0 /\ ~ FullDirRename /\ fails = 0 /\ pc # "nofs"
  /\ pc \in {"off", "unformatted", "idle", "erase1", "erase0", "format"} => op = NoOp
  /\ op.kind = "none" => op = NoOp
  /\ pc = "data" => op.kind = "write"
  /\ pc \in {"body", "commit"} => op.kind \in {"write", "delete", "rename", "end"}
  /\ pc \in {"body2", "commit2"} => op.kind = "rename"
  /\ pc = "swrite" => op.kind = "swrite" /\ \E v \in Vals : op.body = <<v>>
  /\ pc \in Laying => op.kind \in Compacts
  /\ pc = "reserve" => op.kind = "begin"
  /\ pc \in Mounting /\ op.kind # "none" =>
       op.ok /\ op.kind \in Compacts /\ (Valid(0) \/ Valid(1))
  /\ op.kind \in Compacts => op.name \in Names
  /\ op.to # Absent => op.kind = "rename"
  /\ op.kind = "rename" => op.to \in Names \ {op.name}
  /\ op.kind \in {"write", "end"} => op.body \in Contents /\ Len(op.body) = op.size

(* What the call looked up when it started still holds.                    *)
AskInv ==
  pc \in Adding \cup Laying =>
    /\ op.kind \in {"delete", "rename"} => op.name \in DOMAIN dir
    /\ op.kind = "rename" =>
         /\ op.to \notin DOMAIN dir /\ dir[op.name] = [off |-> op.off, size |-> op.size]
         /\ op.body = FileAt(op.name)
         /\ pc \in Adding => Cardinality(DOMAIN dir) < MaxFiles
    /\ op.kind \in {"write", "begin", "end"} => NewFileFits(op.name)
    /\ op.kind = "end" => op.body = Read(area, op.off, op.size)

(* The directory is what the log says.                                     *)
Known(n) ==
  IF n \in DOMAIN dir THEN {dir[n]}
  ELSE IF pc \in {"body2", "commit2"} /\ n = op.to THEN {dir[op.name]} ELSE {}

DirInv ==
  /\ pc \in UpPcs => \A n \in Names : ExtentIn(log[area], EndOf(log[area]), n) = Known(n)
  /\ pc = "replay" =>
       \A n \in Names : ExtentIn(log[area], logUsed, n) = IF n \in DOMAIN dir THEN {dir[n]} ELSE {}

(* Where the data of the files ends, but for that of a file being written. *)
Placing == op.kind = "write" /\ pc \in {"data", "body", "commit"}
Base == IF Placing THEN op.off ELSE dataEnd
OpExtent == [off |-> op.off, size |-> op.size]
StreamExtent == [off |-> stream.start, size |-> stream.size]

(* The files end before it; what lies behind is blank; and the cells of    *)
(* the file being written hold what its record will promise.               *)
SpaceInv ==
  /\ pc \in UpPcs \cup {"replay"} => \A n \in DOMAIN dir : dir[n].off + dir[n].size <= Base
  /\ pc \in UpPcs =>
       \A u \in Units : u >= (IF pc = "data" THEN op.off ELSE dataEnd) => data[area][u] = Blank
  /\ Placing => dataEnd = op.off + op.size
  /\ pc \in {"body", "commit"} /\ op.kind \in {"write", "end"} =>
       /\ op.off + op.size <= dataEnd
       /\ ReadOf(data[area], op.off, op.size) = op.body
       /\ \A n \in DOMAIN dir : Apart(dir[n], OpExtent)
       /\ stream.active => Apart(StreamExtent, OpExtent)

(* The open stream: what has been sent is on the flash, the rest of its    *)
(* reservation blank, and no file shares a cell with it.                   *)
StreamInv ==
  /\ ~stream.active => stream = NoStream
  /\ pc = "swrite" => stream.active /\ stream.written < stream.size
  /\ pc = "replay" => stream = NoStream
  /\ op.kind \in {"begin", "end"} => ~stream.active
  /\ stream.active =>
       /\ pc \in UpPcs \cup {"mount"} /\ stream.name \in Names
       /\ stream.written <= stream.size /\ Len(stream.body) = stream.written
       /\ ReadOf(data[area], stream.start, stream.written) = stream.body
       /\ pc # "mount" =>
            /\ stream.start + stream.size <= Base
            /\ \A u \in Units :
                 stream.start + stream.written <= u /\ u < stream.start + stream.size =>
                   data[area][u] = Blank
            /\ \A n \in DOMAIN dir : Apart(dir[n], StreamExtent)

(* The area that is being laid out.                                        *)
LaidInv ==
  pc \in {"copy", "super"} =>
    /\ left \subseteq DOMAIN Target(op) /\ (pc = "super" => left = {})
    /\ GoodLog(log[Other])
    /\ \A n \in DOMAIN Target(op) \ left :
         \E x \in Extents :
           /\ ExtentIn(log[Other], nrec, n) = {x} /\ x.off + x.size <= cur
           /\ ReadOf(data[Other], x.off, x.size) = Target(op)[n]
    /\ \A n \in Names : n \notin DOMAIN Target(op) \ left => ExtentIn(log[Other], nrec, n) = {}
    /\ \A u \in Units : u >= cur => data[Other][u] = Blank

(* The history: what a mount would find now is allowed, and so is what the *)
(* call is about to do; after a compaction it has been done.               *)
Promised ==
  /\ \A n \in Names : DurableFiles[n] \in allowed[n] /\ allowed[n] \subseteq Contents \cup {Absent}
  /\ pc \in Adding \cup Laying \cup Mounting => \A n \in Names : Outcome(op, n) \subseteq allowed[n]
  /\ pc \in Mounting /\ op.kind # "none" => \A n \in Names : DurableFiles[n] \in Acknowledged(op)[n]

(* A mount would find a good log.                                          *)
FlashInv ==
  /\ Valid(0) \/ Valid(1) => GoodLog(log[NewestArea])
  /\ pc = "format" => log[0] = ErasedLog /\ data[0] = BlankData

FSInv ==
  /\ GenInv /\ SpanInv /\ TypeOK /\ OpInv /\ AskInv /\ DirInv /\ SpaceInv /\ StreamInv
  /\ LaidInv /\ Promised /\ FlashInv

-----------------------------------------------------------------------------
(* What one primitive can do to the superblocks, whatever its effect and   *)
(* wherever the call is: it lays waste to the other area's, or commits it  *)
(* with the next generation, or (formatting) commits area 0 with the first.*)
LEMMA PrimitiveSuper ==
  ASSUME GenInv, NEW e \in Effects, Primitive(e)
  PROVE  \/ super' = super
         \/ pc = "erase" /\ super' = [super EXCEPT ![1 - area] = 0]
         \/ pc = "super" /\ super' = [super EXCEPT ![1 - area] = gen + 1]
         \/ pc = "format" /\ super' = [super EXCEPT ![0] = 1]
<1> USE DEF GenInv, GenTypeOK, Areas, Quiet
<1>1. CASE pc = "data"
  BY <1>1 DEF Primitive, ProgramData
<1>2. CASE pc = "swrite"
  BY <1>2 DEF Primitive, ProgramData
<1>3. CASE pc \in {"body", "body2"}
  BY <1>3 DEF Primitive, ProgramBody
<1>4. CASE pc \in {"commit", "commit2"}
  BY <1>4 DEF Primitive, ProgramCommit
<1>5. CASE pc = "erase"
  BY <1>5 DEF Primitive, EraseArea, flash
<1>6. CASE pc = "copy"
  BY <1>6 DEF Primitive, CopyFile
<1>7. CASE pc = "super"
  BY <1>7 DEF Primitive, ProgramSuper
<1>8. CASE pc = "erase1"
  <2>1. super[1] = 0
    BY <1>8 DEF Formatting
  <2>2. EraseArea(1, e)
    BY <1>8 DEF Primitive
  <2>3. QED BY <2>1, <2>2 DEF EraseArea, flash
<1>9. CASE pc = "erase0"
  <2>1. super[0] = 0
    BY <1>9 DEF Formatting
  <2>2. EraseArea(0, e)
    BY <1>9 DEF Primitive
  <2>3. QED BY <2>1, <2>2 DEF EraseArea, flash
<1>10. CASE pc = "format"
  BY <1>10 DEF Primitive, ProgramSuper
<1>11. CASE pc \in {"off", "mount", "replay", "unformatted", "nofs", "idle", "reserve"}
  BY <1>11 DEF Primitive, flash
<1>12. QED
  BY <1>1, <1>2, <1>3, <1>4, <1>5, <1>6, <1>7, <1>8, <1>9, <1>10, <1>11 DEF Pcs

(* A call starts from an idle system and changes neither area.             *)
LEMMA CallsKeepAreas ==
  ASSUME Calls
  PROVE  pc = "idle" /\ super' = super /\ area' = area /\ gen' = gen
         /\ pc' \in {"idle", "data", "body", "swrite", "erase"}
<1> USE DEF Start, flash, ram
<1>1. ASSUME NEW n \in Names, NEW c \in Contents, Write(n, c)
      PROVE  pc = "idle" /\ super' = super /\ area' = area /\ gen' = gen
             /\ pc' \in {"idle", "data", "body", "swrite", "erase"}
  BY <1>1 DEF Write
<1>2. ASSUME NEW n \in Names, Delete(n)
      PROVE  pc = "idle" /\ super' = super /\ area' = area /\ gen' = gen
             /\ pc' \in {"idle", "data", "body", "swrite", "erase"}
  BY <1>2 DEF Delete
<1>3. ASSUME NEW n \in Names, NEW m \in Names, Rename(n, m)
      PROVE  pc = "idle" /\ super' = super /\ area' = area /\ gen' = gen
             /\ pc' \in {"idle", "data", "body", "swrite", "erase"}
  BY <1>3 DEF Rename
<1>4. ASSUME NEW n \in Names, NEW size \in 0 .. MaxSize, StreamBegin(n, size)
      PROVE  pc = "idle" /\ super' = super /\ area' = area /\ gen' = gen
             /\ pc' \in {"idle", "data", "body", "swrite", "erase"}
  BY <1>4 DEF StreamBegin
<1>5. ASSUME NEW v \in Vals, StreamWrite(v)
      PROVE  pc = "idle" /\ super' = super /\ area' = area /\ gen' = gen
             /\ pc' \in {"idle", "data", "body", "swrite", "erase"}
  BY <1>5 DEF StreamWrite
<1>6. CASE StreamEnd
  BY <1>6 DEF StreamEnd
<1>7. CASE StreamAbort
  BY <1>7 DEF StreamAbort
<1>8. QED BY <1>1, <1>2, <1>3, <1>4, <1>5, <1>6, <1>7 DEF Calls

(* Every step keeps the invariant.                                         *)
LEMMA GenInvStep == GenInv /\ [Next]_vars => GenInv'
<1> SUFFICES ASSUME GenInv, [Next]_vars PROVE GenInv'
  OBVIOUS
<1> USE DEF GenInv, GenTypeOK, ActiveOutranks, Areas, Pcs, Formatting, Quiet
<1>1. CASE Calls
  BY <1>1, CallsKeepAreas
<1>2. CASE StartMount
  BY <1>2 DEF StartMount, Valid, NewestArea, flash
<1>3. CASE ReplayRecord
  BY <1>3 DEF ReplayRecord, flash
<1>4. CASE EndMount
  BY <1>4 DEF EndMount, Finish, flash
<1>5. CASE Format
  BY <1>5, SMT DEF Format, flash, ram, StartMount
<1>6. CASE PowerOn
  BY <1>6 DEF PowerOn, flash, ram
<1>7. CASE ReserveAfterCompaction
  BY <1>7 DEF ReserveAfterCompaction, Finish, flash
<1>8. CASE DataProgrammed
  <2>1. super' = super
    BY <1>8, PrimitiveSuper DEF DataProgrammed, Succeeds, Effects
  <2>2. QED BY <2>1, <1>8 DEF DataProgrammed
<1>9. CASE StreamProgrammed
  <2>1. super' = super
    BY <1>9, PrimitiveSuper DEF StreamProgrammed, Succeeds, Effects
  <2>2. QED BY <2>1, <1>9 DEF StreamProgrammed, Finish
<1>10. CASE BodyProgrammed
  <2>1. super' = super
    BY <1>10, PrimitiveSuper DEF BodyProgrammed, Succeeds, Effects
  <2>2. QED BY <2>1, <1>10 DEF BodyProgrammed, ram
<1>11. CASE Linked
  <2>1. super' = super
    BY <1>11, PrimitiveSuper DEF Linked, Succeeds, Effects
  <2>2. QED BY <2>1, <1>11 DEF Linked
<1>12. CASE Committed
  <2>1. super' = super
    BY <1>12, PrimitiveSuper DEF Committed, Succeeds, Effects
  <2>2. QED BY <2>1, <1>12 DEF Committed, Finish
<1>13. CASE AreaErased
  <2>1. super' = super \/ super' = [super EXCEPT ![1 - area] = 0]
    BY <1>13, PrimitiveSuper DEF AreaErased, Succeeds, Effects
  <2>2. pc' \in {"super", "copy"} /\ area' = area /\ gen' = gen /\ pc = "erase"
    BY <1>13 DEF AreaErased, ram
  <2>3. QED BY <2>1, <2>2
<1>14. CASE FileCopied
  BY <1>14 DEF FileCopied, CopyFile, ram
<1>15. CASE SuperProgrammed
  <2>1. super' = super \/ super' = [super EXCEPT ![1 - area] = gen + 1]
    BY <1>15, PrimitiveSuper DEF SuperProgrammed, Succeeds, Effects
  <2>2. pc' = "mount" /\ area' = area /\ gen' = gen /\ pc = "super"
    BY <1>15 DEF SuperProgrammed, ram
  <2>3. QED BY <2>1, <2>2
<1>16. CASE FormatStep
  <2>1. super' = super \/ (pc = "format" /\ super' = [super EXCEPT ![0] = 1])
    BY <1>16, PrimitiveSuper DEF FormatStep, Succeeds, Effects
  <2>2. pc' \in {"erase0", "format", "mount"} /\ area' = area /\ gen' = gen
    BY <1>16 DEF FormatStep, ram
  <2>3. (pc = "format" => pc' = "mount") /\ pc \in Formatting
    BY <1>16 DEF FormatStep
  <2>4. QED BY <2>1, <2>2, <2>3
<1>17. CASE Fail
  <2>1. PICK e \in Effects : Primitive(e)
    BY <1>17, FFSAssumption DEF Fail, Effects
  <2>2. area' = area /\ gen' = gen
    BY <1>17 DEF Fail
  <2>3. \/ pc \in {"erase1", "erase0"} /\ pc' = "nofs" /\ super' = super
        \/ pc = "format" /\ pc' = "nofs"
        \/ pc' = "mount" /\ pc \notin Formatting
        \/ pc' = "idle" /\ super' = super /\ pc \in {"data", "swrite", "body", "commit"}
    BY <1>17, <2>1, PrimitiveSuper DEF Fail, Finish
  <2>4. QED BY <2>1, <2>2, <2>3, PrimitiveSuper
<1>18. CASE Crash
  <2>1. PICK e \in Effects : Primitive(e)
    BY <1>18 DEF Crash
  <2>2. pc' = "off" /\ area' = 0 /\ gen' = 0
    BY <1>18 DEF Crash
  <2>3. QED BY <2>1, <2>2, PrimitiveSuper
<1>19. CASE UNCHANGED vars
  BY <1>19 DEF vars
<1>20. QED
  BY <1>1, <1>2, <1>3, <1>4, <1>5, <1>6, <1>7, <1>8, <1>9, <1>10, <1>11, <1>12,
     <1>13, <1>14, <1>15, <1>16, <1>17, <1>18, <1>19 DEF Next, Steps

(* While the system is up, a mount would pick the area it uses: whatever   *)
(* compaction, a failure or a power cut did to the other area, and however *)
(* often, it does not outrank the area in use before it is complete.       *)
THEOREM ActiveAreaOutranks == Spec => []ActiveOutranks
<1>1. Init => GenInv
  BY DEF Init, GenInv, GenTypeOK, ActiveOutranks, Areas, Pcs, Formatting
<1>2. GenInv => ActiveOutranks
  BY DEF GenInv
<1>3. QED BY <1>1, <1>2, GenInvStep, PTL DEF Spec

-----------------------------------------------------------------------------
(* Logs: where they end, and which record is the newest.                   *)

(* The least and the greatest of some numbers.                             *)
LEMMA LeastOf ==
  ASSUME NEW S \in SUBSET Nat, S # {}
  PROVE  \E x \in S : \A y \in S : x <= y
<1> DEFINE T == {1 .. x : x \in S}
<1>1. T \subseteq FiniteSubsetsOf(Nat) /\ T # {}
  <2>1. ASSUME NEW x \in S PROVE 1 .. x \in FiniteSubsetsOf(Nat)
    BY FS_Interval DEF FiniteSubsetsOf
  <2>2. QED BY <2>1
<1>2. PICK t \in T : \A u \in T : ~ (<<u, t>> \in StrictSubsetOrdering(Nat))
  <2> HIDE DEF T
  <2>1. QED BY <1>1, WFMin, FS_StrictSubsetOrderingWellFounded
<1>3. PICK x \in S : t = 1 .. x
  OBVIOUS
<1>4. ASSUME NEW y \in S PROVE x <= y
  <2> SUFFICES ASSUME y < x PROVE FALSE
    OBVIOUS
  <2>1. 1 .. y \subseteq 1 .. x /\ 1 .. y # 1 .. x
    OBVIOUS
  <2>2. <<1 .. y, 1 .. x>> \in StrictSubsetOrdering(Nat)
    BY <2>1 DEF StrictSubsetOrdering
  <2>3. 1 .. y \in T
    OBVIOUS
  <2>4. QED BY <1>2, <1>3, <2>2, <2>3
<1>5. QED BY <1>4

(* A non-empty set of numbers up to m has a greatest one.                  *)
LEMMA GreatestOf ==
  ASSUME NEW m \in Nat, NEW S \in SUBSET (0 .. m), S # {}
  PROVE  \E x \in S : \A y \in S : y <= x
<1> DEFINE T == {k \in Nat : \E x \in S : k = m - x}
<1>1. T \in SUBSET Nat /\ T # {}
  <2>1. PICK x \in S : TRUE
    OBVIOUS
  <2>2. m - x \in T
    OBVIOUS
  <2>3. QED BY <2>2
<1>2. PICK t \in T : \A y \in T : t <= y
  BY <1>1, LeastOf
<1>3. PICK x \in S : t = m - x
  OBVIOUS
<1>4. ASSUME NEW y \in S PROVE y <= x
  <2>1. m - y \in T
    OBVIOUS
  <2>2. t <= m - y
    BY <2>1, <1>2
  <2>3. QED BY <2>2, <1>3
<1>5. QED BY <1>4

(* Where a log ends.                                                       *)
LEMMA EndIs ==
  ASSUME NEW L
  PROVE  EndOf(L) \in 0 .. LogRecords /\ Ends(L, EndOf(L))
<1> DEFINE S == {k \in 0 .. LogRecords : k = LogRecords \/ L[k + 1] = Erased}
<1>1. LogRecords \in Nat
  BY FFSAssumption
<1>2. S \in SUBSET Nat /\ S # {}
  <2>1. LogRecords \in S
    BY <1>1
  <2>2. QED BY <2>1
<1>3. PICK k \in S : \A y \in S : k <= y
  BY <1>2, LeastOf
<1>4. Ends(L, k)
  <2>1. ASSUME NEW j \in 1 .. k, L[j] = Erased PROVE FALSE
    <3>1. j - 1 \in S
      BY <2>1, <1>1
    <3>2. QED BY <3>1, <1>3
  <2>2. QED BY <2>1 DEF Ends
<1>5. \E x \in 0 .. LogRecords : Ends(L, x)
  BY <1>4
<1>6. QED BY <1>5 DEF EndOf

(* A log ends in one place only.                                           *)
LEMMA EndUnique ==
  ASSUME NEW L, NEW k \in 0 .. LogRecords, Ends(L, k)
  PROVE  EndOf(L) = k
<1>1. EndOf(L) \in 0 .. LogRecords /\ Ends(L, EndOf(L))
  BY EndIs
<1>2. LogRecords \in Nat
  BY FFSAssumption
<1>3. ~ (EndOf(L) < k)
  <2>1. ASSUME EndOf(L) < k PROVE FALSE
    <3>1. EndOf(L) + 1 \in 1 .. k
      BY <2>1, <1>1
    <3>2. L[EndOf(L) + 1] # Erased
      BY <3>1 DEF Ends
    <3>3. EndOf(L) # LogRecords
      BY <2>1, <1>1, <1>2
    <3>4. QED BY <3>2, <3>3, <1>1 DEF Ends
  <2>2. QED BY <2>1
<1>4. ~ (k < EndOf(L))
  <2>1. ASSUME k < EndOf(L) PROVE FALSE
    <3>1. k + 1 \in 1 .. EndOf(L)
      BY <2>1, <1>1
    <3>2. L[k + 1] # Erased
      BY <3>1, <1>1 DEF Ends
    <3>3. k # LogRecords
      BY <2>1, <1>1, <1>2
    <3>4. QED BY <3>2, <3>3 DEF Ends
  <2>2. QED BY <2>1
<1>5. QED BY <1>1, <1>3, <1>4

(* The newest of the first k records for a name.                           *)
LEMMA NewestIs ==
  ASSUME NEW L, NEW k \in Nat, NEW n
  PROVE  NewestIn(L, k, n) \in 0 .. k /\ IsNewest(L, k, n, NewestIn(L, k, n))
<1> DEFINE S == {j \in 0 .. k : j = 0 \/ IsFor(L[j], n)}
<1>1. S \in SUBSET (0 .. k) /\ S # {}
  <2>1. 0 \in S
    OBVIOUS
  <2>2. QED BY <2>1
<1>2. PICK j \in S : \A y \in S : y <= j
  BY <1>1, GreatestOf
<1>3. IsNewest(L, k, n, j)
  <2>1. ASSUME NEW i \in j + 1 .. k, IsFor(L[i], n) PROVE FALSE
    <3>1. i \in S
      BY <2>1
    <3>2. QED BY <3>1, <1>2
  <2>2. QED BY <2>1 DEF IsNewest
<1>4. \E x \in 0 .. k : IsNewest(L, k, n, x)
  BY <1>3
<1>5. QED BY <1>4 DEF NewestIn

(* Only one slot is the newest for a name.                                 *)
LEMMA NewestUnique ==
  ASSUME NEW L, NEW k \in Nat, NEW n, NEW j \in 0 .. k, IsNewest(L, k, n, j)
  PROVE  NewestIn(L, k, n) = j
<1> DEFINE x == NewestIn(L, k, n)
<1>1. x \in 0 .. k /\ IsNewest(L, k, n, x)
  BY NewestIs
<1> HIDE DEF x
<1>2. ~ (x < j)
  BY <1>1 DEF IsNewest
<1>3. ~ (j < x)
  BY <1>1 DEF IsNewest
<1>4. QED BY <1>1, <1>2, <1>3 DEF x

(* What the extents of a log depend on, and what one more record does.     *)
LEMMA ExtentNone ==
  ASSUME NEW L, NEW n
  PROVE  ExtentIn(L, 0, n) = {}
<1>1. NewestIn(L, 0, n) = 0
  BY NewestIs
<1>2. QED BY <1>1 DEF ExtentIn

(* Logs that agree in their first k slots describe the same extents there. *)
LEMMA ExtentSame ==
  ASSUME NEW L, NEW M, NEW k \in Nat, NEW n, \A i \in 1 .. k : L[i] = M[i]
  PROVE  ExtentIn(L, k, n) = ExtentIn(M, k, n)
<1>1. NewestIn(L, k, n) \in 0 .. k /\ IsNewest(L, k, n, NewestIn(L, k, n))
  BY NewestIs
<1>2. IsNewest(M, k, n, NewestIn(L, k, n))
  BY <1>1 DEF IsNewest
<1>3. NewestIn(M, k, n) = NewestIn(L, k, n)
  BY <1>1, <1>2, NewestUnique
<1>4. NewestIn(L, k, n) # 0 => NewestIn(L, k, n) \in 1 .. k
  BY <1>1
<1>5. QED BY <1>3, <1>4 DEF ExtentIn

(* A record for another name, or a torn slot, changes nothing for n.       *)
LEMMA ExtentKept ==
  ASSUME NEW L, NEW k \in Nat, NEW n, ~ IsFor(L[k + 1], n)
  PROVE  ExtentIn(L, k + 1, n) = ExtentIn(L, k, n)
<1>1. NewestIn(L, k, n) \in 0 .. k /\ IsNewest(L, k, n, NewestIn(L, k, n))
  BY NewestIs
<1>2. IsNewest(L, k + 1, n, NewestIn(L, k, n))
  BY <1>1 DEF IsNewest
<1>3. NewestIn(L, k + 1, n) = NewestIn(L, k, n)
  BY <1>1, <1>2, NewestUnique
<1>4. QED BY <1>3 DEF ExtentIn

(* The newest record for a name decides (flashfs.h).                       *)
LEMMA ExtentNew ==
  ASSUME NEW L, NEW k \in Nat, NEW n, IsFor(L[k + 1], n)
  PROVE  ExtentIn(L, k + 1, n) = IF L[k + 1].kind = "file"
                                 THEN {[off |-> L[k + 1].off, size |-> L[k + 1].size]} ELSE {}
<1>1. IsNewest(L, k + 1, n, k + 1)
  BY DEF IsNewest
<1>2. NewestIn(L, k + 1, n) = k + 1
  BY <1>1, NewestUnique
<1>3. QED BY <1>2 DEF ExtentIn

-----------------------------------------------------------------------------
(* Logs: writing one slot more.                                            *)

(* The slots of a log and the extents it describes.                        *)
LEMMA SlotIs ==
  ASSUME NEW L \in Logs, NEW i \in Slots
  PROVE  \/ L[i] = Erased \/ L[i] = Torn
         \/ L[i] \in Records /\ L[i].kind \in {"file", "del"} /\ L[i].name \in Names
            /\ (L[i].kind = "file" => [off |-> L[i].off, size |-> L[i].size] \in Extents)
BY DEF Logs, Records, Extents

(* An erased or torn slot is no record, and not for any name.              *)
LEMMA KindsDiffer ==
  /\ Erased # Torn /\ Erased \notin Records /\ Torn \notin Records
  /\ \A n : ~ IsFor(Erased, n) /\ ~ IsFor(Torn, n)
BY DEF Erased, Torn, Records, IsFor

(* A log of records describes extents inside the area.                     *)
LEMMA ExtentsOfLog ==
  ASSUME NEW L \in Logs, NEW k \in 0 .. LogRecords, NEW n
  PROVE  ExtentIn(L, k, n) \subseteq Extents
<1> DEFINE j == NewestIn(L, k, n)
<1>1. j \in 0 .. k /\ IsNewest(L, k, n, j)
  BY NewestIs
<1>2. CASE j = 0
  BY <1>2 DEF ExtentIn
<1>3. CASE j # 0
  <2>1. j \in Slots
    BY <1>1, <1>3, FFSAssumption DEF Slots
  <2>2. L[j].kind = "file" => [off |-> L[j].off, size |-> L[j].size] \in Extents
    BY <2>1, SlotIs DEF Erased, Torn
  <2>3. QED BY <2>2 DEF ExtentIn
<1>4. QED BY <1>2, <1>3

(* Apart is symmetric.                                                     *)
LEMMA ApartSym ==
  ASSUME NEW x \in Extents, NEW y \in Extents
  PROVE  Apart(x, y) <=> Apart(y, x)
BY DEF Apart, Extents
(* A log whose slot k + 1 is written, and nothing beyond it.               *)
ApartTo(L, k) ==
  \A n, m \in Names : \A x \in ExtentIn(L, k, n), y \in ExtentIn(L, k, m) : x = y \/ Apart(x, y)
Written(L, M, k) ==
  /\ \A i \in 1 .. k : M[i] = L[i] /\ L[i] # Erased
  /\ M[k + 1] # Erased
  /\ \A i \in k + 2 .. LogRecords : M[i] = Erased

(* After writing slot k + 1 the log ends behind it, and still without a    *)
(* gap.                                                                    *)
LEMMA WrittenEnd ==
  ASSUME NEW L, NEW M, NEW k \in 0 .. LogRecords - 1, Written(L, M, k)
  PROVE  EndOf(M) = k + 1 /\ Whole(M)
<1>1. Ends(M, k + 1)
  BY FFSAssumption DEF Ends, Written
<1>2. EndOf(M) = k + 1
  BY <1>1, EndUnique, FFSAssumption
<1>3. Whole(M)
  BY <1>2, FFSAssumption DEF Whole, Written, Slots
<1>4. QED BY <1>2, <1>3

(* Writing slot k + 1 changes nothing of what the slots before it say.     *)
LEMMA WrittenSame ==
  ASSUME NEW L, NEW M, NEW k \in 0 .. LogRecords - 1, Written(L, M, k), NEW j \in 0 .. k, NEW n
  PROVE  ExtentIn(M, j, n) = ExtentIn(L, j, n)
BY ExtentSame, FFSAssumption DEF Written

(* The new record's effect on the directory.                               *)
After(r, old, n) ==
  IF ~ IsFor(r, n) THEN old ELSE IF r.kind = "file" THEN {[off |-> r.off, size |-> r.size]} ELSE {}

(* What the written log describes: the new record's word, then the old     *)
(* one's.                                                                  *)
LEMMA WrittenNew ==
  ASSUME NEW L, NEW M, NEW k \in 0 .. LogRecords - 1, Written(L, M, k), NEW n
  PROVE  ExtentIn(M, k + 1, n) = After(M[k + 1], ExtentIn(L, k, n), n)
<1>1. k \in Nat /\ ExtentIn(M, k, n) = ExtentIn(L, k, n)
  BY WrittenSame, FFSAssumption
<1>2. CASE IsFor(M[k + 1], n)
  BY <1>1, <1>2, ExtentNew DEF After
<1>3. CASE ~ IsFor(M[k + 1], n)
  BY <1>1, <1>3, ExtentKept DEF After
<1>4. QED BY <1>2, <1>3

(* What keeps the log good: a torn slot, or a record whose file has a      *)
(* place in the directory and in the pool.                                 *)
Fitting(L, k, r) ==
  r.kind = "file" =>
    /\ r.off + r.size <= Pool
    /\ Few(Live(L, k) \cup {r.name})
    /\ \A n \in Names \ {r.name} : \A x \in ExtentIn(L, k, n) :
         x = [off |-> r.off, size |-> r.size] \/ Apart(x, [off |-> r.off, size |-> r.size])

(* A subset of few names is few.                                           *)
LEMMA FewSubset ==
  ASSUME NEW S, NEW T, Few(S), T \subseteq S
  PROVE  Few(T)
<1>1. IsFiniteSet(S) /\ Cardinality(S) <= MaxFiles /\ MaxFiles \in Nat
  BY FFSAssumption DEF Few
<1>2. IsFiniteSet(T) /\ Cardinality(T) <= Cardinality(S)
  BY <1>1, FS_Subset
<1>3. Cardinality(S) \in Nat /\ Cardinality(T) \in Nat
  BY <1>1, <1>2, FS_CardinalityType
<1>4. QED BY <1>1, <1>2, <1>3 DEF Few

(* Writing a record that fits behind a good log gives a good log.          *)
LEMMA WrittenGood ==
  ASSUME NEW L \in Logs, NEW M \in Logs, NEW k \in 0 .. LogRecords - 1, Written(L, M, k),
         InPool(L), \A j \in 0 .. k : Few(Live(L, j)), ApartTo(L, k), Fitting(L, k, M[k + 1])
  PROVE  GoodLog(M)
<1> DEFINE r == M[k + 1]
           e == [off |-> r.off, size |-> r.size]
<1>0. k \in Nat /\ k + 1 \in Slots /\ LogRecords \in Nat
  BY FFSAssumption DEF Slots
<1>1. EndOf(M) = k + 1 /\ Whole(M)
  BY WrittenEnd
<1>2. \A n : ExtentIn(M, k + 1, n) = After(r, ExtentIn(L, k, n), n)
  BY WrittenNew
<1>3. \/ r = Torn
      \/ r \in Records /\ r.kind \in {"file", "del"} /\ r.name \in Names
         /\ (r.kind = "file" => e \in Extents)
  BY <1>0, SlotIs DEF Written
<1>4. InPool(M)
  <2>1. ASSUME NEW j \in Slots, M[j].kind = "file" PROVE M[j].off + M[j].size <= Pool
    <3>1. CASE j \in 1 .. k
      BY <3>1, <2>1 DEF Written, InPool, Slots
    <3>2. CASE j = k + 1
      BY <3>2, <2>1 DEF Fitting
    <3>3. CASE j \in k + 2 .. LogRecords
      BY <3>3, <2>1 DEF Written, Erased
    <3>4. QED BY <3>1, <3>2, <3>3, <1>0 DEF Slots
  <2>2. QED BY <2>1 DEF InPool
<1>5. ASSUME NEW j \in 0 .. EndOf(M) PROVE Few(Live(M, j))
  <2>1. CASE j <= k
    <3>1. j \in 0 .. k
      BY <2>1, <1>5, <1>1
    <3>2. \A n : ExtentIn(M, j, n) = ExtentIn(L, j, n)
      BY <3>1, WrittenSame
    <3>3. Live(M, j) = Live(L, j)
      BY <3>2 DEF Live
    <3>4. QED BY <3>1, <3>3
  <2>2. CASE j = k + 1
    <3>1. CASE r.kind = "file"
      <4>1. Live(M, j) \subseteq Live(L, k) \cup {r.name}
        BY <1>2, <2>2, <3>1 DEF Live, After, IsFor
      <4>2. Few(Live(L, k) \cup {r.name})
        BY <3>1 DEF Fitting
      <4>3. QED BY <4>1, <4>2, FewSubset
    <3>2. CASE r.kind # "file"
      <4>1. Live(M, j) \subseteq Live(L, k)
        BY <1>2, <2>2, <3>2 DEF Live, After, IsFor
      <4>2. Few(Live(L, k))
        BY <1>0
      <4>3. QED BY <4>1, <4>2, FewSubset
    <3>3. QED BY <3>1, <3>2
  <2>3. QED BY <2>1, <2>2, <1>1, <1>5, <1>0
<1>6. FilesApart(M)
  <2> SUFFICES ASSUME NEW n \in Names, NEW m \in Names,
                      NEW x \in ExtentIn(M, k + 1, n), NEW y \in ExtentIn(M, k + 1, m)
               PROVE  x = y \/ Apart(x, y)
    BY <1>1 DEF FilesApart
  <2>1. x \in After(r, ExtentIn(L, k, n), n) /\ y \in After(r, ExtentIn(L, k, m), m)
    BY <1>2
  <2>2. x \in Extents /\ y \in Extents
    BY ExtentsOfLog, <1>0
  <2>3. (IsFor(r, n) => x = e /\ r.kind = "file" /\ n = r.name) /\ (~ IsFor(r, n) => x \in ExtentIn(L, k, n))
    BY <2>1 DEF After, IsFor
  <2>4. (IsFor(r, m) => y = e /\ r.kind = "file" /\ m = r.name) /\ (~ IsFor(r, m) => y \in ExtentIn(L, k, m))
    BY <2>1 DEF After, IsFor
  <2>5. CASE IsFor(r, n) /\ IsFor(r, m)
    BY <2>3, <2>4, <2>5
  <2>6. CASE IsFor(r, n) /\ ~ IsFor(r, m)
    <3>1. r.kind = "file" /\ m # r.name
      BY <2>3, <2>6 DEF IsFor
    <3>2. y = e \/ Apart(y, e)
      BY <3>1, <2>4, <2>6 DEF Fitting
    <3>3. QED BY <3>2, <2>3, <2>6, <2>2, ApartSym
  <2>7. CASE ~ IsFor(r, n) /\ IsFor(r, m)
    <3>1. r.kind = "file" /\ n # r.name
      BY <2>4, <2>7 DEF IsFor
    <3>2. x = e \/ Apart(x, e)
      BY <3>1, <2>3, <2>7 DEF Fitting
    <3>3. QED BY <3>2, <2>4, <2>7
  <2>8. CASE ~ IsFor(r, n) /\ ~ IsFor(r, m)
    BY <2>3, <2>4, <2>8 DEF ApartTo
  <2>9. QED BY <2>5, <2>6, <2>7, <2>8
<1>7. QED BY <1>1, <1>4, <1>5, <1>6 DEF GoodLog

-----------------------------------------------------------------------------
(* SpanInv: what a primitive does to the log in use.                       *)

(* A slot added to a log, or its last slot replaced.                       *)
LEMMA SlotAdded ==
  ASSUME NEW L, DOMAIN L = Slots, Whole(L), EndOf(L) < LogRecords, NEW r, r # Erased
  PROVE  Written(L, [L EXCEPT ![EndOf(L) + 1] = r], EndOf(L)) /\ EndOf(L) \in 0 .. LogRecords - 1
<1>1. EndOf(L) \in 0 .. LogRecords /\ Ends(L, EndOf(L)) /\ LogRecords \in Nat
  BY EndIs, FFSAssumption
<1>2. EndOf(L) + 1 \in Slots /\ 1 .. EndOf(L) \subseteq Slots /\ EndOf(L) + 2 .. LogRecords \subseteq Slots
  BY <1>1 DEF Slots
<1>3. \A i \in EndOf(L) + 2 .. LogRecords : L[i] = Erased
  BY <1>1, <1>2 DEF Whole
<1>4. \A i \in 1 .. EndOf(L) : L[i] # Erased
  BY <1>1 DEF Ends
<1>5. QED BY <1>1, <1>2, <1>3, <1>4 DEF Written

(* Programming the last slot in use again: the kind of a record, after its *)
(* body.                                                                   *)
LEMMA SlotReplaced ==
  ASSUME NEW L, DOMAIN L = Slots, Whole(L), EndOf(L) > 0, NEW r, r # Erased
  PROVE  Written(L, [L EXCEPT ![EndOf(L)] = r], EndOf(L) - 1) /\ EndOf(L) - 1 \in 0 .. LogRecords - 1
<1>1. EndOf(L) \in 0 .. LogRecords /\ Ends(L, EndOf(L)) /\ LogRecords \in Nat
  BY EndIs, FFSAssumption
<1>2. EndOf(L) \in Slots /\ 1 .. EndOf(L) \subseteq Slots /\ EndOf(L) + 1 .. LogRecords \subseteq Slots
  BY <1>1 DEF Slots
<1>3. \A i \in EndOf(L) + 1 .. LogRecords : L[i] = Erased
  BY <1>1, <1>2 DEF Whole
<1>4. \A i \in 1 .. EndOf(L) : L[i] # Erased
  BY <1>1 DEF Ends
<1>5. QED BY <1>1, <1>2, <1>3, <1>4 DEF Written

(* An erased log ends where it starts and describes no file.               *)
LEMMA EmptyLog == EndOf(ErasedLog) = 0 /\ Whole(ErasedLog) /\ \A n : ExtentIn(ErasedLog, 0, n) = {}
<1>1. Ends(ErasedLog, 0)
  BY FFSAssumption DEF Ends, ErasedLog, Slots
<1>2. EndOf(ErasedLog) = 0
  BY <1>1, EndUnique, FFSAssumption
<1>3. Whole(ErasedLog)
  BY <1>2 DEF Whole, ErasedLog
<1>4. QED BY <1>2, <1>3, ExtentNone

(* While the system is up, a mount would take the area in use.             *)
Mounted == UpPcs \cup {"replay"}

(* While mounted, the area in use is the one a mount would pick.           *)
LEMMA InUse ==
  ASSUME GenInv, pc \in Mounted
  PROVE  NewestArea = area /\ Valid(area) /\ area \in Areas /\ Other \in Areas /\ Other # area /\ 1 - Other = area
BY DEF GenInv, GenTypeOK, ActiveOutranks, NewestArea, Valid, Areas, Mounted, UpPcs, Other

(* A programmed record is neither erased nor torn.                         *)
LEMMA RecKind == Rec # Erased /\ Rec # Torn /\ Torn # Erased /\ \A n, o, s : FileRec(n, o, s) # Erased
BY DEF Rec, FileRec, DelRec, Erased, Torn

(* What a primitive does to the log in use and to where it ends.           *)
LEMMA AreaLog ==
  ASSUME GenInv, SpanInv, NEW e \in Effects, Primitive(e), pc \in UpPcs
  PROVE  /\ DOMAIN log' = Areas /\ \A a \in Areas : DOMAIN log'[a] = Slots
         /\ Whole(log'[area])
         /\ pc \in {"body", "body2"} /\ e # "nothing" =>
              EndOf(log'[area]) = logUsed /\ log'[area][logUsed] = Torn
              /\ Written(log[area], log'[area], logUsed - 1)
         /\ pc \in {"commit", "commit2"} /\ e = "done" =>
              log'[area][logUsed] = Rec /\ Written(log[area], log'[area], logUsed - 1)
         /\ ~ (pc \in {"body", "body2"} /\ e # "nothing") => EndOf(log'[area]) = EndOf(log[area])
         /\ ~ (pc \in {"body", "body2"} /\ e # "nothing") /\ ~ (pc \in {"commit", "commit2"} /\ e = "done") =>
              log'[area] = log[area]
<1> DEFINE L == log[area]
<1>1. Whole(L) /\ DOMAIN L = Slots /\ area \in Areas /\ Other \in Areas /\ Other # area /\ DOMAIN log = Areas
  BY InUse DEF SpanInv, SpanTypes, Mounted, Valid, Areas
<1>2. EndOf(L) \in 0 .. LogRecords /\ Ends(L, EndOf(L)) /\ LogRecords \in Nat
  BY EndIs, FFSAssumption
<1>3. CASE pc \in {"body", "body2"}
  <2>1. logUsed = EndOf(L) + 1 /\ EndOf(L) < LogRecords
    BY <1>3, <1>2 DEF SpanInv, UpPcs
  <2>2. ProgramBody(e)
    BY <1>3 DEF Primitive, Quiet
  <2>3. CASE e = "nothing"
    BY <2>2, <2>3, <1>1, <1>3 DEF ProgramBody, SpanInv, SpanTypes
  <2>4. CASE e # "nothing"
    <3>1. log'[area] = [L EXCEPT ![EndOf(L) + 1] = Torn]
      BY <2>1, <2>2, <2>4, <1>1 DEF ProgramBody
    <3>2. DOMAIN log' = Areas /\ \A a \in Areas : DOMAIN log'[a] = Slots
      BY <2>2, <2>4, <1>1 DEF ProgramBody, SpanInv, SpanTypes
    <3>3. Written(L, log'[area], EndOf(L)) /\ EndOf(L) \in 0 .. LogRecords - 1
      BY <3>1, <2>1, <1>1, SlotAdded, RecKind
    <3>4. EndOf(log'[area]) = logUsed /\ Whole(log'[area])
      BY <3>3, <2>1, WrittenEnd
    <3>5. log'[area][logUsed] = Torn
      BY <3>1, <2>1, <1>1, <1>2 DEF Slots
    <3>6. logUsed - 1 = EndOf(L)
      BY <2>1, <1>2
    <3>7. QED BY <3>2, <3>3, <3>4, <3>5, <3>6, <1>3, <2>4
  <2>5. QED BY <2>3, <2>4
<1>4. CASE pc \in {"commit", "commit2"}
  <2>1. logUsed = EndOf(L) /\ EndOf(L) > 0
    BY <1>4, <1>2 DEF SpanInv, UpPcs
  <2>2. ProgramCommit(e)
    BY <1>4 DEF Primitive, Quiet
  <2>3. CASE e # "done"
    BY <2>2, <2>3, <1>1, <1>4 DEF ProgramCommit, SpanInv, SpanTypes
  <2>4. CASE e = "done"
    <3>1. log'[area] = [L EXCEPT ![EndOf(L)] = Rec]
      BY <2>1, <2>2, <2>4, <1>1 DEF ProgramCommit
    <3>2. DOMAIN log' = Areas /\ \A a \in Areas : DOMAIN log'[a] = Slots
      BY <2>2, <2>4, <1>1 DEF ProgramCommit, SpanInv, SpanTypes
    <3>3. Written(L, log'[area], EndOf(L) - 1) /\ EndOf(L) - 1 \in 0 .. LogRecords - 1
      BY <3>1, <2>1, <1>1, SlotReplaced, RecKind
    <3>4. EndOf(log'[area]) = logUsed - 1 + 1 /\ Whole(log'[area])
      BY <3>3, <2>1, WrittenEnd
    <3>5. log'[area][logUsed] = Rec
      BY <3>1, <2>1, <1>1, <1>2 DEF Slots
    <3>6. EndOf(log'[area]) = EndOf(L)
      BY <3>4, <2>1, <1>2
    <3>7. QED BY <3>2, <3>3, <3>4, <3>5, <3>6, <2>1, <1>4, <2>4
  <2>5. QED BY <2>3, <2>4
<1>5. CASE pc \in {"idle", "reserve", "data", "swrite"}
  BY <1>5, <1>1 DEF Primitive, Quiet, ProgramData, flash, SpanInv, SpanTypes
<1>6. CASE pc = "super"
  BY <1>6, <1>1 DEF Primitive, Quiet, ProgramSuper, SpanInv, SpanTypes
<1>7. CASE pc = "copy"
  <2>1. PICK n \in left : CopyFile(n, e)
    BY <1>7 DEF Primitive, Quiet
  <2>2. QED BY <2>1, <1>7, <1>1 DEF CopyFile, Other, SpanInv, SpanTypes
<1>8. CASE pc = "erase"
  <2>1. EraseArea(Other, e)
    BY <1>8 DEF Primitive, Quiet, Other
  <2>2. QED BY <2>1, <1>8, <1>1 DEF EraseArea, flash, ErasedLog, SpanInv, SpanTypes
<1>9. QED BY <1>3, <1>4, <1>5, <1>6, <1>7, <1>8 DEF UpPcs

(* Elsewhere: what a primitive does to the area being laid out, and while  *)
(* formatting.                                                             *)
LEMMA QuietFlash ==
  ASSUME NEW e \in Effects, Primitive(e), pc \in Quiet
  PROVE  UNCHANGED flash
BY DEF Primitive, Quiet

(* Programming a superblock leaves logs and data alone.                    *)
LEMMA OtherLog ==
  ASSUME GenInv, SpanInv, NEW e \in Effects, Primitive(e), pc = "super"
  PROVE  log' = log /\ data' = data
BY DEF Primitive, Quiet, ProgramSuper

(* What formatting does to the logs.                                       *)
LEMMA FormatLog ==
  ASSUME GenInv, SpanInv, NEW e \in Effects, Primitive(e), pc \in {"erase1", "erase0", "format"}
  PROVE  /\ DOMAIN log' = Areas /\ \A a \in Areas : DOMAIN log'[a] = Slots
         /\ pc = "erase0" /\ e = "done" => log'[0] = ErasedLog
         /\ pc = "format" => log' = log
BY DEF Primitive, Quiet, EraseArea, ProgramSuper, flash, SpanInv, SpanTypes, ErasedLog, Areas

(* The log a mount would replay ends where it seems to, after any effect   *)
(* of any primitive.                                                       *)
LEMMA WholeKept ==
  ASSUME GenInv, SpanInv, NEW e \in Effects, Primitive(e)
  PROVE  /\ DOMAIN log' = Areas /\ \A a \in Areas : DOMAIN log'[a] = Slots
         /\ Valid(0)' \/ Valid(1)' => Whole(log[NewestArea])'
<1>1. CASE pc \in UpPcs
  <2>1. area \in Areas /\ Other \in Areas /\ Other # area /\ super \in [Areas -> Nat]
        /\ super[area] = gen /\ gen > super[Other] /\ gen \in Nat
    BY <1>1, InUse DEF GenInv, GenTypeOK, ActiveOutranks, Mounted, UpPcs, Other
  <2>2. DOMAIN log' = Areas /\ (\A a \in Areas : DOMAIN log'[a] = Slots) /\ Whole(log'[area])
    BY <1>1, AreaLog
  <2>3. super' = super \/ super' = [super EXCEPT ![Other] = 0] => NewestArea' = area
    BY <2>1 DEF NewestArea, Areas, Other
  <2>4. super' = super \/ super' = [super EXCEPT ![Other] = 0]
        \/ (pc = "super" /\ super' = [super EXCEPT ![Other] = gen + 1])
    BY <1>1, PrimitiveSuper DEF UpPcs, Other
  <2>5. CASE pc = "super" /\ super' = [super EXCEPT ![Other] = gen + 1]
    <3>1. NewestArea' = Other
      BY <2>1, <2>5 DEF NewestArea, Areas, Other
    <3>2. log' = log /\ Whole(log[Other])
      BY <2>5, OtherLog DEF SpanInv
    <3>3. QED BY <2>2, <3>1, <3>2
  <2>6. QED BY <2>2, <2>3, <2>4, <2>5
<1>2. CASE pc \in {"erase1", "erase0", "format"}
  <2>1. super \in [Areas -> Nat] /\ super[0] = 0 /\ super[1] = 0
    BY <1>2 DEF GenInv, GenTypeOK, Formatting
  <2>2. DOMAIN log' = Areas /\ (\A a \in Areas : DOMAIN log'[a] = Slots)
    BY <1>2, FormatLog
  <2>3. super' = super \/ (pc = "format" /\ super' = [super EXCEPT ![0] = 1])
    BY <1>2, PrimitiveSuper
  <2>4. CASE super' = super
    BY <2>1, <2>2, <2>4 DEF Valid
  <2>5. CASE pc = "format" /\ super' = [super EXCEPT ![0] = 1]
    <3>1. NewestArea' = 0
      BY <2>1, <2>5 DEF NewestArea, Areas
    <3>2. log' = log /\ log[0] = ErasedLog
      BY <2>5, FormatLog DEF SpanInv
    <3>3. QED BY <2>2, <3>1, <3>2, EmptyLog
  <2>6. QED BY <2>3, <2>4, <2>5
<1>3. CASE pc \in {"off", "mount", "replay", "unformatted", "nofs"}
  <2>1. UNCHANGED flash
    BY <1>3, QuietFlash DEF Quiet
  <2>2. QED BY <2>1 DEF flash, SpanInv, SpanTypes, NewestArea, Valid
<1>4. QED BY <1>1, <1>2, <1>3 DEF GenInv, GenTypeOK, Pcs, UpPcs

(* A call starts with the flash as it is.                                  *)
LEMMA CallsKeepFlash ==
  ASSUME Calls
  PROVE  log' = log /\ data' = data /\ fails' = fails /\ left' = left /\ cur' = cur /\ nrec' = nrec
<1> USE DEF Start, flash, ram
<1> DEFINE Goal == log' = log /\ data' = data /\ fails' = fails /\ left' = left /\ cur' = cur /\ nrec' = nrec
<1>1. ASSUME NEW n \in Names, NEW c \in Contents, Write(n, c) PROVE Goal
  BY <1>1 DEF Write
<1>2. ASSUME NEW n \in Names, Delete(n) PROVE Goal
  BY <1>2 DEF Delete
<1>3. ASSUME NEW n \in Names, NEW m \in Names, Rename(n, m) PROVE Goal
  BY <1>3 DEF Rename
<1>4. ASSUME NEW n \in Names, NEW size \in 0 .. MaxSize, StreamBegin(n, size) PROVE Goal
  BY <1>4 DEF StreamBegin
<1>5. ASSUME NEW v \in Vals, StreamWrite(v) PROVE Goal
  BY <1>5 DEF StreamWrite
<1>6. CASE StreamEnd
  BY <1>6 DEF StreamEnd
<1>7. CASE StreamAbort
  BY <1>7 DEF StreamAbort
<1>8. QED BY <1>1, <1>2, <1>3, <1>4, <1>5, <1>6, <1>7 DEF Calls

(* The steps of a call.                                                    *)
LEMMA SpanCalls ==
  ASSUME GenInv, SpanInv, Calls
  PROVE  SpanInv'
<1>0. pc = "idle" /\ log' = log /\ super' = super /\ area' = area /\ fails' = fails /\ nrec' = nrec
      /\ logUsed = EndOf(log[area]) /\ logUsed <= LogRecords /\ logUsed \in Nat /\ LogRecords \in Nat
  <2>1. logUsed = EndOf(log[area]) + 0 /\ logUsed <= LogRecords /\ LogRecords \in Nat /\ logUsed \in Nat
        /\ EndOf(log[area]) \in 0 .. LogRecords
    BY CallsKeepAreas, EndIs, FFSAssumption DEF SpanInv, UpPcs, SpanTypes
  <2>2. QED BY <2>1, CallsKeepAreas, CallsKeepFlash
<1>1. pc' \in {"idle", "swrite", "erase"} /\ logUsed' = logUsed => SpanInv'
  BY <1>0 DEF SpanInv, SpanTypes, Valid, NewestArea, UpPcs
<1>2. pc' = "data" /\ logUsed' = logUsed /\ logUsed < LogRecords /\ op'.kind # "rename" => SpanInv'
  BY <1>0 DEF SpanInv, SpanTypes, Valid, NewestArea, UpPcs
<1>3. pc' = "body" /\ logUsed' = logUsed + 1 /\ logUsed < LogRecords
      /\ (op'.kind = "rename" => logUsed + 1 < LogRecords) => SpanInv'
  BY <1>0 DEF SpanInv, SpanTypes, Valid, NewestArea, UpPcs
<1>4. ASSUME NEW n \in Names, NEW c \in Contents, Write(n, c) PROVE SpanInv'
  <2>1. op'.kind = "write"
    BY <1>4 DEF Write, Start, NoOp
  <2>2. CASE Room(Len(c))
    BY <1>4, <2>1, <2>2, <1>2, <1>3 DEF Write, Start, Room
  <2>3. CASE ~ Room(Len(c))
    BY <1>4, <2>3, <1>1 DEF Write, Start
  <2>4. QED BY <2>2, <2>3
<1>5. ASSUME NEW n \in Names, Delete(n) PROVE SpanInv'
  <2>1. op'.kind = "delete"
    BY <1>5 DEF Delete, Start, NoOp
  <2>2. QED BY <1>5, <2>1, <1>1, <1>3 DEF Delete, Start
<1>6. ASSUME NEW n \in Names, NEW m \in Names, Rename(n, m) PROVE SpanInv'
  <2>1. logUsed + 2 <= LogRecords => logUsed < LogRecords /\ logUsed + 1 < LogRecords
    BY <1>0
  <2>2. QED BY <1>6, <2>1, <1>1, <1>3 DEF Rename, Start
<1>7. ASSUME NEW n \in Names, NEW size \in 0 .. MaxSize, StreamBegin(n, size) PROVE SpanInv'
  BY <1>7, <1>1, <1>0 DEF StreamBegin, Start
<1>8. ASSUME NEW v \in Vals, StreamWrite(v) PROVE SpanInv'
  BY <1>8, <1>1, <1>0 DEF StreamWrite, Start, ram
<1>9. CASE StreamEnd
  <2>1. \/ pc' = "body" /\ logUsed' = logUsed + 1 /\ logUsed < LogRecords /\ op'.kind = "end"
        \/ pc' \in {"erase", "idle"} /\ logUsed' = logUsed
    BY <1>9 DEF StreamEnd, Start, NoOp
  <2>2. QED BY <2>1, <1>1, <1>3
<1>10. CASE StreamAbort
  BY <1>10, <1>1, <1>0 DEF StreamAbort
<1>11. QED BY <1>4, <1>5, <1>6, <1>7, <1>8, <1>9, <1>10 DEF Calls

-----------------------------------------------------------------------------
(* SpanInv, step by step.                                                  *)

(* SpanInv through power-up, mount and format.                             *)
LEMMA SpanMounts ==
  ASSUME GenInv, SpanInv,
         StartMount \/ ReplayRecord \/ EndMount \/ PowerOn \/ Format \/ ReserveAfterCompaction
  PROVE  SpanInv'
<1>0. \A a : EndOf(log[a]) \in 0 .. LogRecords /\ Ends(log[a], EndOf(log[a]))
  BY EndIs
<1>00. LogRecords \in Nat /\ logUsed \in Nat
  BY FFSAssumption DEF SpanInv, SpanTypes
<1>1. CASE StartMount
  BY <1>1, <1>0, <1>00 DEF StartMount, flash, SpanInv, SpanTypes, Valid, NewestArea, UpPcs
<1>2. CASE ReplayRecord
  <2>1. logUsed <= EndOf(log[area]) /\ logUsed < LogRecords /\ log[area][logUsed + 1] # Erased
    BY <1>2, <1>0, <1>00 DEF ReplayRecord, AtLogEnd, SpanInv
  <2>2. logUsed # EndOf(log[area])
    BY <2>1, <1>0, <1>00 DEF Ends
  <2>3. logUsed + 1 <= EndOf(log[area])
    BY <2>1, <2>2, <1>0, <1>00
  <2>4. UNCHANGED <<super, log, area, pc, nrec, fails, op>> /\ logUsed' = logUsed + 1 /\ pc = "replay"
    BY <1>2 DEF ReplayRecord, flash
  <2>5. QED BY <2>3, <2>4, <1>00 DEF SpanInv, SpanTypes, Valid, NewestArea, UpPcs
<1>3. CASE EndMount
  <2>1. logUsed <= EndOf(log[area]) /\ (logUsed < LogRecords => log[area][logUsed + 1] = Erased)
    BY <1>3 DEF EndMount, AtLogEnd, SpanInv
  <2>2. logUsed = EndOf(log[area])
    <3>1. ASSUME logUsed < EndOf(log[area]) PROVE FALSE
      <4>1. logUsed + 1 \in 1 .. EndOf(log[area]) /\ logUsed < LogRecords
        BY <3>1, <1>0, <1>00
      <4>2. QED BY <4>1, <2>1, <1>0 DEF Ends
    <3>2. QED BY <3>1, <2>1, <1>0, <1>00
  <2>3. UNCHANGED <<super, log, area, logUsed, nrec, fails>> /\ pc' \in {"idle", "reserve"}
    BY <1>3 DEF EndMount, flash, Finish
  <2>4. logUsed <= LogRecords /\ logUsed = EndOf(log[area]) + 0
    BY <2>2, <1>0, <1>00
  <2>5. QED BY <2>3, <2>4 DEF SpanInv, SpanTypes, Valid, NewestArea, UpPcs
<1>4. CASE PowerOn
  BY <1>4 DEF PowerOn, flash, ram, SpanInv, SpanTypes, Valid, NewestArea, UpPcs
<1>5. CASE Format
  BY <1>5 DEF Format, flash, ram, SpanInv, SpanTypes, Valid, NewestArea, UpPcs
<1>6. CASE ReserveAfterCompaction
  BY <1>6 DEF ReserveAfterCompaction, Finish, flash, SpanInv, SpanTypes, Valid, NewestArea, UpPcs
<1>7. QED BY <1>1, <1>2, <1>3, <1>4, <1>5, <1>6

(* SpanInv through the steps that append a record.                         *)
LEMMA SpanSteps ==
  ASSUME GenInv, SpanInv,
         DataProgrammed \/ StreamProgrammed \/ BodyProgrammed \/ Linked \/ Committed
  PROVE  SpanInv'
<1> DEFINE L == log[area]
<1>0. EndOf(L) \in 0 .. LogRecords /\ Ends(L, EndOf(L)) /\ LogRecords \in Nat /\ logUsed \in Nat
  BY EndIs, FFSAssumption DEF SpanInv, SpanTypes
<1>1. pc \in {"data", "swrite", "body", "body2", "commit", "commit2"}
  BY DEF DataProgrammed, StreamProgrammed, BodyProgrammed, Linked, Committed
<1>2. UNCHANGED <<area, fails, nrec>>
  BY DEF DataProgrammed, StreamProgrammed, BodyProgrammed, Linked, Committed, ram
<1>3. Primitive("done")
  BY DEF DataProgrammed, StreamProgrammed, BodyProgrammed, Linked, Committed, Succeeds
<1>4. /\ DOMAIN log' = Areas /\ \A a \in Areas : DOMAIN log'[a] = Slots
      /\ Valid(0)' \/ Valid(1)' => Whole(log[NewestArea])'
  BY <1>3, WholeKept DEF Effects
<1>5. /\ pc \in {"body", "body2"} => EndOf(log'[area]) = logUsed /\ log'[area][logUsed] = Torn
      /\ pc \notin {"body", "body2"} => EndOf(log'[area]) = EndOf(L)
  BY <1>1, <1>3, AreaLog DEF Effects, UpPcs
<1>6. SpanTypes' /\ fails' = fails /\ fails \in Nat /\ fails <= FailBudget
      /\ (FailBudget = 0 \/ "nothing" \notin FailEffects)
  <2>1. logUsed' = logUsed \/ logUsed' = logUsed + 1
    BY DEF DataProgrammed, StreamProgrammed, BodyProgrammed, Linked, Committed, ram
  <2>2. logUsed' \in Nat
    BY <2>1, <1>0
  <2>3. QED BY <1>2, <1>4, <2>2 DEF SpanInv, SpanTypes
<1>7. EndOf(log'[area]) \in 0 .. LogRecords
  BY EndIs
<1>8. CASE DataProgrammed
  <2>1. pc = "data" /\ pc' = "body" /\ logUsed' = logUsed + 1 /\ op' = op
    BY <1>8 DEF DataProgrammed
  <2>2. logUsed = EndOf(L) /\ logUsed < LogRecords
    BY <2>1, <1>0 DEF SpanInv, UpPcs
  <2>3. op.kind # "rename"
    BY <2>1 DEF SpanInv
  <2>4. QED BY <2>1, <2>2, <2>3, <1>0, <1>2, <1>4, <1>5, <1>6 DEF SpanInv, UpPcs
<1>9. CASE StreamProgrammed
  <2>1. pc = "swrite" /\ pc' = "idle" /\ logUsed' = logUsed
    BY <1>9 DEF StreamProgrammed, Finish
  <2>2. QED BY <2>1, <1>0, <1>2, <1>4, <1>5, <1>6 DEF SpanInv, UpPcs
<1>10. CASE BodyProgrammed
  <2>1. pc \in {"body", "body2"} /\ pc' = (IF pc = "body" THEN "commit" ELSE "commit2") /\ logUsed' = logUsed /\ op' = op
    BY <1>10 DEF BodyProgrammed, ram
  <2>2. logUsed = EndOf(L) + 1 /\ logUsed <= LogRecords
    BY <2>1 DEF SpanInv, UpPcs
  <2>3. pc = "body" /\ op.kind = "rename" => logUsed < LogRecords
    BY DEF SpanInv
  <2>4. QED BY <2>1, <2>2, <2>3, <1>0, <1>2, <1>4, <1>5, <1>6 DEF SpanInv, UpPcs
<1>11. CASE Linked
  <2>1. pc = "commit" /\ pc' = "body2" /\ logUsed' = logUsed + 1 /\ op' = op /\ op.kind = "rename"
    BY <1>11 DEF Linked
  <2>2. logUsed = EndOf(L) + 0 /\ logUsed < LogRecords
    BY <2>1 DEF SpanInv, UpPcs
  <2>3. QED BY <2>1, <2>2, <1>0, <1>2, <1>4, <1>5, <1>6 DEF SpanInv, UpPcs
<1>12. CASE Committed
  <2>1. pc \in {"commit", "commit2"} /\ pc' = "idle" /\ logUsed' = logUsed
    BY <1>12 DEF Committed, Finish
  <2>2. logUsed = EndOf(L) + 0 /\ logUsed <= LogRecords
    BY <2>1 DEF SpanInv, UpPcs
  <2>3. QED BY <2>1, <2>2, <1>0, <1>2, <1>4, <1>5, <1>6 DEF SpanInv, UpPcs
<1>13. QED BY <1>8, <1>9, <1>10, <1>11, <1>12

(* SpanInv through compaction and the steps of a format.                   *)
LEMMA SpanLayOut ==
  ASSUME GenInv, SpanInv, AreaErased \/ FileCopied \/ SuperProgrammed \/ FormatStep
  PROVE  SpanInv'
<1>0. LogRecords \in Nat /\ nrec \in 0 .. LogRecords
  BY FFSAssumption DEF SpanInv, SpanTypes
<1>1. PICK e \in Effects : Primitive(e) /\ e = "done"
  BY DEF AreaErased, FileCopied, SuperProgrammed, FormatStep, Succeeds, Primitive, Effects
<1>2. /\ DOMAIN log' = Areas /\ \A a \in Areas : DOMAIN log'[a] = Slots
      /\ Valid(0)' \/ Valid(1)' => Whole(log[NewestArea])'
  BY <1>1, WholeKept
<1>3. UNCHANGED <<area, logUsed, fails>>
  BY DEF AreaErased, FileCopied, SuperProgrammed, FormatStep, ram
<1>4. CASE pc \in {"erase", "copy"}
  <2>1. area \in Areas /\ Other \in Areas /\ Other # area /\ DOMAIN log = Areas /\ Other' = Other
        /\ super \in [Areas -> Nat]
    BY <1>4, <1>3, InUse DEF SpanInv, SpanTypes, Mounted, UpPcs, Other, GenInv, GenTypeOK
  <2>2. EndOf(log'[area]) = EndOf(log[area])
    BY <1>1, <1>4, AreaLog DEF UpPcs
  <2>3. pc' \in {"copy", "super"}
    BY <1>4 DEF AreaErased, FileCopied, SuperProgrammed, FormatStep
  <2>4. super'[Other] = 0 /\ Whole(log'[Other]) /\ EndOf(log'[Other]) = nrec' /\ nrec' \in 0 .. LogRecords
    <3>1. CASE AreaErased
      <4>1. EraseArea(Other, "done") /\ nrec' = 0
        BY <3>1 DEF AreaErased, Succeeds, Primitive, Quiet, Other
      <4>2. log'[Other] = ErasedLog /\ super'[Other] = 0
        BY <4>1, <2>1 DEF EraseArea, ErasedLog
      <4>3. QED BY <4>1, <4>2, EmptyLog, <1>0
    <3>2. CASE FileCopied
      <4>1. PICK n \in left : nrec < LogRecords /\ CopyFile(n, "done") /\ nrec' = nrec + 1
        BY <3>2 DEF FileCopied
      <4>2. pc = "copy"
        BY <3>2 DEF FileCopied
      <4>3. super[Other] = 0 /\ Whole(log[Other]) /\ EndOf(log[Other]) = nrec
        BY <4>2 DEF SpanInv
      <4>4. PICK r : r # Erased /\ log' = [log EXCEPT ![Other][nrec + 1] = r]
        BY <4>1, RecKind DEF CopyFile, Other
      <4>5. log'[Other] = [log[Other] EXCEPT ![nrec + 1] = r]
        BY <4>4, <2>1
      <4>6. Written(log[Other], log'[Other], nrec)
        BY <4>5, <4>3, <4>4, <4>1, <2>1, SlotAdded DEF SpanInv, SpanTypes
      <4>7. nrec \in 0 .. LogRecords - 1
        BY <1>0, <4>1
      <4>8. EndOf(log'[Other]) = nrec + 1 /\ Whole(log'[Other])
        BY <4>6, <4>7, WrittenEnd
      <4>9. super' = super
        BY <4>1 DEF CopyFile
      <4>10. QED BY <1>0, <4>1, <4>3, <4>7, <4>8, <4>9
    <3>3. QED BY <1>4, <3>1, <3>2 DEF SuperProgrammed, FormatStep
  <2>5. logUsed = EndOf(log[area]) + 0 /\ logUsed <= LogRecords
    BY <1>4 DEF SpanInv, UpPcs
  <2>6. QED BY <1>2, <1>3, <2>1, <2>2, <2>3, <2>4, <2>5 DEF SpanInv, SpanTypes, UpPcs
<1>5. CASE pc = "super"
  <2>1. pc' = "mount" /\ nrec' = nrec
    BY <1>5 DEF AreaErased, FileCopied, SuperProgrammed, FormatStep
  <2>2. QED BY <1>2, <1>3, <2>1 DEF SpanInv, SpanTypes, UpPcs
<1>6. CASE pc \in {"erase1", "erase0", "format"}
  <2>1. nrec' = nrec /\ pc' \in {"erase0", "format", "mount"} /\ (pc' = "format" => pc = "erase0")
    BY <1>6 DEF AreaErased, FileCopied, SuperProgrammed, FormatStep
  <2>2. pc = "erase0" => log'[0] = ErasedLog
    BY <1>1, <1>6, FormatLog
  <2>3. QED BY <1>2, <1>3, <2>1, <2>2 DEF SpanInv, SpanTypes, UpPcs
<1>7. QED BY <1>4, <1>5, <1>6 DEF AreaErased, FileCopied, SuperProgrammed, FormatStep

(* A refused or failing primitive, and the power going.  That a record is  *)
(* refused, or not even begun, is ruled out: the slot is erased.           *)
LEMMA SlotErased ==
  ASSUME GenInv, SpanInv, pc \in {"body", "body2"}
  PROVE  log[area][logUsed] = Erased
<1>1. EndOf(log[area]) \in 0 .. LogRecords /\ Ends(log[area], EndOf(log[area])) /\ LogRecords \in Nat
  BY EndIs, FFSAssumption
<1>2. logUsed = EndOf(log[area]) + 1 /\ logUsed <= LogRecords
  BY DEF SpanInv, UpPcs
<1>3. QED BY <1>1, <1>2 DEF Ends

(* SpanInv through a failing primitive (one that failed after doing        *)
(* something).                                                             *)
LEMMA SpanFail ==
  ASSUME GenInv, SpanInv, Fail
  PROVE  SpanInv'
<1>0. EndOf(log[area]) \in 0 .. LogRecords /\ LogRecords \in Nat
  BY EndIs, FFSAssumption
<1>1. PICK e \in Effects : Primitive(e) /\ (pc \in {"body", "body2"} => e # "nothing")
  <2>1. CASE Refused
    <3>1. Primitive("nothing") /\ "nothing" \in Effects
      BY <2>1 DEF Fail, Effects
    <3>2. pc \notin {"body", "body2"}
      BY <2>1, SlotErased DEF Refused
    <3>3. QED BY <3>1, <3>2
  <2>2. CASE ~ Refused
    <3>1. fails < FailBudget /\ \E e \in FailEffects : Primitive(e)
      BY <2>2 DEF Fail
    <3>2. "nothing" \notin FailEffects
      BY <3>1 DEF SpanInv
    <3>3. QED BY <3>1, <3>2, FFSAssumption
  <2>3. QED BY <2>1, <2>2
<1>2. /\ DOMAIN log' = Areas /\ \A a \in Areas : DOMAIN log'[a] = Slots
      /\ Valid(0)' \/ Valid(1)' => Whole(log[NewestArea])'
  BY <1>1, WholeKept
<1>3. UNCHANGED <<area, logUsed, nrec>>
  BY DEF Fail
<1>4. fails' \in Nat /\ fails' <= FailBudget /\ (FailBudget = 0 \/ "nothing" \notin FailEffects)
  BY FFSAssumption DEF Fail, SpanInv
<1>5. SpanTypes'
  BY <1>2, <1>3 DEF SpanInv, SpanTypes
<1>6. CASE pc' \in {"nofs", "mount"}
  BY <1>2, <1>3, <1>4, <1>5, <1>6 DEF SpanInv, UpPcs
<1>7. CASE pc' = "idle"
  <2>1. pc \in {"data", "swrite", "body", "commit"}
    BY <1>7 DEF Fail, Finish
  <2>2. pc = "body" => EndOf(log'[area]) = logUsed
    BY <2>1, <1>1, AreaLog DEF UpPcs
  <2>3. pc # "body" => EndOf(log'[area]) = EndOf(log[area])
    BY <2>1, <1>1, AreaLog DEF UpPcs
  <2>4. logUsed <= LogRecords /\ (pc # "body" => logUsed = EndOf(log[area]) + 0)
    BY <2>1 DEF SpanInv, UpPcs
  <2>5. EndOf(log'[area]) = logUsed
    BY <2>2, <2>3, <2>4, <1>0
  <2>6. logUsed = EndOf(log'[area]) + 0
    BY <2>5, <1>0 DEF SpanInv, SpanTypes
  <2>7. QED BY <2>4, <2>6, <1>2, <1>3, <1>4, <1>5, <1>7 DEF SpanInv, UpPcs
<1>8. QED BY <1>6, <1>7 DEF Fail, Finish

(* SpanInv through a power cut.                                            *)
LEMMA SpanCrash ==
  ASSUME GenInv, SpanInv, Crash
  PROVE  SpanInv'
<1>1. PICK e \in Effects : Primitive(e)
  BY DEF Crash
<1>2. /\ DOMAIN log' = Areas /\ \A a \in Areas : DOMAIN log'[a] = Slots
      /\ Valid(0)' \/ Valid(1)' => Whole(log[NewestArea])'
  BY <1>1, WholeKept
<1>3. pc' = "off" /\ logUsed' = 0 /\ nrec' = 0 /\ fails' = fails
  BY DEF Crash
<1>4. QED BY <1>2, <1>3, FFSAssumption DEF SpanInv, SpanTypes, UpPcs

(* SpanInv is inductive, given that the areas are told apart.              *)
LEMMA SpanInvStep == GenInv /\ SpanInv /\ [Next]_vars => SpanInv'
<1> SUFFICES ASSUME GenInv, SpanInv, [Next]_vars PROVE SpanInv'
  OBVIOUS
<1>1. CASE UNCHANGED vars
  BY <1>1 DEF vars, SpanInv, SpanTypes, Valid, NewestArea, UpPcs, Other
<1>2. QED
  BY <1>1, SpanCalls, SpanMounts, SpanSteps, SpanLayOut, SpanFail, SpanCrash DEF Next, Steps

(* SpanInv holds of a flash that was never formatted.                      *)
LEMMA SpanStarts ==
  ASSUME Init, FailBudget = 0 \/ "nothing" \notin FailEffects
  PROVE  SpanInv
BY FFSAssumption DEF Init, SpanInv, SpanTypes, Valid, UpPcs, Areas, Slots, ErasedLog

(* So does GenInv.                                                         *)
LEMMA GenStarts == Init => GenInv
BY DEF Init, GenInv, GenTypeOK, ActiveOutranks, Areas, Pcs, Formatting

(* A log without a gap hides no record from mount().                       *)
LEMMA SpanWins ==
  ASSUME SpanInv
  PROVE  NewestRecordWins
<1> SUFFICES ASSUME Valid(0) \/ Valid(1), NEW n \in Names
             PROVE  Newest(NewestArea, LogRecords, n) <= LogEnd(NewestArea)
  BY DEF NewestRecordWins
<1> DEFINE L == log[NewestArea]
           j == NewestIn(L, LogRecords, n)
<1>1. Newest(NewestArea, LogRecords, n) = j /\ LogEnd(NewestArea) = EndOf(L)
  BY DEF Newest, NewestIn, IsNewest, LogEnd, EndOf, Ends
<1>2. j \in 0 .. LogRecords /\ IsNewest(L, LogRecords, n, j) /\ EndOf(L) \in 0 .. LogRecords
  BY NewestIs, EndIs, FFSAssumption
<1>3. Whole(L)
  BY DEF SpanInv
<1>4. j \in Slots /\ j > EndOf(L) => L[j] = Erased
  BY <1>3 DEF Whole
<1>5. j # 0 => IsFor(L[j], n)
  BY <1>2 DEF IsNewest
<1>6. QED BY <1>1, <1>2, <1>4, <1>5, KindsDiffer, FFSAssumption DEF Slots

-----------------------------------------------------------------------------
(* Reading and programming a data pool.                                    *)

(* Reading from a pool gives as many cells as were asked for.              *)
LEMMA ReadTyped ==
  ASSUME NEW D \in Pools, NEW off \in Nat, NEW size \in Nat, off + size <= Pool
  PROVE  ReadOf(D, off, size) \in [1 .. size -> Cells] /\ ReadOf(D, off, size) \in Seq(Cells)
         /\ Len(ReadOf(D, off, size)) = size
<1>1. ReadOf(D, off, size) \in [1 .. size -> Cells]
  BY FFSAssumption DEF ReadOf, Pools, Units
<1>2. QED BY <1>1

(* What is read depends only on the cells read.                            *)
LEMMA ReadSame ==
  ASSUME NEW D, NEW B, NEW off, NEW size, \A i \in 1 .. size : D[off + i - 1] = B[off + i - 1]
  PROVE  ReadOf(D, off, size) = ReadOf(B, off, size)
BY DEF ReadOf

(* Programming cells leaves cells.                                         *)
LEMMA ProgramTyped ==
  ASSUME NEW D \in Pools, NEW off \in Nat, NEW s \in Seq(Cells)
  PROVE  Program(D, off, s) \in Pools
<1>1. ASSUME NEW u \in Units, u \in off .. off + Len(s) - 1 PROVE s[u - off + 1] \in Cells
  <2>1. u - off + 1 \in 1 .. Len(s)
    BY <1>1, FFSAssumption DEF Units
  <2>2. QED BY <2>1
<1>2. QED BY <1>1 DEF Program, Pools

(* What was programmed can be read back.                                   *)
LEMMA ProgramReads ==
  ASSUME NEW D \in Pools, NEW off \in Nat, NEW s \in Seq(Cells), off + Len(s) <= Pool
  PROVE  ReadOf(Program(D, off, s), off, Len(s)) = s
<1>1. ASSUME NEW i \in 1 .. Len(s) PROVE Program(D, off, s)[off + i - 1] = s[i]
  <2>1. off + i - 1 \in Units /\ off + i - 1 \in off .. off + Len(s) - 1 /\ (off + i - 1) - off + 1 = i
    BY FFSAssumption DEF Units
  <2>2. QED BY <2>1 DEF Program
<1>2. s = [i \in 1 .. Len(s) |-> s[i]]
  OBVIOUS
<1>3. ReadOf(Program(D, off, s), off, Len(s)) = [i \in 1 .. Len(s) |-> Program(D, off, s)[off + i - 1]]
  BY DEF ReadOf
<1>4. QED BY <1>1, <1>2, <1>3

(* Programming leaves the cells elsewhere alone.                           *)
LEMMA ProgramElsewhere ==
  ASSUME NEW D, NEW off \in Nat, NEW s, Len(s) \in Nat, NEW u \in Units, u < off \/ u >= off + Len(s)
  PROVE  Program(D, off, s)[u] = D[u]
BY FFSAssumption DEF Program, Units

(* Whatever the effect of programming s, the cells elsewhere keep what     *)
(* they hold; if it succeeds, s can be read back.                          *)
LEMMA Programmed ==
  ASSUME data \in [Areas -> Pools], area \in Areas, NEW off \in Nat, NEW s \in Seq(Cells), off + Len(s) <= Pool,
         NEW e \in Effects, ProgramData(off, s, e)
  PROVE  /\ data' \in [Areas -> Pools] /\ UNCHANGED <<super, log>>
         /\ \A a \in Areas \ {area} : data'[a] = data[a]
         /\ \A u \in Units : u < off \/ u >= off + Len(s) => data'[area][u] = data[area][u]
         /\ e = "done" => ReadOf(data'[area], off, Len(s)) = s
<1> DEFINE D == data[area]
<1>0. UNCHANGED <<super, log>> /\ D \in Pools /\ Len(s) \in Nat
  BY DEF ProgramData
<1>1. CASE UNCHANGED data /\ (e = "nothing" \/ Reads(D, off, s))
  <2>1. e = "done" => Reads(D, off, s)
    BY <1>1
  <2>2. Reads(D, off, s) => ReadOf(D, off, Len(s)) = s
    <3>1. s = [i \in 1 .. Len(s) |-> s[i]]
      OBVIOUS
    <3>2. QED BY <3>1 DEF Reads, ReadOf
  <2>3. QED BY <1>0, <1>1, <2>1, <2>2
<1>2. CASE e = "done" /\ data' = [data EXCEPT ![area] = Program(D, off, s)]
  <2>1. data'[area] = Program(D, off, s) /\ \A a \in Areas \ {area} : data'[a] = data[a]
    BY <1>2
  <2>2. Program(D, off, s) \in Pools
    BY <1>0, ProgramTyped
  <2>3. data' \in [Areas -> Pools]
    BY <1>2, <2>2
  <2>4. ReadOf(data'[area], off, Len(s)) = s
    BY <2>1, <1>0, ProgramReads
  <2>5. ASSUME NEW u \in Units, u < off \/ u >= off + Len(s) PROVE data'[area][u] = D[u]
    <3>1. Program(D, off, s)[u] = D[u]
      BY <1>0, <2>5, ProgramElsewhere
    <3>2. QED BY <2>1, <3>1
  <2>6. QED BY <1>0, <2>1, <2>3, <2>4, <2>5
<1>3. CASE e = "partial" /\ \E d \in Spoiled(D, off, s) : data' = [data EXCEPT ![area] = d]
  <2>1. PICK k \in 0 .. Len(s) - 1 : data' = [data EXCEPT ![area] = Program(D, off, SubSeq(s, 1, k) \o <<Junk>>)]
    BY <1>3 DEF Spoiled
  <2> DEFINE t == SubSeq(s, 1, k) \o <<Junk>>
  <2>2. t \in Seq(Cells) /\ Len(t) = k + 1
    <3>1. SubSeq(s, 1, k) \in Seq(Cells) /\ Len(SubSeq(s, 1, k)) = k
      BY <1>0, SubSeqProperties
    <3>2. <<Junk>> \in Seq(Cells) /\ Len(<<Junk>>) = 1
      BY DEF Cells
    <3>3. QED BY <3>1, <3>2, ConcatProperties
  <2> HIDE DEF t
  <2>3. data'[area] = Program(D, off, t) /\ \A a \in Areas \ {area} : data'[a] = data[a]
    BY <2>1 DEF t
  <2>4. Program(D, off, t) \in Pools
    BY <1>0, <2>2, ProgramTyped
  <2>5. data' \in [Areas -> Pools]
    BY <2>1, <2>4 DEF t
  <2>6. ASSUME NEW u \in Units, u < off \/ u >= off + Len(s) PROVE data'[area][u] = D[u]
    <3>1. u < off \/ u >= off + Len(t)
      BY <2>2, <2>6, <1>0, FFSAssumption DEF Units
    <3>2. Len(t) \in Nat
      BY <2>2
    <3>3. QED BY <2>3, <3>1, <3>2, ProgramElsewhere
  <2>7. QED BY <1>0, <1>3, <2>3, <2>5, <2>6
<1>4. QED BY <1>1, <1>2, <1>3 DEF ProgramData, Effects

-----------------------------------------------------------------------------
(* While the system is up: log, directory and files.                       *)

(* What the flash holds, by the log and the pool of the area in use.       *)
LEMMA FileOfIs ==
  ASSUME NEW L, NEW D, NEW n
  PROVE  /\ ExtentIn(L, EndOf(L), n) = {} => FileOf(L, D, n) = Absent
         /\ \A x \in ExtentIn(L, EndOf(L), n) : FileOf(L, D, n) = ReadOf(D, x.off, x.size)
<1> DEFINE j == NewestIn(L, EndOf(L), n)
<1>1. CASE j # 0 /\ L[j].kind = "file"
  <2>1. ExtentIn(L, EndOf(L), n) = {[off |-> L[j].off, size |-> L[j].size]}
    BY <1>1 DEF ExtentIn
  <2>2. FileOf(L, D, n) = ReadOf(D, L[j].off, L[j].size)
    BY <1>1 DEF FileOf
  <2>3. ASSUME NEW x \in ExtentIn(L, EndOf(L), n) PROVE FileOf(L, D, n) = ReadOf(D, x.off, x.size)
    <3>1. x = [off |-> L[j].off, size |-> L[j].size]
      BY <2>1
    <3>2. x.off = L[j].off /\ x.size = L[j].size
      BY ONLY <3>1
    <3>3. QED BY <3>2, <2>2
  <2>4. QED BY <2>1, <2>3
<1>2. CASE ~ (j # 0 /\ L[j].kind = "file")
  <2>1. ExtentIn(L, EndOf(L), n) = {}
    BY <1>2 DEF ExtentIn
  <2>2. FileOf(L, D, n) = Absent
    BY <1>2 DEF FileOf
  <2>3. QED BY <2>1, <2>2
<1>3. QED BY <1>1, <1>2

(* DurableFiles in terms of the log and the data of the newest area.       *)
LEMMA DurableIs ==
  /\ Valid(0) \/ Valid(1) =>
       DurableFiles = [n \in Names |-> FileOf(log[NewestArea], data[NewestArea], n)]
  /\ super[0] = 0 /\ super[1] = 0 => DurableFiles = [n \in Names |-> Absent]
BY DEF DurableFiles, FileIn, Newest, NewestIn, LogEnd, EndOf, Ends, IsNewest, FileOf, Read, ReadOf, Valid

(* Described in terms of the log of the newest area.                       *)
LEMMA DescribedIs ==
  \A n : Described(NewestArea, LogEnd(NewestArea), n) = ExtentIn(log[NewestArea], EndOf(log[NewestArea]), n)
BY DEF Described, Newest, NewestIn, LogEnd, EndOf, Ends, IsNewest, ExtentIn

(* Read in terms of the data of the area.                                  *)
LEMMA ReadIs == \A a, off, size : Read(a, off, size) = ReadOf(data[a], off, size)
BY DEF Read, ReadOf

(* A file's contents are a sequence of values, of at most MaxSize.         *)
LEMMA ContentsAre ==
  ASSUME NEW c \in Contents
  PROVE  c \in Seq(Vals) /\ c \in Seq(Cells) /\ Len(c) \in 0 .. MaxSize
<1>1. PICK k \in 0 .. MaxSize : c \in [1 .. k -> Vals]
  BY DEF Contents
<1>2. k \in Nat /\ c \in [1 .. k -> Cells]
  BY <1>1, FFSAssumption DEF Cells
<1>3. QED BY <1>1, <1>2

(* A sequence of at most MaxSize values can be a file.                     *)
LEMMA SeqContents ==
  ASSUME NEW c \in Seq(Vals), Len(c) \in 0 .. MaxSize
  PROVE  c \in Contents
<1>1. c \in [1 .. Len(c) -> Vals]
  OBVIOUS
<1>2. QED BY <1>1 DEF Contents

(* A system that is up: the log, the directory and the pool it works with. *)
LEMMA UpLog ==
  ASSUME FSInv, pc \in UpPcs
  PROVE  /\ NewestArea = area /\ Valid(area) /\ area \in Areas /\ Other \in Areas /\ Other # area
         /\ Valid(0) \/ Valid(1)
         /\ log[area] \in Logs /\ DOMAIN log[area] = Slots /\ GoodLog(log[area]) /\ data[area] \in Pools
         /\ EndOf(log[area]) \in 0 .. LogRecords
<1>1. NewestArea = area /\ Valid(area) /\ area \in Areas /\ Other \in Areas /\ Other # area
  BY InUse DEF FSInv, Mounted
<1>2. Valid(0) \/ Valid(1)
  BY <1>1 DEF Areas
<1>3. log[area] \in Logs /\ data[area] \in Pools
  BY <1>1 DEF FSInv, TypeOK, Logs, Pools
<1>4. QED BY <1>1, <1>2, <1>3, EndIs DEF FSInv, FlashInv, Logs

(* While mounted, every file of the directory ends before Base.            *)
LEMMA UpExtents ==
  ASSUME FSInv, pc \in UpPcs \cup {"replay"}, NEW n \in DOMAIN dir
  PROVE  /\ n \in Names /\ dir[n] \in Extents /\ dir[n].off \in Nat /\ dir[n].size \in 0 .. MaxSize
         /\ dir[n].off + dir[n].size <= Base /\ Base \in 0 .. Pool /\ Base <= dataEnd /\ dataEnd \in 0 .. Pool
<1>1. n \in Names /\ dir[n] \in Extents /\ dir[n].off \in 0 .. Pool /\ dir[n].size \in 0 .. MaxSize
  BY DEF FSInv, TypeOK, Extents
<1>2. dir[n].off + dir[n].size <= Base
  BY DEF FSInv, SpaceInv
<1>3. dataEnd \in 0 .. Pool /\ op.off \in 0 .. Pool /\ op.size \in 0 .. MaxSize
  BY DEF FSInv, TypeOK, Ops
<1>4. Placing => dataEnd = op.off + op.size
  BY DEF FSInv, SpaceInv
<1>5. QED BY <1>1, <1>2, <1>3, <1>4, FFSAssumption DEF Base

(* What the directory says a file holds is what its extent reads as.       *)
LEMMA UpFileAt ==
  ASSUME FSInv, pc \in UpPcs \cup {"replay"}, NEW n \in DOMAIN dir
  PROVE  /\ FileAt(n) = ReadOf(data[area], dir[n].off, dir[n].size)
         /\ FileAt(n) \in Seq(Cells) /\ Len(FileAt(n)) = dir[n].size /\ Len(FileAt(n)) \in 0 .. MaxSize
<1>1. FileAt(n) = ReadOf(data[area], dir[n].off, dir[n].size)
  BY ReadIs DEF FileAt
<1>2. dir[n].off \in Nat /\ dir[n].size \in Nat /\ dir[n].off + dir[n].size <= Pool /\ dir[n].size \in 0 .. MaxSize
  BY UpExtents, FFSAssumption
<1>3. data[area] \in Pools
  BY DEF FSInv, TypeOK, Pools
<1>4. QED BY <1>1, <1>2, <1>3, ReadTyped

(* While the system is up, the log describes what the directory knows.     *)
LEMMA UpKnown ==
  ASSUME FSInv, pc \in UpPcs, NEW n \in Names
  PROVE  /\ ExtentIn(log[area], EndOf(log[area]), n) = Known(n)
         /\ n \in DOMAIN dir => Known(n) = {dir[n]}
         /\ n \notin DOMAIN dir /\ pc \in {"body2", "commit2"} /\ n = op.to => Known(n) = {dir[op.name]}
         /\ n \notin DOMAIN dir /\ ~ (pc \in {"body2", "commit2"} /\ n = op.to) => Known(n) = {}
BY DEF FSInv, DirInv, Known

(* What a rename in progress has looked up stays so.                       *)
LEMMA UpRename ==
  ASSUME FSInv, pc \in Adding \cup Laying, op.kind = "rename"
  PROVE  /\ op.name \in DOMAIN dir /\ op.to \notin DOMAIN dir /\ op.to \in Names /\ op.name \in Names /\ op.to # op.name
         /\ dir[op.name] = [off |-> op.off, size |-> op.size] /\ op.body = FileAt(op.name)
BY DEF FSInv, AskInv, OpInv, TypeOK

(* While the system is up, a mount would find what the directory knows.    *)
LEMMA UpDurable ==
  ASSUME FSInv, pc \in UpPcs, NEW n \in Names
  PROVE  /\ DurableFiles[n] = FileOf(log[area], data[area], n)
         /\ n \in DOMAIN dir => DurableFiles[n] = FileAt(n)
         /\ n \notin DOMAIN dir /\ pc \in {"body2", "commit2"} /\ n = op.to => DurableFiles[n] = FileAt(op.name)
         /\ n \notin DOMAIN dir /\ ~ (pc \in {"body2", "commit2"} /\ n = op.to) => DurableFiles[n] = Absent
<1>1. DurableFiles[n] = FileOf(log[area], data[area], n)
  BY DurableIs, UpLog
<1>2. \A x : ExtentIn(log[area], EndOf(log[area]), n) = {x} => DurableFiles[n] = ReadOf(data[area], x.off, x.size)
  BY <1>1, FileOfIs
<1>3. ExtentIn(log[area], EndOf(log[area]), n) = {} => DurableFiles[n] = Absent
  BY <1>1, FileOfIs
<1>4. \A m \in DOMAIN dir : FileAt(m) = ReadOf(data[area], dir[m].off, dir[m].size)
  BY UpFileAt
<1>5. n \in DOMAIN dir => DurableFiles[n] = FileAt(n)
  BY <1>2, <1>4, UpKnown
<1>6. pc \in {"body2", "commit2"} => op.name \in DOMAIN dir
  BY UpRename DEF FSInv, OpInv, Adding
<1>7. n \notin DOMAIN dir /\ pc \in {"body2", "commit2"} /\ n = op.to => DurableFiles[n] = FileAt(op.name)
  BY <1>2, <1>4, <1>6, UpKnown
<1>8. QED BY <1>1, <1>3, <1>5, <1>7, UpKnown

(* Two files of the directory are apart, or one file under two names.      *)
LEMMA UpApart ==
  ASSUME FSInv, pc \in UpPcs, NEW n \in DOMAIN dir, NEW m \in DOMAIN dir
  PROVE  dir[n] = dir[m] \/ Apart(dir[n], dir[m])
<1>1. n \in Names /\ m \in Names
  BY DEF FSInv, TypeOK
<1>2. ExtentIn(log[area], EndOf(log[area]), n) = {dir[n]} /\ ExtentIn(log[area], EndOf(log[area]), m) = {dir[m]}
  BY <1>1, UpKnown
<1>3. FilesApart(log[area])
  BY UpLog DEF GoodLog
<1>4. QED BY <1>1, <1>2, <1>3 DEF FilesApart

(* The log never describes more than MaxFiles files.                       *)
LEMMA UpFew ==
  ASSUME FSInv, pc \in UpPcs
  PROVE  /\ Few(Live(log[area], EndOf(log[area]))) /\ DOMAIN dir \subseteq Live(log[area], EndOf(log[area]))
         /\ pc \notin {"body2", "commit2"} => Live(log[area], EndOf(log[area])) = DOMAIN dir
         /\ Few(DOMAIN dir)
<1>1. Few(Live(log[area], EndOf(log[area])))
  BY UpLog DEF GoodLog
<1>2. DOMAIN dir \subseteq Names
  BY DEF FSInv, TypeOK
<1>3. DOMAIN dir \subseteq Live(log[area], EndOf(log[area]))
  BY <1>2, UpKnown DEF Live
<1>4. pc \notin {"body2", "commit2"} => Live(log[area], EndOf(log[area])) \subseteq DOMAIN dir
  BY UpKnown DEF Live
<1>5. QED BY <1>1, <1>3, <1>4, FewSubset

-----------------------------------------------------------------------------
(* Calls: the names they take and add.                                     *)

(* What a call in progress makes of the files.                             *)
Gone == IF op.kind \in {"delete", "rename"} THEN {op.name} ELSE {}
Added == IF op.kind \in {"write", "end"} THEN {op.name} ELSE IF op.kind = "rename" THEN {op.to} ELSE {}

(* The call in progress: the names it takes away and adds, and its outcome.*)
LEMMA OpFacts ==
  ASSUME FSInv, pc \in Adding \cup Laying
  PROVE  /\ op.kind \in Compacts /\ op.name \in Names /\ Gone \subseteq DOMAIN dir /\ Added \subseteq Names
         /\ Gone \cap Added = {} /\ DOMAIN dir \subseteq Names
         /\ op.kind = "rename" => op.to \notin DOMAIN dir
         /\ \A n \in Names : Outcome(op, n) = IF n \in Added THEN {op.body} ELSE IF n \in Gone THEN {Absent} ELSE {}
         /\ Added # {} => op.body \in Seq(Cells) /\ Len(op.body) \in 0 .. MaxSize
<1>1. op.kind \in Compacts
  BY DEF FSInv, OpInv, Adding, Laying, Compacts
<1>2. op.name \in Names /\ (op.to # Absent => op.kind = "rename") /\ (op.kind = "rename" => op.to \in Names \ {op.name})
      /\ DOMAIN dir \subseteq Names
  BY <1>1 DEF FSInv, OpInv, TypeOK
<1>3. (op.kind \in {"delete", "rename"} => op.name \in DOMAIN dir) /\ (op.kind = "rename" => op.to \notin DOMAIN dir)
  BY DEF FSInv, AskInv
<1>4. op.kind \in {"write", "end"} => op.body \in Seq(Cells) /\ Len(op.body) \in 0 .. MaxSize
  BY ContentsAre DEF FSInv, OpInv
<1>5. op.kind = "rename" => op.body \in Seq(Cells) /\ Len(op.body) \in 0 .. MaxSize
  <2>1. SUFFICES ASSUME op.kind = "rename" PROVE op.body \in Seq(Cells) /\ Len(op.body) \in 0 .. MaxSize
    OBVIOUS
  <2>2. op.name \in DOMAIN dir /\ op.body = FileAt(op.name)
    BY <2>1, UpRename
  <2>3. pc \in UpPcs
    BY DEF Adding, Laying, UpPcs
  <2>4. QED BY <2>2, <2>3, UpFileAt
<1>6. Absent \notin Names
  BY FFSAssumption
<1>7. \A n \in Names : n = op.to => op.kind = "rename"
  BY <1>2, <1>6
<1>8. \A n \in Names : Outcome(op, n) = IF n \in Added THEN {op.body} ELSE IF n \in Gone THEN {Absent} ELSE {}
  BY <1>2, <1>7 DEF Outcome, Added, Gone
<1>9. QED BY <1>1, <1>2, <1>3, <1>4, <1>5, <1>8 DEF Gone, Added

(* One more name is still few, if it is known or there is room.            *)
LEMMA FewMore ==
  ASSUME NEW S, Few(S), NEW x, x \in S \/ Cardinality(S) < MaxFiles
  PROVE  Few(S \cup {x})
<1>1. IsFiniteSet(S) /\ Cardinality(S) <= MaxFiles /\ MaxFiles \in Nat
  BY FFSAssumption DEF Few
<1>2. Cardinality(S) \in Nat
  BY <1>1, FS_CardinalityType
<1>3. IsFiniteSet(S \cup {x}) /\ Cardinality(S \cup {x}) = IF x \in S THEN Cardinality(S) ELSE Cardinality(S) + 1
  BY <1>1, FS_AddElement
<1>4. QED BY <1>1, <1>2, <1>3 DEF Few

(* Exchanging one name for another keeps the names few.                    *)
LEMMA FewSwap ==
  ASSUME NEW S, Few(S), NEW y \in S, NEW x
  PROVE  Few((S \ {y}) \cup {x})
<1>1. IsFiniteSet(S) /\ Cardinality(S) <= MaxFiles /\ MaxFiles \in Nat
  BY FFSAssumption DEF Few
<1>2. Cardinality(S) \in Nat
  BY <1>1, FS_CardinalityType
<1>3. IsFiniteSet(S \ {y}) /\ Cardinality(S \ {y}) = Cardinality(S) - 1
  BY <1>1, FS_RemoveElement
<1>4. Few(S \ {y}) /\ Cardinality(S \ {y}) < MaxFiles
  BY <1>1, <1>2, <1>3 DEF Few
<1>5. QED BY <1>4, FewMore

(* The files lay_out() copies: the directory's, with the call's change.    *)
LEMMA TargetIs ==
  ASSUME FSInv, pc \in Laying
  PROVE  /\ DOMAIN Target(op) = (DOMAIN dir \ Gone) \cup Added /\ DOMAIN Target(op) \subseteq Names
         /\ \A n \in Added : Target(op)[n] = op.body
         /\ \A n \in DOMAIN dir \ (Gone \cup Added) : Target(op)[n] = FileAt(n)
         /\ \A n \in DOMAIN Target(op) : Target(op)[n] \in Seq(Cells) /\ Len(Target(op)[n]) \in 0 .. MaxSize
         /\ Few(DOMAIN Target(op))
<1>1. DOMAIN Target(op) = (DOMAIN dir \ Gone) \cup Added
  BY DEF Target, Gone, Added
<1>2. \A n \in Added : Target(op)[n] = op.body
  <2>1. op.kind = "end" => op.body = Read(area, op.off, op.size)
    BY DEF FSInv, AskInv
  <2>2. op.kind = "rename" => op.body = FileAt(op.name)
    BY UpRename
  <2>3. QED BY <2>1, <2>2 DEF Target, Added
<1>3. \A n \in DOMAIN dir \ (Gone \cup Added) : Target(op)[n] = FileAt(n)
  BY DEF Target, Gone, Added
<1>4. Added \subseteq Names /\ DOMAIN dir \subseteq Names /\ Gone \subseteq DOMAIN dir
  BY OpFacts
<1>5. pc \in UpPcs
  BY DEF Laying, UpPcs
<1>6. ASSUME NEW n \in DOMAIN Target(op) PROVE Target(op)[n] \in Seq(Cells) /\ Len(Target(op)[n]) \in 0 .. MaxSize
  <2>1. CASE n \in Added
    BY <2>1, <1>2, OpFacts
  <2>2. CASE n \notin Added
    <3>1. n \in DOMAIN dir \ (Gone \cup Added)
      BY <2>2, <1>1
    <3>2. Target(op)[n] = FileAt(n) /\ n \in DOMAIN dir
      BY <3>1, <1>3
    <3>3. QED BY <3>2, <1>5, UpFileAt
  <2>3. QED BY <2>1, <2>2
<1>7. Few(DOMAIN Target(op))
  <2>0. Few(DOMAIN dir)
    BY <1>5, UpFew
  <2>1. CASE op.kind \in {"write", "end"}
    <3>1. NewFileFits(op.name)
      BY <2>1 DEF FSInv, AskInv
    <3>2. Few(DOMAIN dir \cup {op.name})
      BY <3>1, <2>0, FewMore DEF NewFileFits
    <3>3. DOMAIN Target(op) = DOMAIN dir \cup {op.name}
      BY <1>1, <2>1 DEF Gone, Added
    <3>4. QED BY <3>2, <3>3
  <2>2. CASE op.kind = "rename"
    <3>1. Few((DOMAIN dir \ {op.name}) \cup {op.to})
      BY <2>0, <2>2, UpRename, FewSwap
    <3>2. QED BY <3>1, <1>1, <2>2 DEF Gone, Added
  <2>3. CASE op.kind \notin {"write", "end", "rename"}
    <3>1. DOMAIN Target(op) \subseteq DOMAIN dir
      BY <1>1, <2>3 DEF Added
    <3>2. QED BY <3>1, <2>0, FewSubset
  <2>4. QED BY <2>1, <2>2, <2>3
<1>8. QED BY <1>1, <1>2, <1>3, <1>4, <1>6, <1>7

-----------------------------------------------------------------------------
(* Calls: the cells they use.                                              *)

(* Where the data of a write, and of the stream, goes.                     *)
LEMMA WriteSpan ==
  ASSUME FSInv, pc = "data"
  PROVE  /\ op.kind = "write" /\ op.body \in Seq(Cells) /\ Len(op.body) = op.size /\ op.off \in Nat /\ op.size \in Nat
         /\ op.off + op.size = dataEnd /\ dataEnd <= Pool /\ Base = op.off
         /\ \A u \in Units : u >= op.off => data[area][u] = Blank
<1>1. op.kind = "write" /\ op.body \in Seq(Cells) /\ Len(op.body) = op.size
  BY ContentsAre DEF FSInv, OpInv
<1>2. op.off \in Nat /\ op.size \in Nat /\ dataEnd <= Pool
  BY FFSAssumption DEF FSInv, TypeOK, Ops
<1>3. Placing
  BY <1>1 DEF Placing
<1>4. QED BY <1>1, <1>2, <1>3 DEF FSInv, SpaceInv, Base, UpPcs

(* Where the open stream lies: before Base and apart from every file.      *)
LEMMA StreamSpan ==
  ASSUME FSInv, stream.active, pc \in UpPcs
  PROVE  /\ stream.start \in Nat /\ stream.size \in Nat /\ stream.written \in Nat /\ stream.written <= stream.size
         /\ stream.start + stream.size <= Base /\ stream.start + stream.size <= dataEnd /\ stream.start + stream.size <= Pool
         /\ Base \in 0 .. Pool /\ Base <= dataEnd /\ StreamExtent \in Extents
         /\ \A n \in DOMAIN dir : Apart(dir[n], StreamExtent)
<1>1. /\ stream.start \in 0 .. Pool /\ stream.size \in 0 .. MaxSize /\ stream.written \in Nat /\ dataEnd \in 0 .. Pool
      /\ op.off \in 0 .. Pool /\ op.size \in Nat
  BY FFSAssumption DEF FSInv, TypeOK, Streams, Ops
<1>2. stream.start + stream.size <= Base /\ stream.written <= stream.size
      /\ \A n \in DOMAIN dir : Apart(dir[n], StreamExtent)
  BY DEF FSInv, StreamInv, UpPcs
<1>3. Placing => dataEnd = op.off + op.size
  BY DEF FSInv, SpaceInv
<1>4. QED BY <1>1, <1>2, <1>3, FFSAssumption DEF Base, StreamExtent, Extents

(* The next unit of the stream is inside its reservation.                  *)
LEMMA StreamingSpan ==
  ASSUME FSInv, pc = "swrite"
  PROVE  /\ stream.active /\ op.body \in Seq(Cells) /\ Len(op.body) = 1 /\ stream.written + 1 <= stream.size
         /\ stream.start + stream.written + 1 <= Pool /\ Base = dataEnd /\ stream.start + stream.written \in Nat
         /\ op.kind = "swrite" /\ \E v \in Vals : op.body = <<v>>
<1>1. stream.active /\ stream.written < stream.size /\ op.kind = "swrite"
  BY DEF FSInv, StreamInv, OpInv
<1>2. PICK v \in Vals : op.body = <<v>>
  BY DEF FSInv, OpInv
<1>3. op.body \in Seq(Cells) /\ Len(op.body) = 1
  BY <1>2 DEF Cells
<1>4. Base = dataEnd
  BY <1>1 DEF Base, Placing
<1>5. pc \in UpPcs
  BY DEF UpPcs
<1>6. QED BY <1>1, <1>2, <1>3, <1>4, <1>5, StreamSpan, FFSAssumption

(* What a primitive leaves of the data in use.                             *)
LEMMA UpData ==
  ASSUME FSInv, pc \in UpPcs, NEW e \in Effects, Primitive(e)
  PROVE  /\ data' \in [Areas -> Pools]
         /\ pc \notin {"data", "swrite"} => data'[area] = data[area]
         /\ pc \notin {"erase", "copy"} => data'[Other] = data[Other]
         /\ pc = "data" =>
              /\ \A u \in Units : u < op.off \/ u >= dataEnd => data'[area][u] = data[area][u]
              /\ e = "done" => ReadOf(data'[area], op.off, op.size) = op.body
         /\ pc = "swrite" =>
              /\ \A u \in Units : u # stream.start + stream.written => data'[area][u] = data[area][u]
              /\ e = "done" => ReadOf(data'[area], stream.start + stream.written, 1) = op.body
<1>0. area \in Areas /\ Other \in Areas /\ Other # area /\ data \in [Areas -> Pools]
  BY UpLog DEF FSInv, TypeOK, Pools
<1>1. CASE pc = "data"
  <2>1. ProgramData(op.off, op.body, e)
    BY <1>1 DEF Primitive, Quiet
  <2>2. /\ data' \in [Areas -> Pools]
        /\ \A a \in Areas \ {area} : data'[a] = data[a]
        /\ \A u \in Units : u < op.off \/ u >= op.off + Len(op.body) => data'[area][u] = data[area][u]
        /\ e = "done" => ReadOf(data'[area], op.off, Len(op.body)) = op.body
    BY <1>0, <1>1, <2>1, WriteSpan, Programmed
  <2>3. QED BY <1>0, <1>1, <2>2, WriteSpan
<1>2. CASE pc = "swrite"
  <2>1. ProgramData(stream.start + stream.written, op.body, e)
    BY <1>2 DEF Primitive, Quiet
  <2>2. stream.start + stream.written \in Nat /\ op.body \in Seq(Cells) /\ Len(op.body) = 1
        /\ (stream.start + stream.written) + Len(op.body) <= Pool
    BY <1>2, StreamingSpan
  <2>3. /\ data' \in [Areas -> Pools]
        /\ \A a \in Areas \ {area} : data'[a] = data[a]
        /\ \A u \in Units : u < stream.start + stream.written \/ u >= (stream.start + stream.written) + Len(op.body)
              => data'[area][u] = data[area][u]
        /\ e = "done" => ReadOf(data'[area], stream.start + stream.written, Len(op.body)) = op.body
    BY <1>0, <2>1, <2>2, Programmed
  <2>4. ASSUME NEW u \in Units, u # stream.start + stream.written PROVE data'[area][u] = data[area][u]
    <3>1. u < stream.start + stream.written \/ u >= (stream.start + stream.written) + Len(op.body)
      BY <2>2, <2>4, FFSAssumption DEF Units
    <3>2. QED BY <2>3, <3>1
  <2>5. QED BY <1>0, <1>2, <2>2, <2>3, <2>4
<1>3. CASE pc = "erase"
  <2>1. EraseArea(Other, e)
    BY <1>3 DEF Primitive, Quiet, Other
  <2>2. BlankData \in Pools /\ [u \in Units |-> Junk] \in Pools
    BY DEF BlankData, Pools, Cells
  <2>3. QED BY <1>0, <1>3, <2>1, <2>2 DEF EraseArea, flash
<1>4. CASE pc = "copy"
  <2>1. PICK n \in left : CopyFile(n, e)
    BY <1>4 DEF Primitive, Quiet
  <2>2. Target(op)[n] \in Seq(Cells)
    BY <1>4, TargetIs DEF FSInv, LaidInv, Laying
  <2>3. cur \in Nat
    BY FFSAssumption DEF FSInv, TypeOK
  <2>4. Program(data[Other], cur, Target(op)[n]) \in Pools
    BY <1>0, <2>2, <2>3, ProgramTyped
  <2>5. data' = data \/ data' = [data EXCEPT ![Other] = Program(data[Other], cur, Target(op)[n])]
    BY <2>1, <1>0 DEF CopyFile, Other
  <2>6. QED BY <1>0, <1>4, <2>4, <2>5
<1>5. CASE pc \in {"body", "body2", "commit", "commit2", "super", "idle", "reserve"}
  <2>1. data' = data
    BY <1>5 DEF Primitive, Quiet, ProgramBody, ProgramCommit, ProgramSuper, flash
  <2>2. QED BY <1>0, <1>5, <2>1
<1>6. QED BY <1>1, <1>2, <1>3, <1>4, <1>5 DEF UpPcs

(* A file's data lies where no primitive of a call programs.               *)
LEMMA FilesRead ==
  ASSUME FSInv, pc \in UpPcs, NEW e \in Effects, Primitive(e), NEW n \in DOMAIN dir
  PROVE  ReadOf(data'[area], dir[n].off, dir[n].size) = ReadOf(data[area], dir[n].off, dir[n].size)
<1>0. dir[n].off \in Nat /\ dir[n].size \in Nat /\ dir[n].off + dir[n].size <= Base /\ Base \in 0 .. Pool
  BY UpExtents, FFSAssumption
<1>1. ASSUME NEW i \in 1 .. dir[n].size PROVE data'[area][dir[n].off + i - 1] = data[area][dir[n].off + i - 1]
  <2> DEFINE u == dir[n].off + i - 1
  <2>1. u \in Units /\ u < Base /\ u >= dir[n].off /\ u < dir[n].off + dir[n].size
    BY <1>0, FFSAssumption DEF Units
  <2>2. CASE pc = "data"
    <3>1. Base = op.off
      BY <2>2, WriteSpan
    <3>2. QED BY <2>1, <2>2, <3>1, UpData
  <2>3. CASE pc = "swrite"
    <3>1. Apart(dir[n], StreamExtent) /\ stream.written < stream.size /\ stream.start \in Nat /\ stream.written \in Nat
          /\ stream.size \in Nat
      BY <2>3, StreamingSpan, StreamSpan
    <3>2. u # stream.start + stream.written
      BY <3>1, <2>1, <1>0 DEF Apart, StreamExtent
    <3>3. QED BY <2>1, <2>3, <3>2, UpData
  <2>4. CASE pc \notin {"data", "swrite"}
    BY <2>4, UpData
  <2>5. QED BY <2>2, <2>3, <2>4
<1>2. QED BY <1>1, ReadSame

-----------------------------------------------------------------------------
(* Records: what is committed, and that it fits its log.                   *)

(* The record being programmed, by the call and how far it got.            *)
LEMMA RecIs ==
  ASSUME FSInv, pc \in {"body", "body2", "commit", "commit2"}
  PROVE  /\ Rec \in Records
         /\ Rec.name = IF op.kind = "rename" /\ pc \in {"body", "commit"} THEN op.to ELSE op.name
         /\ Rec.kind = IF op.kind = "delete" \/ pc \in {"body2", "commit2"} THEN "del" ELSE "file"
         /\ Rec.kind = "file" => Rec.off = op.off /\ Rec.size = op.size
<1>1. op.name \in Names /\ op.kind \in {"write", "delete", "rename", "end"}
  BY OpFacts DEF Adding, FSInv, OpInv
<1>2. op.off \in 0 .. Pool /\ op.size \in 0 .. MaxSize
  BY DEF FSInv, TypeOK, Ops
<1>3. op.kind = "rename" => op.to \in Names
  BY DEF FSInv, OpInv
<1>4. pc \in {"body2", "commit2"} => op.kind = "rename"
  BY DEF FSInv, OpInv
<1>5. CASE op.kind = "delete" \/ pc \in {"body2", "commit2"}
  <2>1. Rec = DelRec(op.name)
    BY <1>4, <1>5 DEF Rec
  <2>2. QED BY <2>1, <1>1, <1>4, <1>5 DEF DelRec, Records
<1>6. CASE ~ (op.kind = "delete" \/ pc \in {"body2", "commit2"})
  <2>1. Rec = FileRec(IF op.kind = "rename" THEN op.to ELSE op.name, op.off, op.size)
    BY <1>6 DEF Rec
  <2>2. QED BY <2>1, <1>1, <1>2, <1>3, <1>6 DEF FileRec, Records
<1>7. QED BY <1>5, <1>6

(* The flash keeps its types.                                              *)
LEMMA LogTyped ==
  ASSUME FSInv, NEW e \in Effects, Primitive(e)
  PROVE  log' \in [Areas -> Logs]
<1>0. log \in [Areas -> Logs] /\ ErasedLog \in Logs /\ [i \in Slots |-> Torn] \in Logs
      /\ area \in Areas /\ 1 - area \in Areas
  BY DEF FSInv, TypeOK, Logs, ErasedLog, Areas
<1>1. CASE pc \in {"body", "body2"}
  BY <1>0, <1>1 DEF Primitive, Quiet, ProgramBody, Logs
<1>2. CASE pc \in {"commit", "commit2"}
  <2>1. Rec \in Records
    BY <1>2, RecIs
  <2>2. QED BY <1>0, <1>2, <2>1 DEF Primitive, Quiet, ProgramCommit, Logs
<1>3. CASE pc = "copy"
  <2>1. PICK n \in left : CopyFile(n, e)
    BY <1>3 DEF Primitive, Quiet
  <2>2. n \in Names /\ Len(Target(op)[n]) \in 0 .. MaxSize /\ cur \in 0 .. Pool
    BY <1>3, TargetIs DEF FSInv, LaidInv, Laying, TypeOK
  <2>3. FileRec(n, cur, Len(Target(op)[n])) \in Records
    BY <2>2 DEF FileRec, Records
  <2>4. log' = log \/ \E r \in Records \cup {Torn} : log' = [log EXCEPT ![1 - area][nrec + 1] = r]
    BY <2>1, <2>3 DEF CopyFile
  <2>5. ASSUME NEW r \in Records \cup {Torn}, log' = [log EXCEPT ![1 - area][nrec + 1] = r]
        PROVE  log' \in [Areas -> Logs]
    <3>1. [log[1 - area] EXCEPT ![nrec + 1] = r] \in Logs
      BY <1>0 DEF Logs
    <3>2. QED BY <3>1, <2>5, <1>0
  <2>6. QED BY <1>0, <2>4, <2>5
<1>4. CASE pc \in {"erase", "erase1", "erase0"}
  <2>1. \E a \in Areas : EraseArea(a, e)
    BY <1>0, <1>4 DEF Primitive, Quiet, Areas
  <2>2. QED BY <1>0, <2>1 DEF EraseArea, flash
<1>5. CASE pc \notin {"body", "body2", "commit", "commit2", "copy", "erase", "erase1", "erase0"}
  BY <1>0, <1>5 DEF Primitive, Quiet, ProgramData, ProgramSuper, flash
<1>6. QED BY <1>1, <1>2, <1>3, <1>4, <1>5

(* A primitive leaves pools of cells.                                      *)
LEMMA DataTyped ==
  ASSUME FSInv, NEW e \in Effects, Primitive(e)
  PROVE  data' \in [Areas -> Pools]
<1>0. data \in [Areas -> Pools]
  BY DEF FSInv, TypeOK, Pools
<1>1. CASE pc \in UpPcs
  BY <1>1, UpData
<1>2. CASE pc \in {"erase1", "erase0"}
  <2>1. \E a \in Areas : EraseArea(a, e)
    BY <1>2 DEF Primitive, Quiet, Areas
  <2>2. BlankData \in Pools /\ [u \in Units |-> Junk] \in Pools
    BY DEF BlankData, Pools, Cells
  <2>3. QED BY <1>0, <2>1, <2>2 DEF EraseArea, flash
<1>3. CASE pc \notin UpPcs /\ pc \notin {"erase1", "erase0"}
  BY <1>0, <1>3 DEF Primitive, Quiet, ProgramSuper, flash, UpPcs
<1>4. QED BY <1>1, <1>2, <1>3

(* The log in use before the slot being written: the record to be committed*)
(* finds the directory as it is.                                           *)
LEMMA BeforeCommit ==
  ASSUME FSInv, pc \in {"commit", "commit2"}
  PROVE  /\ logUsed = EndOf(log[area]) /\ logUsed - 1 \in 0 .. LogRecords - 1 /\ (logUsed - 1) + 1 = logUsed
         /\ \A n \in Names : ExtentIn(log[area], logUsed - 1, n) = Known(n)
<1>1. logUsed = EndOf(log[area]) + 0 /\ logUsed > 0 /\ logUsed <= LogRecords /\ log[area][logUsed] = Torn /\ logUsed \in Nat
  BY DEF FSInv, SpanInv, SpanTypes, UpPcs
<1>2. EndOf(log[area]) \in 0 .. LogRecords
  BY EndIs
<1>3. logUsed = EndOf(log[area]) /\ logUsed - 1 \in 0 .. LogRecords - 1 /\ (logUsed - 1) + 1 = logUsed /\ logUsed - 1 \in Nat
  BY <1>1, <1>2, FFSAssumption
<1>4. ASSUME NEW n \in Names PROVE ExtentIn(log[area], logUsed - 1, n) = Known(n)
  <2>1. ~ IsFor(log[area][(logUsed - 1) + 1], n)
    BY <1>1, <1>3, KindsDiffer
  <2>2. ExtentIn(log[area], (logUsed - 1) + 1, n) = ExtentIn(log[area], logUsed - 1, n)
    BY <2>1, <1>3, ExtentKept
  <2>3. ExtentIn(log[area], EndOf(log[area]), n) = Known(n)
    BY UpKnown DEF UpPcs
  <2>4. QED BY <2>2, <2>3, <1>3
<1>5. QED BY <1>3, <1>4

(* The record being committed fits its log: room, names, cells of its own. *)
LEMMA RecordFits ==
  ASSUME FSInv, pc \in {"commit", "commit2"}
  PROVE  Fitting(log[area], logUsed - 1, Rec)
<1> SUFFICES ASSUME Rec.kind = "file"
             PROVE  /\ Rec.off + Rec.size <= Pool
                    /\ Few(Live(log[area], logUsed - 1) \cup {Rec.name})
                    /\ \A n \in Names \ {Rec.name} : \A x \in ExtentIn(log[area], logUsed - 1, n) :
                         x = OpExtent \/ Apart(x, OpExtent)
  BY RecIs DEF Fitting, OpExtent
<1>1. pc = "commit" /\ op.kind # "delete" /\ Rec.off = op.off /\ Rec.size = op.size
      /\ Rec.name = IF op.kind = "rename" THEN op.to ELSE op.name
  BY RecIs
<1>2. op.kind \in {"write", "end", "rename"}
  BY <1>1 DEF FSInv, OpInv
<1>3. ASSUME NEW n \in Names, NEW x \in ExtentIn(log[area], logUsed - 1, n) PROVE n \in DOMAIN dir /\ x = dir[n]
  <2>1. x \in Known(n)
    BY <1>3, BeforeCommit
  <2>2. QED BY <2>1, <1>1 DEF Known
<1>4. Live(log[area], logUsed - 1) \subseteq DOMAIN dir
  BY <1>3 DEF Live
<1>5. Few(DOMAIN dir) /\ dataEnd \in 0 .. Pool
  BY UpFew DEF UpPcs, FSInv, TypeOK
<1>6. CASE op.kind \in {"write", "end"}
  <2>1. op.off + op.size <= dataEnd /\ \A n \in DOMAIN dir : Apart(dir[n], OpExtent)
    BY <1>1, <1>6 DEF FSInv, SpaceInv
  <2>2. NewFileFits(op.name)
    BY <1>1, <1>6 DEF FSInv, AskInv, Adding
  <2>3. Few(DOMAIN dir \cup {op.name})
    BY <2>2, <1>5, FewMore DEF NewFileFits
  <2>4. Few(Live(log[area], logUsed - 1) \cup {Rec.name})
    BY <2>3, <1>1, <1>4, <1>6, FewSubset
  <2>5. Rec.off + Rec.size <= Pool
    BY <2>1, <1>1, <1>5, FFSAssumption DEF FSInv, TypeOK, Ops
  <2>6. QED BY <2>1, <2>4, <2>5, <1>3
<1>7. CASE op.kind = "rename"
  <2>1. op.name \in DOMAIN dir /\ dir[op.name] = OpExtent
    BY <1>7, <1>1, UpRename DEF Adding, OpExtent
  <2>2. op.off + op.size <= Pool
    <3>1. dir[op.name].off \in Nat /\ dir[op.name].size \in Nat /\ dir[op.name].off + dir[op.name].size <= Base
          /\ Base \in 0 .. Pool
      BY <2>1, <1>1, UpExtents, FFSAssumption DEF UpPcs
    <3>2. QED BY <2>1, <3>1, FFSAssumption DEF OpExtent
  <2>3. Cardinality(DOMAIN dir) < MaxFiles
    BY <1>1, <1>7 DEF FSInv, AskInv, Adding
  <2>4. Few(DOMAIN dir \cup {op.to})
    BY <2>3, <1>5, FewMore
  <2>5. Few(Live(log[area], logUsed - 1) \cup {Rec.name})
    BY <2>4, <1>1, <1>4, <1>7, FewSubset
  <2>6. \A n \in DOMAIN dir : dir[n] = OpExtent \/ Apart(dir[n], OpExtent)
    BY <2>1, <1>1, UpApart DEF UpPcs
  <2>7. QED BY <1>1, <2>2, <2>5, <2>6, <1>3
<1>8. QED BY <1>2, <1>6, <1>7

-----------------------------------------------------------------------------
(* Primitives that change no file.                                         *)

(* DurableIs after a step.                                                 *)
LEMMA DurableNext ==
  /\ (Valid(0) \/ Valid(1))' =>
       (DurableFiles = [n \in Names |-> FileOf(log[NewestArea], data[NewestArea], n)])'
  /\ (super[0] = 0 /\ super[1] = 0)' => (DurableFiles = [n \in Names |-> Absent])'
BY DurableIs, PTL

(* The steps of a call that leave the files alone, whatever their effect.  *)
Telling(e) == e = "done" /\ pc \in {"commit", "commit2", "super"}

(* A primitive other than the superblock's leaves the area in use the      *)
(* newest.                                                                 *)
LEMMA SameArea ==
  ASSUME FSInv, pc \in UpPcs, NEW e \in Effects, Primitive(e), ~ (e = "done" /\ pc = "super")
  PROVE  NewestArea' = area /\ (Valid(0) \/ Valid(1))' /\ super'[area] = gen /\ gen > super'[Other]
         /\ super' \in [Areas -> Nat]
<1>1. area \in Areas /\ Other \in Areas /\ Other # area /\ super \in [Areas -> Nat]
      /\ super[area] = gen /\ gen > super[Other] /\ gen \in Nat
  BY UpLog DEF FSInv, GenInv, GenTypeOK, ActiveOutranks, UpPcs, Other
<1>2. pc = "super" => super' = super
  BY DEF Primitive, Quiet, ProgramSuper
<1>3. super' = super \/ super' = [super EXCEPT ![Other] = 0]
  BY <1>2, PrimitiveSuper DEF FSInv, UpPcs, Other
<1>4. super'[area] = gen /\ super' \in [Areas -> Nat] /\ gen > super'[Other]
  BY <1>1, <1>3
<1>5. QED BY <1>1, <1>4 DEF NewestArea, Valid, Areas, Other

(* A primitive that commits nothing changes nothing the log describes.     *)
LEMMA KeepsLog ==
  ASSUME FSInv, pc \in UpPcs, NEW e \in Effects, Primitive(e), ~ Telling(e)
  PROVE  /\ GoodLog(log'[area])
         /\ \A n \in Names : ExtentIn(log'[area], EndOf(log'[area]), n) = ExtentIn(log[area], EndOf(log[area]), n)
<1> DEFINE L == log[area]
           M == log'[area]
<1>0. GoodLog(L) /\ L \in Logs /\ M \in Logs /\ area \in Areas /\ EndOf(L) \in 0 .. LogRecords /\ LogRecords \in Nat
  BY UpLog, LogTyped, FFSAssumption
<1>1. CASE pc \in {"body", "body2"} /\ e # "nothing"
  <2>1. EndOf(M) = logUsed /\ M[logUsed] = Torn /\ Written(L, M, logUsed - 1)
    BY <1>1, AreaLog DEF FSInv
  <2>2. logUsed = EndOf(L) + 1 /\ logUsed <= LogRecords
    BY <1>1 DEF FSInv, SpanInv, UpPcs
  <2>3. logUsed - 1 = EndOf(L) /\ EndOf(L) \in 0 .. LogRecords - 1
    BY <2>2, <1>0
  <2>4. M[EndOf(L) + 1] = Torn /\ Written(L, M, EndOf(L)) /\ EndOf(M) = EndOf(L) + 1
    BY <2>1, <2>2, <2>3
  <2>5. Fitting(L, EndOf(L), M[EndOf(L) + 1])
    BY <2>4 DEF Fitting, Torn
  <2>6. GoodLog(M)
    BY <2>3, <2>4, <2>5, <1>0, WrittenGood DEF GoodLog, ApartTo, FilesApart
  <2>7. ASSUME NEW n \in Names PROVE ExtentIn(M, EndOf(M), n) = ExtentIn(L, EndOf(L), n)
    <3>1. ExtentIn(M, EndOf(L) + 1, n) = After(M[EndOf(L) + 1], ExtentIn(L, EndOf(L), n), n)
      BY <2>3, <2>4, WrittenNew
    <3>2. QED BY <3>1, <2>4, KindsDiffer DEF After
  <2>8. QED BY <2>6, <2>7
<1>2. CASE ~ (pc \in {"body", "body2"} /\ e # "nothing")
  <2>1. M = L
    BY <1>2, AreaLog DEF FSInv, Telling
  <2>2. QED BY <2>1, <1>0
<1>3. QED BY <1>1, <1>2

(* A primitive that commits nothing changes no file a mount would find.    *)
LEMMA KeepsFiles ==
  ASSUME FSInv, pc \in UpPcs, NEW e \in Effects, Primitive(e), ~ Telling(e)
  PROVE  DurableFiles' = DurableFiles
<1>1. NewestArea' = area /\ (Valid(0) \/ Valid(1))'
  BY SameArea DEF Telling
<1>2. DurableFiles' = [n \in Names |-> FileOf(log'[area], data'[area], n)]
  <2>1. DurableFiles' = [n \in Names |-> FileOf(log[NewestArea], data[NewestArea], n)]'
    BY <1>1, DurableNext
  <2>2. QED BY <2>1, <1>1
<1>3. DurableFiles = [n \in Names |-> FileOf(log[area], data[area], n)]
  BY DurableIs, UpLog
<1>4. ASSUME NEW n \in Names PROVE FileOf(log'[area], data'[area], n) = FileOf(log[area], data[area], n)
  <2>1. ExtentIn(log'[area], EndOf(log'[area]), n) = ExtentIn(log[area], EndOf(log[area]), n)
    BY KeepsLog
  <2>2. CASE Known(n) = {}
    BY <2>1, <2>2, UpKnown, FileOfIs
  <2>3. ASSUME NEW m \in DOMAIN dir, Known(n) = {dir[m]} PROVE FileOf(log'[area], data'[area], n) = FileOf(log[area], data[area], n)
    <3>1. dir[m] \in ExtentIn(log'[area], EndOf(log'[area]), n) /\ dir[m] \in ExtentIn(log[area], EndOf(log[area]), n)
      BY <2>1, <2>3, UpKnown
    <3>2. FileOf(log'[area], data'[area], n) = ReadOf(data'[area], dir[m].off, dir[m].size)
      BY <3>1, FileOfIs
    <3>3. FileOf(log[area], data[area], n) = ReadOf(data[area], dir[m].off, dir[m].size)
      BY <3>1, FileOfIs
    <3>4. QED BY <3>2, <3>3, FilesRead
  <2>4. pc \in {"body2", "commit2"} => op.name \in DOMAIN dir
    BY UpRename DEF FSInv, OpInv, Adding
  <2>5. QED BY <2>2, <2>3, <2>4 DEF Known
<1>5. QED BY <1>2, <1>3, <1>4

-----------------------------------------------------------------------------
(* Primitives that do: a record's kind, a superblock.                      *)

(* A record that is committed: the directory the flash describes, and the  *)
(* files, with the change made.                                            *)
CommitFiles ==
  [n \in Names |-> IF n # Rec.name THEN DurableFiles[n] ELSE IF Rec.kind = "file" THEN op.body ELSE Absent]
CommitExtent(n) ==
  IF n # Rec.name THEN Known(n) ELSE IF Rec.kind = "file" THEN {OpExtent} ELSE {}

(* A committed record gives a good log that describes the change.          *)
LEMMA CommitLog ==
  ASSUME FSInv, Primitive("done"), pc \in {"commit", "commit2"}
  PROVE  /\ GoodLog(log'[area])
         /\ \A n \in Names : ExtentIn(log'[area], EndOf(log'[area]), n) = CommitExtent(n)
         /\ data' = data
<1> DEFINE L == log[area]
           M == log'[area]
           k == logUsed - 1
<1>0. GoodLog(L) /\ L \in Logs /\ M \in Logs /\ area \in Areas /\ EndOf(L) \in 0 .. LogRecords /\ LogRecords \in Nat
  BY UpLog, LogTyped, FFSAssumption DEF Effects, UpPcs
<1>1. k \in 0 .. LogRecords - 1 /\ k + 1 = logUsed /\ logUsed = EndOf(L) /\ \A n \in Names : ExtentIn(L, k, n) = Known(n)
  BY BeforeCommit
<1>2. M[logUsed] = Rec /\ Written(L, M, k) /\ EndOf(M) = EndOf(L)
  BY AreaLog DEF FSInv, Effects, UpPcs
<1>3. Fitting(L, k, Rec)
  BY RecordFits
<1>4. ApartTo(L, k)
  <2>1. \A n \in Names : ExtentIn(L, k, n) = ExtentIn(L, EndOf(L), n)
    BY <1>1, UpKnown DEF UpPcs
  <2>2. QED BY <2>1, <1>0 DEF ApartTo, GoodLog, FilesApart
<1>5. InPool(L) /\ \A j \in 0 .. k : Few(Live(L, j))
  BY <1>0, <1>1 DEF GoodLog
<1>6. GoodLog(M)
  <2> HIDE DEF k, L, M
  <2>1. M[k + 1] = Rec
    BY <1>1, <1>2
  <2>2. Fitting(L, k, M[k + 1])
    BY <2>1, <1>3
  <2>3. QED BY <2>2, <1>0, <1>1, <1>2, <1>4, <1>5, WrittenGood
<1>7. ASSUME NEW n \in Names PROVE ExtentIn(M, EndOf(M), n) = CommitExtent(n)
  <2>1. ExtentIn(M, k + 1, n) = After(M[k + 1], ExtentIn(L, k, n), n)
    BY <1>1, <1>2, WrittenNew
  <2>2. ExtentIn(M, EndOf(M), n) = After(Rec, Known(n), n)
    BY <2>1, <1>1, <1>2
  <2>3. IsFor(Rec, n) <=> n = Rec.name
    BY RecIs DEF IsFor
  <2>4. QED BY <2>2, <2>3, RecIs DEF After, CommitExtent, OpExtent
<1>8. data' = data
  BY DEF Primitive, Quiet, ProgramCommit
<1>9. QED BY <1>6, <1>7, <1>8

(* The cells a committed record points at hold the file's new contents.    *)
LEMMA OpReads ==
  ASSUME FSInv, pc \in {"commit", "commit2"}, Rec.kind = "file"
  PROVE  ReadOf(data[area], op.off, op.size) = op.body
<1>1. pc = "commit" /\ op.kind # "delete"
  BY RecIs
<1>2. op.kind \in {"write", "end", "rename"}
  BY <1>1 DEF FSInv, OpInv
<1>3. CASE op.kind \in {"write", "end"}
  BY <1>1, <1>3 DEF FSInv, SpaceInv
<1>4. CASE op.kind = "rename"
  <2>1. op.name \in DOMAIN dir /\ dir[op.name] = OpExtent /\ op.body = FileAt(op.name)
    BY <1>4, <1>1, UpRename DEF Adding, OpExtent
  <2>2. FileAt(op.name) = ReadOf(data[area], dir[op.name].off, dir[op.name].size)
    BY <2>1, <1>1, UpFileAt DEF UpPcs
  <2>3. QED BY <2>1, <2>2 DEF OpExtent
<1>5. QED BY <1>2, <1>3, <1>4

(* A committed record changes the file it names, and no other.             *)
LEMMA CommitDurable ==
  ASSUME FSInv, Primitive("done"), pc \in {"commit", "commit2"}
  PROVE  DurableFiles' = CommitFiles
<1>0. pc \in UpPcs /\ "done" \in Effects
  BY DEF UpPcs, Effects
<1>1. NewestArea' = area /\ (Valid(0) \/ Valid(1))'
  BY <1>0, SameArea
<1>2. DurableFiles' = [n \in Names |-> FileOf(log'[area], data'[area], n)]
  BY <1>1, DurableNext
<1>3. DurableFiles = [n \in Names |-> FileOf(log[area], data[area], n)]
  BY <1>0, DurableIs, UpLog
<1>4. ASSUME NEW n \in Names PROVE FileOf(log'[area], data'[area], n) = CommitFiles[n]
  <2>1. ExtentIn(log'[area], EndOf(log'[area]), n) = CommitExtent(n) /\ data' = data
    BY CommitLog
  <2>2. CASE n # Rec.name
    <3>1. CommitExtent(n) = ExtentIn(log[area], EndOf(log[area]), n)
      BY <1>0, <2>2, UpKnown DEF CommitExtent
    <3>2. FileOf(log'[area], data'[area], n) = FileOf(log[area], data[area], n)
      <4>1. CASE Known(n) = {}
        BY <2>1, <3>1, <4>1, <1>0, UpKnown, FileOfIs
      <4>2. ASSUME NEW x, Known(n) = {x} PROVE FileOf(log'[area], data'[area], n) = FileOf(log[area], data[area], n)
        <5>1. x \in ExtentIn(log'[area], EndOf(log'[area]), n) /\ x \in ExtentIn(log[area], EndOf(log[area]), n)
          BY <2>1, <3>1, <4>2, <1>0, UpKnown
        <5>2. FileOf(log'[area], data'[area], n) = ReadOf(data'[area], x.off, x.size)
          BY <5>1, FileOfIs
        <5>3. FileOf(log[area], data[area], n) = ReadOf(data[area], x.off, x.size)
          BY <5>1, FileOfIs
        <5>4. QED BY <5>2, <5>3, <2>1
      <4>3. QED BY <4>1, <4>2 DEF Known
    <3>3. QED BY <3>2, <1>3, <2>2 DEF CommitFiles
  <2>3. CASE n = Rec.name /\ Rec.kind = "file"
    <3>1. OpExtent \in ExtentIn(log'[area], EndOf(log'[area]), n)
      BY <2>1, <2>3 DEF CommitExtent
    <3>2. FileOf(log'[area], data'[area], n) = ReadOf(data'[area], OpExtent.off, OpExtent.size)
      BY <3>1, FileOfIs
    <3>3. OpExtent.off = op.off /\ OpExtent.size = op.size
      BY DEF OpExtent
    <3>4. QED BY <3>2, <3>3, <2>1, <2>3, OpReads DEF CommitFiles
  <2>4. CASE n = Rec.name /\ Rec.kind # "file"
    <3>1. ExtentIn(log'[area], EndOf(log'[area]), n) = {}
      BY <2>1, <2>4 DEF CommitExtent
    <3>2. QED BY <3>1, <2>4, FileOfIs DEF CommitFiles
  <2>5. QED BY <2>2, <2>3, <2>4
<1>5. QED BY <1>2, <1>4 DEF CommitFiles

(* A superblock that is committed: the files that were laid out.           *)
LaidFiles == [n \in Names |-> IF n \in DOMAIN Target(op) THEN Target(op)[n] ELSE Absent]

(* Once the other area's superblock is programmed, a mount finds what was  *)
(* laid out in it.                                                         *)
LEMMA SuperDurable ==
  ASSUME FSInv, Primitive("done"), pc = "super"
  PROVE  /\ DurableFiles' = LaidFiles /\ GoodLog(log'[NewestArea']) /\ (Valid(0) \/ Valid(1))'
         /\ log' = log /\ data' = data /\ super' \in [Areas -> Nat]
<1>1. super' = [super EXCEPT ![Other] = gen + 1] /\ log' = log /\ data' = data
  BY DEF Primitive, Quiet, ProgramSuper, Other
<1>2. area \in Areas /\ Other \in Areas /\ Other # area /\ super \in [Areas -> Nat] /\ super[area] = gen /\ gen \in Nat
  BY UpLog DEF FSInv, GenInv, GenTypeOK, ActiveOutranks, UpPcs
<1>3. NewestArea' = Other /\ (Valid(0) \/ Valid(1))' /\ super' \in [Areas -> Nat]
  BY <1>1, <1>2 DEF NewestArea, Valid, Areas, Other
<1>4. DurableFiles' = [n \in Names |-> FileOf(log[Other], data[Other], n)]
  BY <1>1, <1>3, DurableNext
<1>5. GoodLog(log[Other]) /\ EndOf(log[Other]) = nrec /\ left = {}
  BY DEF FSInv, LaidInv, SpanInv
<1>6. ASSUME NEW n \in Names PROVE FileOf(log[Other], data[Other], n) = LaidFiles[n]
  <2>1. CASE n \in DOMAIN Target(op)
    <3>1. PICK x \in Extents : ExtentIn(log[Other], nrec, n) = {x} /\ ReadOf(data[Other], x.off, x.size) = Target(op)[n]
      BY <2>1, <1>5 DEF FSInv, LaidInv
    <3>2. x \in ExtentIn(log[Other], EndOf(log[Other]), n)
      BY <3>1, <1>5
    <3>3. FileOf(log[Other], data[Other], n) = ReadOf(data[Other], x.off, x.size)
      BY <3>2, FileOfIs
    <3>4. QED BY <3>1, <3>3, <2>1 DEF LaidFiles
  <2>2. CASE n \notin DOMAIN Target(op)
    <3>1. ExtentIn(log[Other], nrec, n) = {}
      BY <2>2 DEF FSInv, LaidInv
    <3>2. QED BY <3>1, <1>5, <2>2, FileOfIs DEF LaidFiles
  <2>3. QED BY <2>1, <2>2
<1>7. QED BY <1>1, <1>3, <1>4, <1>5, <1>6 DEF LaidFiles

(* Formatting.                                                             *)
LEMMA EmptyGood == GoodLog(ErasedLog) /\ \A D, n : FileOf(ErasedLog, D, n) = Absent
<1>1. EndOf(ErasedLog) = 0 /\ Whole(ErasedLog) /\ \A n : ExtentIn(ErasedLog, 0, n) = {}
  BY EmptyLog
<1>2. InPool(ErasedLog)
  BY DEF InPool, ErasedLog, Erased
<1>3. Live(ErasedLog, 0) = {}
  BY <1>1 DEF Live
<1>4. Few({})
  BY FS_EmptySet, FFSAssumption DEF Few
<1>5. FilesApart(ErasedLog)
  BY <1>1 DEF FilesApart
<1>6. \A k \in 0 .. 0 : k = 0
  OBVIOUS
<1>7. QED BY <1>1, <1>2, <1>3, <1>4, <1>5, <1>6, FileOfIs DEF GoodLog

(* Formatting: no file before, none after.                                 *)
LEMMA FormatDurable ==
  ASSUME FSInv, NEW e \in Effects, Primitive(e), pc \in {"erase1", "erase0", "format"}
  PROVE  /\ DurableFiles' = DurableFiles /\ DurableFiles = [n \in Names |-> Absent]
         /\ (Valid(0) \/ Valid(1))' => GoodLog(log'[NewestArea']) /\ pc = "format" /\ e = "done"
         /\ super' \in [Areas -> Nat]
<1>1. super \in [Areas -> Nat] /\ super[0] = 0 /\ super[1] = 0
  BY DEF FSInv, GenInv, GenTypeOK, Formatting
<1>2. DurableFiles = [n \in Names |-> Absent]
  BY <1>1, DurableIs
<1>3. super' = super \/ (pc = "format" /\ super' = [super EXCEPT ![0] = 1])
  BY PrimitiveSuper DEF FSInv
<1>4. CASE super' = super
  <2>1. super'[0] = 0 /\ super'[1] = 0
    BY <1>1, <1>4
  <2>2. DurableFiles' = [n \in Names |-> Absent]
    BY <2>1, DurableNext
  <2>3. QED BY <1>1, <1>2, <1>4, <2>1, <2>2 DEF Valid
<1>5. CASE pc = "format" /\ super' = [super EXCEPT ![0] = 1]
  <2>1. log' = log /\ data' = data /\ log[0] = ErasedLog /\ e = "done"
    BY <1>1, <1>5 DEF Primitive, Quiet, ProgramSuper, FSInv, FlashInv, Areas
  <2>2. NewestArea' = 0 /\ (Valid(0) \/ Valid(1))' /\ super' \in [Areas -> Nat]
    BY <1>1, <1>5 DEF NewestArea, Valid, Areas
  <2>3. DurableFiles' = [n \in Names |-> FileOf(ErasedLog, data[0], n)]
    BY <2>1, <2>2, DurableNext
  <2>4. QED BY <1>2, <1>5, <2>1, <2>2, <2>3, EmptyGood
<1>6. QED BY <1>3, <1>4, <1>5

-----------------------------------------------------------------------------
(* The change of a call, and a power cut in it.                            *)

(* The files with the change of the call in progress made.                 *)
ChangedFiles ==
  [n \in Names |-> IF n \in Added THEN op.body ELSE IF n \in Gone THEN Absent ELSE DurableFiles[n]]

(* What compaction laid out is the files with the call's change.           *)
LEMMA LaidIs ==
  ASSUME FSInv, pc = "super"
  PROVE  LaidFiles = ChangedFiles
<1>0. pc \in Laying /\ pc \in UpPcs /\ pc \in Adding \cup Laying /\ pc \notin {"body2", "commit2"}
  BY DEF Laying, UpPcs
<1>1. ASSUME NEW n \in Names PROVE LaidFiles[n] = ChangedFiles[n]
  <2>1. CASE n \in Added
    BY <1>0, <2>1, TargetIs DEF LaidFiles, ChangedFiles
  <2>2. CASE n \notin Added /\ n \in Gone
    BY <1>0, <2>2, TargetIs DEF LaidFiles, ChangedFiles
  <2>3. CASE n \notin Added /\ n \notin Gone /\ n \in DOMAIN dir
    BY <1>0, <2>3, TargetIs, UpDurable DEF LaidFiles, ChangedFiles
  <2>4. CASE n \notin Added /\ n \notin Gone /\ n \notin DOMAIN dir
    BY <1>0, <2>4, TargetIs, UpDurable DEF LaidFiles, ChangedFiles
  <2>5. QED BY <2>1, <2>2, <2>3, <2>4
<1>2. QED BY <1>1 DEF LaidFiles, ChangedFiles

(* A rename's first record adds the file's new name.                       *)
LEMMA LinkedIs ==
  ASSUME FSInv, pc = "commit", op.kind = "rename"
  PROVE  CommitFiles = [n \in Names |-> IF n = op.to THEN op.body ELSE DurableFiles[n]]
BY RecIs DEF CommitFiles

(* A call's last record makes the call's whole change.                     *)
LEMMA CommittedIs ==
  ASSUME FSInv, pc = "commit2" \/ (pc = "commit" /\ op.kind # "rename")
  PROVE  CommitFiles = ChangedFiles
<1>0. pc \in UpPcs /\ pc \in Adding /\ pc \in {"commit", "commit2"}
  BY DEF Adding, UpPcs
<1>1. CASE pc = "commit2"
  <2>1. op.kind = "rename"
    BY <1>1 DEF FSInv, OpInv
  <2>2. Rec.name = op.name /\ Rec.kind = "del"
    BY <1>1, RecIs
  <2>3. op.to \notin DOMAIN dir /\ op.to \in Names /\ op.to # op.name /\ op.body = FileAt(op.name)
    BY <1>0, <2>1, UpRename
  <2>4. DurableFiles[op.to] = op.body
    BY <1>0, <1>1, <2>3, UpDurable
  <2>5. Added = {op.to} /\ Gone = {op.name}
    BY <2>1 DEF Added, Gone
  <2>6. QED BY <2>2, <2>3, <2>4, <2>5 DEF CommitFiles, ChangedFiles
<1>2. CASE pc = "commit" /\ op.kind # "rename"
  <2>1. op.kind \in {"write", "delete", "end"}
    BY <1>2 DEF FSInv, OpInv
  <2>2. Rec.name = op.name /\ Rec.kind = IF op.kind = "delete" THEN "del" ELSE "file"
    BY <1>2, RecIs
  <2>3. QED BY <2>1, <2>2 DEF CommitFiles, ChangedFiles, Added, Gone
<1>3. QED BY <1>1, <1>2

(* The history allows the call's change, before and after its              *)
(* acknowledgement.                                                        *)
LEMMA ChangeAllowed ==
  ASSUME FSInv, pc \in Adding \cup Laying, NEW n \in Names
  PROVE  /\ ChangedFiles[n] \in allowed[n] /\ ChangedFiles[n] \in Acknowledged(op)[n]
         /\ n \in Added => op.body \in allowed[n]
         /\ n \in Gone => Absent \in allowed[n]
<1>1. Outcome(op, n) = IF n \in Added THEN {op.body} ELSE IF n \in Gone THEN {Absent} ELSE {}
  BY OpFacts
<1>2. Outcome(op, n) \subseteq allowed[n] /\ DurableFiles[n] \in allowed[n]
  BY DEF FSInv, Promised
<1>3. n \in Added => n \notin Gone
  BY OpFacts
<1>4. QED BY <1>1, <1>2, <1>3 DEF ChangedFiles, Acknowledged

(* Whatever a primitive does, and however far it gets, a mount finds a good*)
(* log and only files it may find.                                         *)
LEMMA FlashSafe ==
  ASSUME FSInv, NEW e \in Effects, Primitive(e)
  PROVE  /\ (Valid(0) \/ Valid(1))' => GoodLog(log'[NewestArea'])
         /\ \A n \in Names : DurableFiles'[n] \in allowed[n]
         /\ super' \in [Areas -> Nat] /\ log' \in [Areas -> Logs] /\ data' \in [Areas -> Pools]
<1>0. log' \in [Areas -> Logs] /\ data' \in [Areas -> Pools] /\ \A n \in Names : DurableFiles[n] \in allowed[n]
  BY LogTyped, DataTyped DEF FSInv, Promised
<1>1. CASE pc \in UpPcs /\ ~ Telling(e)
  <2>1. NewestArea' = area /\ (Valid(0) \/ Valid(1))' /\ super' \in [Areas -> Nat]
    BY <1>1, SameArea DEF Telling
  <2>2. GoodLog(log'[area]) /\ DurableFiles' = DurableFiles
    BY <1>1, KeepsLog, KeepsFiles
  <2>3. QED BY <1>0, <2>1, <2>2
<1>2. CASE e = "done" /\ pc \in {"commit", "commit2"}
  <2>0. pc \in UpPcs /\ pc \in Adding
    BY <1>2 DEF UpPcs, Adding
  <2>1. NewestArea' = area /\ (Valid(0) \/ Valid(1))' /\ super' \in [Areas -> Nat]
    BY <1>2, <2>0, SameArea
  <2>2. GoodLog(log'[area]) /\ DurableFiles' = CommitFiles
    BY <1>2, CommitLog, CommitDurable
  <2>3. ASSUME NEW n \in Names PROVE CommitFiles[n] \in allowed[n]
    <3>1. Rec.name \in Names /\ (Rec.kind = "file" => Rec.name \in Added) /\ (Rec.kind # "file" => Rec.name \in Gone)
      <4>1. op.kind \in {"write", "delete", "rename", "end"} /\ (pc = "commit2" => op.kind = "rename")
        BY <1>2 DEF FSInv, OpInv
      <4>2. Rec.name \in Names
        BY <1>2, RecIs DEF Records
      <4>3. QED BY <1>2, <4>1, <4>2, RecIs DEF Added, Gone
    <3>2. QED BY <1>0, <2>0, <3>1, ChangeAllowed DEF CommitFiles
  <2>4. QED BY <1>0, <2>1, <2>2, <2>3
<1>3. CASE e = "done" /\ pc = "super"
  <2>1. \A n \in Names : ChangedFiles[n] \in allowed[n]
    BY <1>3, ChangeAllowed DEF Laying
  <2>2. QED BY <1>0, <1>3, <2>1, SuperDurable, LaidIs
<1>4. CASE pc \in {"erase1", "erase0", "format"}
  BY <1>0, <1>4, FormatDurable
<1>5. CASE pc \in {"off", "mount", "replay", "unformatted", "nofs"}
  <2>1. UNCHANGED flash
    BY <1>5, QuietFlash DEF Quiet
  <2>2. DurableFiles' = DurableFiles
    BY <2>1 DEF flash, DurableFiles, NewestArea, LogEnd, FileIn, Newest, Read
  <2>3. QED BY <1>0, <2>1, <2>2 DEF flash, FSInv, FlashInv, NewestArea, Valid, TypeOK
<1>6. QED BY <1>1, <1>2, <1>3, <1>4, <1>5 DEF Telling, FSInv, GenInv, GenTypeOK, Pcs, UpPcs

(* The idle call and the closed stream.                                    *)
LEMMA NoneTyped == NoOp \in Ops /\ NoStream \in Streams /\ DOMAIN <<>> = {}
                   /\ NoOp.kind = "none" /\ NoOp.to = Absent /\ ~ NoStream.active
<1>1. NoOp \in Ops
  BY FFSAssumption DEF NoOp, Ops
<1>2. NoStream \in Streams
  BY FFSAssumption DEF NoStream, Streams
<1>3. QED BY <1>1, <1>2 DEF NoOp, NoStream

(* The idle call changes nothing.                                          *)
LEMMA NoOutcome == \A n \in Names : Outcome(NoOp, n) = {}
BY FFSAssumption DEF Outcome, NoOp
(* A power cut.                                                            *)
LEMMA CrashKeeps ==
  ASSUME FSInv, Crash
  PROVE  FSInv'
<1>1. PICK e \in Effects : Primitive(e)
  BY DEF Crash
<1>2. /\ pc' = "off" /\ op' = NoOp /\ stream' = NoStream
      /\ area' = 0 /\ gen' = 0 /\ dir' = <<>> /\ logUsed' = 0 /\ dataEnd' = 0
      /\ left' = {} /\ cur' = 0 /\ nrec' = 0 /\ fails' = fails /\ allowed' = allowed
  BY DEF Crash
<1>3. /\ (Valid(0) \/ Valid(1))' => GoodLog(log'[NewestArea'])
      /\ \A n \in Names : DurableFiles'[n] \in allowed[n]
      /\ super' \in [Areas -> Nat] /\ log' \in [Areas -> Logs] /\ data' \in [Areas -> Pools]
  BY <1>1, FlashSafe
<1>4. GenInv' /\ SpanInv'
  BY GenInvStep, SpanCrash DEF FSInv, Next
<1>5. TypeOK'
  BY <1>2, <1>3, NoneTyped, FFSAssumption DEF FSInv, TypeOK, Logs, Pools, Areas, Pcs
<1>6. OpInv'
  BY <1>2, NoneTyped DEF FSInv, OpInv, Laying, Mounting, Compacts
<1>7. AskInv' /\ DirInv' /\ LaidInv'
  BY <1>2 DEF AskInv, DirInv, LaidInv, Adding, Laying, UpPcs
<1>8. SpaceInv'
  BY <1>2, NoneTyped DEF SpaceInv, UpPcs, Placing
<1>9. StreamInv'
  BY <1>2, NoneTyped DEF StreamInv
<1>10. Promised' /\ FlashInv'
  BY <1>2, <1>3 DEF FSInv, Promised, FlashInv, Adding, Laying, Mounting
<1>11. QED BY <1>4, <1>5, <1>6, <1>7, <1>8, <1>9, <1>10 DEF FSInv

-----------------------------------------------------------------------------
(* Power, mount and format.                                                *)

(* The files a mount would find depend on the flash alone.                 *)
LEMMA SameFlash ==
  ASSUME UNCHANGED flash
  PROVE  DurableFiles' = DurableFiles /\ NewestArea' = NewestArea /\ ((Valid(0) \/ Valid(1))' <=> Valid(0) \/ Valid(1))
BY DEF flash, DurableFiles, NewestArea, LogEnd, FileIn, Newest, Read, Valid

(* Power-up, and the start of a mount.                                     *)
LEMMA PowerKeeps ==
  ASSUME FSInv, PowerOn \/ Format
  PROVE  FSInv'
<1>1. /\ UNCHANGED <<super, log, data, area, gen, dir, logUsed, dataEnd, stream, op, left, cur, nrec, fails, allowed>>
      /\ \/ pc = "off" /\ pc' = "mount"
         \/ pc = "unformatted" /\ pc' = "erase1"
  BY DEF PowerOn, Format, flash, ram
<1>2. DurableFiles' = DurableFiles /\ NewestArea' = NewestArea /\ ((Valid(0) \/ Valid(1))' <=> Valid(0) \/ Valid(1))
  BY <1>1, SameFlash DEF flash
<1>3. GenInv' /\ SpanInv'
  BY GenInvStep, SpanMounts DEF FSInv, Next, Steps
<1>4. op = NoOp /\ (pc = "off" => ~ stream.active)
  BY <1>1 DEF FSInv, OpInv, StreamInv, UpPcs
<1>5. TypeOK'
  BY <1>1 DEF FSInv, TypeOK, Pcs
<1>6. OpInv'
  BY <1>1, <1>2, <1>4, NoneTyped DEF FSInv, OpInv, Laying, Mounting, Compacts
<1>7. AskInv' /\ DirInv' /\ LaidInv'
  BY <1>1 DEF AskInv, DirInv, LaidInv, Adding, Laying, UpPcs
<1>8. SpaceInv'
  BY <1>1, <1>4, NoneTyped DEF SpaceInv, UpPcs, Placing
<1>9. StreamInv'
  BY <1>1, <1>4, NoneTyped DEF FSInv, StreamInv, UpPcs
<1>10. Promised' /\ FlashInv'
  BY <1>1, <1>2, <1>4, NoneTyped, NoOutcome DEF FSInv, Promised, FlashInv, Adding, Laying, Mounting
<1>11. QED BY <1>3, <1>5, <1>6, <1>7, <1>8, <1>9, <1>10 DEF FSInv

(* mount() begins.                                                         *)
LEMMA MountKeeps ==
  ASSUME FSInv, StartMount
  PROVE  FSInv'
<1>1. /\ UNCHANGED <<super, log, data, op, left, cur, nrec, fails, allowed>>
      /\ pc = "mount" /\ dir' = <<>> /\ logUsed' = 0 /\ dataEnd' = 0 /\ stream' = NoStream
      /\ \/ (Valid(0) \/ Valid(1)) /\ area' = NewestArea /\ gen' = super[NewestArea] /\ pc' = "replay"
         \/ ~ (Valid(0) \/ Valid(1)) /\ pc' = "unformatted" /\ UNCHANGED <<area, gen>>
  BY DEF StartMount, flash
<1>2. DurableFiles' = DurableFiles /\ NewestArea' = NewestArea /\ ((Valid(0) \/ Valid(1))' <=> Valid(0) \/ Valid(1))
  BY <1>1, SameFlash DEF flash
<1>3. GenInv' /\ SpanInv'
  BY GenInvStep, SpanMounts DEF FSInv, Next, Steps
<1>4. pc' = "unformatted" => op = NoOp
  BY <1>1 DEF FSInv, OpInv, Mounting
<1>5. TypeOK'
  BY <1>1, NoneTyped, FFSAssumption DEF FSInv, TypeOK, Pcs, Areas, NewestArea
<1>6. OpInv'
  BY <1>1, <1>2, <1>4, NoneTyped DEF FSInv, OpInv, Laying, Mounting, Compacts
<1>7. AskInv' /\ LaidInv'
  BY <1>1 DEF AskInv, LaidInv, Adding, Laying
<1>8. DirInv'
  <2>1. \A n \in Names : ExtentIn(log[area'], 0, n) = {}
    BY ExtentNone
  <2>2. QED BY <1>1, <2>1, NoneTyped DEF DirInv, UpPcs
<1>9. SpaceInv'
  BY <1>1, NoneTyped DEF SpaceInv, UpPcs, Placing
<1>10. StreamInv'
  BY <1>1, NoneTyped DEF FSInv, StreamInv
<1>11. Promised' /\ FlashInv'
  BY <1>1, <1>2 DEF FSInv, Promised, FlashInv, Acknowledged, Adding, Laying, Mounting
<1>12. QED BY <1>3, <1>5, <1>6, <1>7, <1>8, <1>9, <1>10, <1>11 DEF FSInv

(* One more slot of the log: its record's word, then the earlier ones'.    *)
LEMMA ExtentNext ==
  ASSUME NEW L, NEW k \in Nat, NEW n
  PROVE  ExtentIn(L, k + 1, n) = After(L[k + 1], ExtentIn(L, k, n), n)
BY ExtentKept, ExtentNew DEF After

(* Where mount() is while it replays the log.                              *)
LEMMA ReplayLog ==
  ASSUME FSInv, pc = "replay"
  PROVE  /\ NewestArea = area /\ (Valid(0) \/ Valid(1)) /\ area \in Areas
         /\ log[area] \in Logs /\ GoodLog(log[area]) /\ stream = NoStream
         /\ logUsed \in Nat /\ EndOf(log[area]) \in 0 .. LogRecords /\ logUsed <= EndOf(log[area])
         /\ ~ AtLogEnd => logUsed + 1 <= EndOf(log[area]) /\ logUsed + 1 \in Slots
         /\ AtLogEnd => logUsed = EndOf(log[area])
<1>1. NewestArea = area /\ (Valid(0) \/ Valid(1)) /\ area \in Areas
  BY InUse DEF FSInv, Mounted, Areas
<1>2. log[area] \in Logs /\ GoodLog(log[area]) /\ stream = NoStream
  BY <1>1 DEF FSInv, TypeOK, Logs, FlashInv, StreamInv
<1>3. logUsed \in Nat /\ logUsed <= EndOf(log[area])
  BY DEF FSInv, SpanInv, SpanTypes
<1>4. EndOf(log[area]) \in 0 .. LogRecords /\ Ends(log[area], EndOf(log[area])) /\ LogRecords \in Nat
  BY EndIs, FFSAssumption
<1>5. ~ AtLogEnd => logUsed # EndOf(log[area])
  BY <1>4 DEF AtLogEnd, Ends
<1>6. AtLogEnd => logUsed = EndOf(log[area])
  <2>1. ASSUME AtLogEnd, logUsed < EndOf(log[area]) PROVE FALSE
    <3>1. logUsed + 1 \in 1 .. EndOf(log[area]) /\ logUsed < LogRecords
      BY <2>1, <1>3, <1>4
    <3>2. QED BY <3>1, <2>1, <1>4 DEF AtLogEnd, Ends
  <2>2. QED BY <2>1, <1>3, <1>4
<1>7. ~ AtLogEnd => logUsed + 1 <= EndOf(log[area]) /\ logUsed + 1 \in Slots
  BY <1>3, <1>4, <1>5 DEF Slots
<1>8. QED BY <1>1, <1>2, <1>3, <1>4, <1>6, <1>7

(* mount() replays one record.                                             *)
LEMMA ReplayKeeps ==
  ASSUME FSInv, ReplayRecord
  PROVE  FSInv'
<1> DEFINE L == log[area]
           r == L[logUsed + 1]
<1>1. /\ UNCHANGED <<super, log, data, area, gen, stream, pc, op, left, cur, nrec, fails, allowed>>
      /\ pc = "replay" /\ ~ AtLogEnd /\ logUsed' = logUsed + 1
  BY DEF ReplayRecord, flash
<1>2. \/ /\ r.kind = "file"
         /\ dataEnd' = IF r.off + r.size > dataEnd THEN r.off + r.size ELSE dataEnd
         /\ dir' = IF r.name \in DOMAIN dir \/ Cardinality(DOMAIN dir) < MaxFiles
                   THEN SetEntry(r.name, r.off, r.size) ELSE dir
      \/ r.kind = "del" /\ dir' = RemoveEntry(r.name) /\ dataEnd' = dataEnd
      \/ r.kind = "torn" /\ dir' = dir /\ dataEnd' = dataEnd
  BY DEF ReplayRecord
<1>3. DurableFiles' = DurableFiles /\ NewestArea' = NewestArea /\ ((Valid(0) \/ Valid(1))' <=> Valid(0) \/ Valid(1))
  BY <1>1, SameFlash DEF flash
<1>4. GenInv' /\ SpanInv'
  BY GenInvStep, SpanMounts DEF FSInv, Next, Steps
<1>5. L \in Logs /\ GoodLog(L) /\ logUsed + 1 <= EndOf(L) /\ logUsed + 1 \in Slots /\ logUsed \in Nat
      /\ EndOf(L) \in 0 .. LogRecords /\ stream = NoStream
  BY <1>1, ReplayLog
<1>6. r = Torn \/ (r \in Records /\ r.kind \in {"file", "del"} /\ r.name \in Names)
  <2>1. r # Erased
    BY <1>1 DEF ReplayRecord, AtLogEnd
  <2>2. QED BY <2>1, <1>5, SlotIs
<1>7. \A n \in Names : ExtentIn(L, logUsed, n) = IF n \in DOMAIN dir THEN {dir[n]} ELSE {}
  BY <1>1 DEF FSInv, DirInv
<1>8. \A n \in Names : ExtentIn(L, logUsed + 1, n) = After(r, ExtentIn(L, logUsed, n), n)
  BY <1>5, ExtentNext
<1>9. DOMAIN dir \subseteq Names /\ \A n \in DOMAIN dir : dir[n] \in Extents
  BY DEF FSInv, TypeOK
<1>10. r.kind = "file" => r \in Records /\ r.name \in Names /\ r.off \in 0 .. Pool /\ r.size \in 0 .. MaxSize
         /\ r.off + r.size <= Pool /\ dir' = SetEntry(r.name, r.off, r.size)
  <2>1. SUFFICES ASSUME r.kind = "file" PROVE
           r \in Records /\ r.name \in Names /\ r.off \in 0 .. Pool /\ r.size \in 0 .. MaxSize
         /\ r.off + r.size <= Pool /\ dir' = SetEntry(r.name, r.off, r.size)
    OBVIOUS
  <2>2. r \in Records /\ r.name \in Names /\ r.off \in 0 .. Pool /\ r.size \in 0 .. MaxSize
    BY <2>1, <1>6 DEF Torn, Records
  <2>3. r.off + r.size <= Pool
    BY <2>1, <1>5 DEF GoodLog, InPool
  <2>4. Few(Live(L, logUsed + 1))
    BY <1>5 DEF GoodLog
  <2>5. DOMAIN dir \cup {r.name} \subseteq Live(L, logUsed + 1)
    BY <2>1, <2>2, <1>7, <1>8, <1>9 DEF Live, After, IsFor
  <2>6. Few(DOMAIN dir \cup {r.name}) /\ Few(DOMAIN dir)
    BY <2>4, <2>5, FewSubset
  <2>7. r.name \in DOMAIN dir \/ Cardinality(DOMAIN dir) < MaxFiles
    <3>1. IsFiniteSet(DOMAIN dir) /\ Cardinality(DOMAIN dir) \in Nat
      BY <2>6, FS_CardinalityType DEF Few
    <3>2. r.name \notin DOMAIN dir => Cardinality(DOMAIN dir \cup {r.name}) = Cardinality(DOMAIN dir) + 1
      BY <3>1, FS_AddElement
    <3>3. QED BY <3>1, <3>2, <2>6, FFSAssumption DEF Few
  <2>8. QED BY <1>2, <2>1, <2>2, <2>3, <2>7
<1>11. \/ /\ r.kind = "file" /\ dir' = SetEntry(r.name, r.off, r.size)
          /\ dataEnd' = IF r.off + r.size > dataEnd THEN r.off + r.size ELSE dataEnd
       \/ r.kind = "del" /\ dir' = RemoveEntry(r.name) /\ dataEnd' = dataEnd
       \/ r.kind = "torn" /\ dir' = dir /\ dataEnd' = dataEnd
  BY <1>2, <1>10
<1>12. dataEnd' \in 0 .. Pool /\ dataEnd <= dataEnd' /\ (r.kind = "file" => r.off + r.size <= dataEnd')
  <2>1. dataEnd \in 0 .. Pool /\ Pool \in Nat
    BY FFSAssumption DEF FSInv, TypeOK
  <2>2. r.kind = "file" => r.off + r.size \in 0 .. Pool
    BY <1>10, <2>1, FFSAssumption
  <2>3. QED BY <2>1, <2>2, <1>11
<1>13. DOMAIN dir' \subseteq Names /\ \A n \in DOMAIN dir' : dir'[n] \in Extents
  BY <1>6, <1>9, <1>10, <1>11 DEF SetEntry, RemoveEntry, Extents, Torn
<1>14. TypeOK'
  <2>1. logUsed' \in 0 .. LogRecords
    BY <1>1, <1>5 DEF Slots
  <2>2. QED BY <1>1, <1>12, <1>13, <2>1 DEF FSInv, TypeOK
<1>15. OpInv'
  BY <1>1, <1>3 DEF FSInv, OpInv
<1>16. AskInv' /\ LaidInv'
  BY <1>1 DEF AskInv, LaidInv, Adding, Laying
<1>17. DirInv'
  <2>1. ASSUME NEW n \in Names PROVE ExtentIn(L, logUsed + 1, n) = IF n \in DOMAIN dir' THEN {dir'[n]} ELSE {}
    <3>1. ExtentIn(L, logUsed + 1, n) = After(r, IF n \in DOMAIN dir THEN {dir[n]} ELSE {}, n)
      BY <1>7, <1>8
    <3>2. CASE r.kind = "file" /\ dir' = SetEntry(r.name, r.off, r.size)
      BY <3>1, <3>2 DEF After, IsFor, SetEntry
    <3>3. CASE r.kind = "del" /\ dir' = RemoveEntry(r.name)
      BY <3>1, <3>3 DEF After, IsFor, RemoveEntry
    <3>4. CASE r.kind = "torn" /\ dir' = dir
      BY <3>1, <3>4 DEF After, IsFor
    <3>5. QED BY <1>11, <3>2, <3>3, <3>4
  <2>2. QED BY <2>1, <1>1 DEF DirInv, UpPcs
<1>18. SpaceInv'
  <2>1. \A n \in DOMAIN dir : dir[n].off + dir[n].size <= dataEnd
    BY <1>1 DEF FSInv, SpaceInv, Base, Placing
  <2>2. ASSUME NEW n \in DOMAIN dir' PROVE dir'[n].off + dir'[n].size <= dataEnd'
    <3>1. CASE n \in DOMAIN dir /\ dir'[n] = dir[n]
      <4>1. dir[n].off + dir[n].size <= dataEnd /\ dir[n].off \in Int /\ dir[n].size \in Int
        BY <2>1, <3>1, <1>9, FFSAssumption DEF Extents
      <4>2. dataEnd \in Int /\ dataEnd' \in Int
        BY <1>12, FFSAssumption DEF FSInv, TypeOK
      <4>3. QED BY <3>1, <4>1, <4>2, <1>12
    <3>2. CASE r.kind = "file" /\ dir'[n] = [off |-> r.off, size |-> r.size]
      BY <3>2, <1>12
    <3>3. QED BY <1>11, <3>1, <3>2 DEF SetEntry, RemoveEntry
  <2>3. QED BY <1>1, <2>2 DEF SpaceInv, UpPcs, Placing, Base
<1>19. StreamInv'
  BY <1>1, <1>5, NoneTyped DEF FSInv, StreamInv
<1>20. Promised' /\ FlashInv'
  BY <1>1, <1>3 DEF FSInv, Promised, FlashInv, Acknowledged
<1>21. QED BY <1>4, <1>14, <1>15, <1>16, <1>17, <1>18, <1>19, <1>20 DEF FSInv

(* The end of the data pool that the mount finds.                          *)
LEMMA ScanIs ==
  ASSUME dataEnd \in 0 .. Pool
  PROVE  /\ ScannedEnd \in 0 .. Pool /\ dataEnd <= ScannedEnd
         /\ \A u \in Units : u >= ScannedEnd => data[area][u] = Blank
<1>0. Pool \in Nat
  BY FFSAssumption
<1>1. CASE Occupied = {}
  BY <1>0, <1>1 DEF ScannedEnd, Occupied
<1>2. CASE Occupied # {}
  <2>1. Occupied \in SUBSET (0 .. Pool)
    BY <1>0 DEF Occupied, Units
  <2>2. \E x \in Occupied : \A y \in Occupied : y <= x
    BY <1>0, <1>2, <2>1, GreatestOf
  <2>3. \E x \in Occupied : \A y \in Occupied : x >= y
    BY <2>1, <2>2
  <2>4. Max(Occupied) \in Occupied /\ \A y \in Occupied : Max(Occupied) >= y
    BY <2>3 DEF Max
  <2>5. ScannedEnd = Max(Occupied) + 1
    BY <1>2 DEF ScannedEnd
  <2> DEFINE m == Max(Occupied)
  <2>6. m \in Units /\ m >= dataEnd
    BY <2>4 DEF Occupied
  <2>7. ASSUME NEW u \in Units, u >= m + 1 PROVE data[area][u] = Blank
    <3>1. u >= dataEnd /\ ~ (m >= u)
      BY <2>6, <2>7, <1>0 DEF Units
    <3>2. u \notin Occupied
      BY <2>4, <3>1
    <3>3. QED BY <3>1, <3>2 DEF Occupied
  <2> HIDE DEF m
  <2>8. m + 1 \in 0 .. Pool /\ dataEnd <= m + 1
    BY <2>6, <1>0 DEF Units
  <2>9. QED BY <2>5, <2>7, <2>8 DEF m
<1>3. QED BY <1>1, <1>2

(* The end of a mount: the directory is what the log says, and the files   *)
(* are what the flash holds.                                               *)
LEMMA MountedFiles ==
  ASSUME FSInv, pc = "replay", AtLogEnd, NEW n \in Names
  PROVE  /\ ExtentIn(log[area], EndOf(log[area]), n) = IF n \in DOMAIN dir THEN {dir[n]} ELSE {}
         /\ DurableFiles[n] = FileAt(n)
<1>1. logUsed = EndOf(log[area]) /\ NewestArea = area /\ (Valid(0) \/ Valid(1))
  BY ReplayLog
<1>2. ExtentIn(log[area], EndOf(log[area]), n) = IF n \in DOMAIN dir THEN {dir[n]} ELSE {}
  BY <1>1 DEF FSInv, DirInv
<1>3. DurableFiles[n] = FileOf(log[area], data[area], n)
  BY <1>1, DurableIs
<1>4. CASE n \in DOMAIN dir
  <2>1. dir[n] \in ExtentIn(log[area], EndOf(log[area]), n)
    BY <1>2, <1>4
  <2>2. FileOf(log[area], data[area], n) = ReadOf(data[area], dir[n].off, dir[n].size)
    BY <2>1, FileOfIs
  <2>3. QED BY <1>2, <1>3, <1>4, <2>2, UpFileAt
<1>5. CASE n \notin DOMAIN dir
  BY <1>2, <1>3, <1>5, FileOfIs DEF FileAt
<1>6. QED BY <1>4, <1>5

(* mount() ends: with a call's outcome, if it was a compaction's.          *)
LEMMA EndMountKeeps ==
  ASSUME FSInv, EndMount
  PROVE  FSInv'
<1>1. /\ UNCHANGED <<super, log, data, area, gen, dir, logUsed, stream, left, cur, nrec, fails>>
      /\ pc = "replay" /\ AtLogEnd /\ dataEnd' = ScannedEnd
  BY DEF EndMount, flash
<1>2. \/ op = NoOp /\ op' = NoOp /\ pc' = "idle" /\ allowed' = [n \in Names |-> {FileAt(n)}]
      \/ op.kind = "begin" /\ op' = op /\ pc' = "reserve" /\ allowed' = allowed
      \/ op.kind # "none" /\ op' = NoOp /\ pc' = "idle" /\ allowed' = Acknowledged(op)
  <2>1. op.kind = "none" => op = NoOp
    BY DEF FSInv, OpInv
  <2>2. op.kind # "none" => op.ok
    BY <1>1 DEF FSInv, OpInv, Mounting
  <2>3. QED BY <2>1, <2>2 DEF EndMount, Finish
<1>3. DurableFiles' = DurableFiles /\ NewestArea' = NewestArea /\ ((Valid(0) \/ Valid(1))' <=> Valid(0) \/ Valid(1))
  BY <1>1, SameFlash DEF flash
<1>4. GenInv' /\ SpanInv'
  BY GenInvStep, SpanMounts DEF FSInv, Next, Steps
<1>5. stream = NoStream
  BY <1>1, ReplayLog
<1>6. dataEnd \in 0 .. Pool /\ ScannedEnd \in 0 .. Pool /\ dataEnd <= ScannedEnd
      /\ \A u \in Units : u >= ScannedEnd => data[area][u] = Blank
  BY ScanIs DEF FSInv, TypeOK
<1>7. \A n \in Names : allowed[n] \subseteq Contents \cup {Absent} /\ DurableFiles[n] \in allowed[n]
                       /\ Outcome(op, n) \subseteq allowed[n]
  BY <1>1 DEF FSInv, Promised, Mounting
<1>8. ASSUME NEW n \in Names
      PROVE  DurableFiles[n] \in allowed'[n] /\ allowed'[n] \subseteq Contents \cup {Absent}
  <2>1. DurableFiles[n] = FileAt(n)
    BY <1>1, MountedFiles
  <2>2. op.kind # "none" => DurableFiles[n] \in Acknowledged(op)[n]
    BY <1>1 DEF FSInv, Promised, Mounting
  <2>3. Acknowledged(op)[n] \subseteq allowed[n]
    BY <1>7 DEF Acknowledged
  <2>4. QED BY <1>2, <1>7, <2>1, <2>2, <2>3
<1>9. TypeOK'
  <2>1. op' \in Ops
    BY <1>2, NoneTyped DEF FSInv, TypeOK
  <2>2. DOMAIN allowed' = Names
    BY <1>2 DEF FSInv, TypeOK, Acknowledged
  <2>3. pc' \in Pcs
    BY <1>2 DEF Pcs
  <2>4. QED BY <1>1, <1>6, <2>1, <2>2, <2>3 DEF FSInv, TypeOK
<1>10. OpInv'
  BY <1>1, <1>2, NoneTyped DEF FSInv, OpInv, Laying, Mounting, Compacts
<1>11. AskInv' /\ LaidInv'
  BY <1>2 DEF AskInv, LaidInv, Adding, Laying
<1>12. DirInv'
  <2>1. \A n \in Names : ExtentIn(log[area], EndOf(log[area]), n) = IF n \in DOMAIN dir THEN {dir[n]} ELSE {}
    BY <1>1, MountedFiles
  <2>2. QED BY <1>1, <1>2, <2>1 DEF DirInv, Known
<1>13. SpaceInv'
  <2>1. ASSUME NEW n \in DOMAIN dir PROVE dir[n].off + dir[n].size <= ScannedEnd
    <3>1. dir[n].off \in Nat /\ dir[n].size \in Nat /\ dir[n].off + dir[n].size <= Base /\ Base <= dataEnd /\ Base \in 0 .. Pool
      BY <1>1, UpExtents, FFSAssumption
    <3>2. QED BY <3>1, <1>6, FFSAssumption
  <2>2. ~ Placing' /\ pc' \notin {"data", "body", "commit", "replay"}
    BY <1>2, NoneTyped DEF Placing
  <2>3. QED BY <1>1, <1>6, <2>1, <2>2 DEF SpaceInv, Base
<1>14. StreamInv'
  BY <1>1, <1>2, <1>5, NoneTyped DEF StreamInv
<1>15. Promised' /\ FlashInv'
  <2>1. pc' \notin Adding \cup Laying \cup Mounting /\ pc' # "format"
    BY <1>2 DEF Adding, Laying, Mounting
  <2>2. Promised'
    BY <1>3, <1>8, <2>1 DEF Promised
  <2>3. FlashInv'
    BY <1>1, <1>3, <2>1 DEF FSInv, FlashInv
  <2>4. QED BY <2>2, <2>3
<1>16. QED BY <1>4, <1>9, <1>10, <1>11, <1>12, <1>13, <1>14, <1>15 DEF FSInv

-----------------------------------------------------------------------------
(* Steps between two calls.                                                *)

(* Reading nothing.                                                        *)
LEMMA ReadNone ==
  ASSUME NEW D, NEW off
  PROVE  ReadOf(D, off, 0) = <<>>
<1>1. ReadOf(D, off, 0) \in [1 .. 0 -> {}]
  BY DEF ReadOf
<1>2. ReadOf(D, off, 0) \in Seq({}) /\ Len(ReadOf(D, off, 0)) = 0
  BY <1>1
<1>3. QED BY <1>2, EmptySeq

(* A step between two calls that leaves the flash and the directory alone. *)
StreamKept(s, to) ==
  /\ s \in Streams
  /\ ~ s.active => s = NoStream
  /\ s.active =>
       /\ s.name \in Names /\ s.start + s.size <= to
       /\ s.written <= s.size /\ Len(s.body) = s.written
       /\ ReadOf(data[area], s.start, s.written) = s.body
       /\ \A u \in Units : s.start + s.written <= u /\ u < s.start + s.size => data[area][u] = Blank
       /\ \A n \in DOMAIN dir : Apart(dir[n], [off |-> s.start, size |-> s.size])

(* A step that ends idle and may only open, close or keep the stream.      *)
LEMMA IdleKeeps ==
  ASSUME FSInv, pc \in {"idle", "reserve"}, pc' = "idle", op' = NoOp,
         UNCHANGED <<super, log, data, area, gen, dir, logUsed, left, cur, nrec, fails>>,
         allowed' = allowed \/ (allowed' = Acknowledged(op) /\ \A n \in Names : Outcome(op, n) = {}),
         dataEnd' \in 0 .. Pool, dataEnd <= dataEnd', StreamKept(stream', dataEnd'),
         GenInv', SpanInv'
  PROVE  FSInv'
<1>0. pc \in UpPcs /\ dataEnd \in 0 .. Pool
  BY DEF UpPcs, FSInv, TypeOK
<1>1. Base = dataEnd /\ ~ Placing' /\ Base' = dataEnd'
  <2>1. ~ Placing
    BY DEF FSInv, OpInv, NoOp, Placing
  <2>2. ~ Placing'
    BY DEF Placing
  <2>3. QED BY <2>1, <2>2 DEF Base
<1>2. \A n \in Names : allowed'[n] = allowed[n]
  BY DEF Acknowledged
<1>3. TypeOK'
  <2>1. DOMAIN allowed' = Names
    BY DEF FSInv, TypeOK, Acknowledged
  <2>2. QED BY <2>1, NoneTyped DEF FSInv, TypeOK, Pcs, StreamKept
<1>4. OpInv'
  BY NoneTyped DEF FSInv, OpInv, Laying, Mounting, Compacts
<1>5. AskInv' /\ LaidInv'
  BY DEF AskInv, LaidInv, Adding, Laying
<1>6. DirInv'
  BY <1>0 DEF FSInv, DirInv, Known
<1>7. SpaceInv'
  <2>1. ASSUME NEW n \in DOMAIN dir PROVE dir[n].off + dir[n].size <= dataEnd'
    <3>1. dir[n].off \in Nat /\ dir[n].size \in Nat /\ dir[n].off + dir[n].size <= dataEnd
      BY <1>0, <1>1, UpExtents, FFSAssumption
    <3>2. QED BY <3>1, <1>0, FFSAssumption
  <2>2. \A u \in Units : u >= dataEnd => data[area][u] = Blank
    BY <1>0 DEF FSInv, SpaceInv
  <2>3. \A u \in Units : u >= dataEnd' => u >= dataEnd
    BY <1>0, FFSAssumption DEF Units
  <2>4. QED BY <1>1, <2>1, <2>2, <2>3 DEF SpaceInv
<1>8. StreamInv'
  BY <1>1, NoneTyped DEF StreamKept, StreamInv, StreamExtent, UpPcs
<1>9. DurableFiles' = DurableFiles /\ NewestArea' = NewestArea /\ ((Valid(0) \/ Valid(1))' <=> Valid(0) \/ Valid(1))
  BY SameFlash DEF flash
<1>10. Promised'
  BY <1>2, <1>9 DEF FSInv, Promised, Adding, Laying, Mounting
<1>11. FlashInv'
  BY <1>9 DEF FSInv, FlashInv
<1>12. QED BY <1>3, <1>4, <1>5, <1>6, <1>7, <1>8, <1>10, <1>11 DEF FSInv

(* Between two calls the stream is well kept.                              *)
LEMMA StreamKeptNow ==
  ASSUME FSInv, pc = "idle"
  PROVE  StreamKept(stream, dataEnd) /\ op = NoOp
<1>1. op = NoOp
  BY DEF FSInv, OpInv
<1>2. Base = dataEnd
  BY DEF Base, Placing
<1>3. QED BY <1>1, <1>2 DEF FSInv, StreamInv, StreamKept, StreamExtent, UpPcs, TypeOK

(* A reservation takes blank cells behind every file.                      *)
LEMMA Reserved ==
  ASSUME FSInv, pc \in {"idle", "reserve"}, NEW o, o.name \in Names, o.size \in 0 .. MaxSize,
         Room(o.size), Reserve(o)
  PROVE  dataEnd' \in 0 .. Pool /\ dataEnd <= dataEnd' /\ StreamKept(stream', dataEnd')
<1>0. pc \in UpPcs /\ dataEnd \in 0 .. Pool /\ Pool \in Nat /\ o.size \in Nat /\ o.size <= Pool - dataEnd
  BY FFSAssumption DEF UpPcs, FSInv, TypeOK, Room
<1>1. dataEnd' = dataEnd + o.size /\ dataEnd' \in 0 .. Pool /\ dataEnd <= dataEnd'
  BY <1>0 DEF Reserve
<1>2. stream'.active /\ stream'.name = o.name /\ stream'.start = dataEnd /\ stream'.size = o.size
      /\ stream'.written = 0 /\ stream'.body = <<>>
  BY DEF Reserve
<1>3. stream' \in Streams
  BY <1>0, FFSAssumption DEF Reserve, Streams
<1>4. \A u \in Units : u >= dataEnd => data[area][u] = Blank
  BY <1>0 DEF FSInv, SpaceInv
<1>5. ASSUME NEW n \in DOMAIN dir PROVE Apart(dir[n], [off |-> stream'.start, size |-> stream'.size])
  <2>1. ~ Placing
    BY DEF FSInv, OpInv, NoOp, Placing
  <2>2. dir[n].off + dir[n].size <= dataEnd
    BY <1>0, <2>1, UpExtents DEF Base
  <2>3. QED BY <2>2, <1>2 DEF Apart
<1>6. ReadOf(data[area], stream'.start, stream'.written) = <<>>
  BY <1>2, ReadNone
<1>7. \A u \in Units : stream'.start + stream'.written <= u => u >= dataEnd
  BY <1>0, <1>2 DEF Units
<1>8. QED BY <1>0, <1>1, <1>2, <1>3, <1>4, <1>5, <1>6, <1>7 DEF StreamKept

(* The reservation after a compaction.                                     *)
LEMMA ReserveKeeps ==
  ASSUME FSInv, ReserveAfterCompaction
  PROVE  FSInv'
<1>1. /\ UNCHANGED <<super, log, data, area, gen, dir, logUsed, left, cur, nrec, fails>>
      /\ pc = "reserve" /\ pc' = "idle" /\ op' = NoOp /\ allowed' = Acknowledged(op)
  BY DEF ReserveAfterCompaction, Finish, flash
<1>2. op.kind = "begin" /\ op.name \in Names /\ op.size \in 0 .. MaxSize /\ op.to = Absent /\ ~ stream.active
  BY <1>1 DEF FSInv, OpInv, Compacts, TypeOK, Ops, StreamInv
<1>3. \A n \in Names : Outcome(op, n) = {}
  BY <1>2, FFSAssumption DEF Outcome
<1>4. GenInv' /\ SpanInv'
  BY GenInvStep, SpanMounts DEF FSInv, Next, Steps
<1>5. dataEnd' \in 0 .. Pool /\ dataEnd <= dataEnd' /\ StreamKept(stream', dataEnd')
  <2>1. CASE Room(op.size)
    BY <1>1, <1>2, <2>1, Reserved DEF ReserveAfterCompaction
  <2>2. CASE ~ Room(op.size)
    <3>1. UNCHANGED <<stream, dataEnd>>
      BY <2>2 DEF ReserveAfterCompaction
    <3>2. stream = NoStream /\ stream \in Streams /\ dataEnd \in 0 .. Pool
      BY <1>2 DEF FSInv, StreamInv, TypeOK
    <3>3. QED BY <3>1, <3>2, <1>2, FFSAssumption DEF StreamKept
  <2>3. QED BY <2>1, <2>2
<1>6. QED BY <1>1, <1>3, <1>4, <1>5, IdleKeeps

(* ffs_stream_begin() without a compaction.                                *)
LEMMA BeginKeeps ==
  ASSUME FSInv, NEW n \in Names, NEW size \in 0 .. MaxSize, StreamBegin(n, size), Room(size)
  PROVE  FSInv'
<1> DEFINE o == [NoOp EXCEPT !.kind = "begin", !.name = n, !.size = size]
<1>1. /\ UNCHANGED <<super, log, data, area, gen, dir, logUsed, left, cur, nrec, fails, pc, op, allowed>>
      /\ pc = "idle" /\ Reserve(o)
  BY DEF StreamBegin, flash
<1>2. o.name = n /\ o.size = size
  BY DEF NoOp
<1>3. GenInv' /\ SpanInv'
  BY GenInvStep, SpanCalls DEF FSInv, Next, Calls
<1>4. dataEnd' \in 0 .. Pool /\ dataEnd <= dataEnd' /\ StreamKept(stream', dataEnd')
  BY <1>1, <1>2, Reserved
<1>5. op = NoOp
  BY <1>1, StreamKeptNow
<1>6. pc \in {"idle", "reserve"} /\ pc' = "idle" /\ op' = NoOp /\ allowed' = allowed
      /\ UNCHANGED <<super, log, data, area, gen, dir, logUsed, left, cur, nrec, fails>>
  BY <1>1, <1>5
<1>7. QED BY <1>3, <1>4, <1>6, IdleKeeps

(* A stream that is given up.                                              *)
LEMMA DropKeeps ==
  ASSUME FSInv, stream' = NoStream, pc = "idle", GenInv', SpanInv',
         UNCHANGED <<super, log, data, area, gen, dir, logUsed, dataEnd, left, cur, nrec, fails, pc, op, allowed>>
  PROVE  FSInv'
<1>1. op = NoOp
  BY StreamKeptNow
<1>2. dataEnd \in 0 .. Pool
  BY DEF FSInv, TypeOK
<1>3. StreamKept(stream', dataEnd')
  BY NoneTyped DEF StreamKept
<1>4. dataEnd' \in 0 .. Pool /\ dataEnd <= dataEnd'
  BY <1>2, FFSAssumption
<1>5. pc \in {"idle", "reserve"} /\ pc' = "idle" /\ op' = NoOp /\ allowed' = allowed
      /\ UNCHANGED <<super, log, data, area, gen, dir, logUsed, left, cur, nrec, fails>>
  BY <1>1
<1>6. QED BY <1>3, <1>4, <1>5, IdleKeeps

-----------------------------------------------------------------------------
(* Calls that start.                                                       *)

(* A call that starts: the flash is as it was, and the history already     *)
(* allows what the call is about to do.                                    *)
LEMMA CallStarts ==
  ASSUME FSInv, pc = "idle", pc' \in {"data", "body", "erase", "swrite"},
         UNCHANGED <<super, log, data, area, gen, dir, left, cur, nrec, fails>>,
         op' \in Ops, allowed' = MayBecome(op'), GenInv', SpanInv', OpInv', AskInv',
         stream' = stream \/ stream' = NoStream,
         op'.kind \in {"begin", "end"} => ~ stream'.active,
         pc' = "swrite" => stream'.active /\ stream'.written < stream'.size,
         \A n \in Names : Outcome(op', n) \subseteq Contents \cup {Absent},
         dataEnd' \in 0 .. Pool,
         Placing' => op'.off = dataEnd /\ dataEnd' = dataEnd + op'.size,
         ~ Placing' => dataEnd' = dataEnd,
         pc' = "body" /\ op'.kind \in {"write", "end"} =>
           /\ op'.off + op'.size <= dataEnd'
           /\ ReadOf(data[area], op'.off, op'.size) = op'.body
           /\ \A n \in DOMAIN dir : Apart(dir[n], OpExtent')
           /\ stream'.active => Apart(StreamExtent', OpExtent')
  PROVE  FSInv'
<1>0. pc \in UpPcs /\ op = NoOp /\ Base = dataEnd /\ dataEnd \in 0 .. Pool /\ Pool \in Nat
  BY StreamKeptNow, FFSAssumption DEF UpPcs, Base, Placing, FSInv, TypeOK
<1>1. Base' = dataEnd /\ dataEnd <= dataEnd'
  <2>1. op'.size \in Nat
    BY FFSAssumption DEF Ops
  <2>2. QED BY <1>0, <2>1 DEF Base
<1>2. TypeOK'
  <2>1. logUsed' \in 0 .. LogRecords
    BY FFSAssumption DEF SpanInv, SpanTypes, UpPcs
  <2>2. DOMAIN allowed' = Names
    BY DEF MayBecome
  <2>3. stream' \in Streams
    BY NoneTyped DEF FSInv, TypeOK
  <2>4. pc' \in Pcs
    BY DEF Pcs
  <2>5. QED BY <2>1, <2>2, <2>3, <2>4 DEF FSInv, TypeOK
<1>3. DirInv'
  BY <1>0 DEF FSInv, DirInv, Known
<1>4. SpaceInv'
  <2>1. \A n \in DOMAIN dir : dir[n].off + dir[n].size <= dataEnd
    BY <1>0, UpExtents
  <2>2. \A u \in Units : u >= dataEnd => data[area][u] = Blank
    BY <1>0 DEF FSInv, SpaceInv
  <2>3. \A u \in Units : u >= dataEnd' => u >= dataEnd
    BY <1>0, <1>1 DEF Units
  <2>4. pc' = "data" => op'.off = dataEnd
    BY DEF OpInv, Placing
  <2>5. QED BY <1>1, <2>1, <2>2, <2>3, <2>4 DEF SpaceInv, Placing
<1>5. StreamInv'
  <2>1. CASE stream' = NoStream
    BY <2>1, NoneTyped DEF StreamInv
  <2>2. CASE stream' = stream /\ stream.active
    BY <1>0, <1>1, <2>2 DEF FSInv, StreamInv, StreamExtent, UpPcs
  <2>3. CASE stream' = stream /\ ~ stream.active
    BY <2>3 DEF FSInv, StreamInv
  <2>4. QED BY <2>1, <2>2, <2>3
<1>6. LaidInv'
  BY DEF LaidInv
<1>7. DurableFiles' = DurableFiles /\ NewestArea' = NewestArea /\ ((Valid(0) \/ Valid(1))' <=> Valid(0) \/ Valid(1))
  BY SameFlash DEF flash
<1>8. Promised'
  <2>1. \A n \in Names : allowed'[n] = allowed[n] \cup Outcome(op', n)
    BY DEF MayBecome
  <2>2. \A n \in Names : DurableFiles[n] \in allowed[n] /\ allowed[n] \subseteq Contents \cup {Absent}
    BY DEF FSInv, Promised
  <2>3. pc' \notin Mounting
    BY DEF Mounting
  <2>4. QED BY <1>7, <2>1, <2>2, <2>3 DEF Promised
<1>9. FlashInv'
  BY <1>7 DEF FSInv, FlashInv
<1>10. QED BY <1>2, <1>3, <1>4, <1>5, <1>6, <1>8, <1>9 DEF FSInv

(* A call with contents or none as its body leaves contents or none.       *)
LEMMA ContentsOutcome ==
  ASSUME NEW o, o.body \in Contents \cup {Absent}, NEW n
  PROVE  Outcome(o, n) \subseteq Contents \cup {Absent}
BY DEF Outcome

(* ffs_write().                                                            *)
LEMMA WriteKeeps ==
  ASSUME FSInv, NEW n \in Names, NEW c \in Contents, Write(n, c)
  PROVE  FSInv'
<1> DEFINE o == [NoOp EXCEPT !.kind = "write", !.name = n, !.body = c, !.off = dataEnd, !.size = Len(c)]
<1>0. pc = "idle" /\ op = NoOp /\ dataEnd \in 0 .. Pool /\ Pool \in Nat
  BY StreamKeptNow, FFSAssumption DEF Write, Start, FSInv, TypeOK
<1>1. /\ UNCHANGED <<super, log, data, area, gen, dir, stream, left, cur, nrec, fails>>
      /\ op' = o /\ allowed' = MayBecome(o) /\ NewFileFits(n)
      /\ \/ Room(Len(c)) /\ dataEnd' = dataEnd + Len(c) /\ pc' = IF c = <<>> THEN "body" ELSE "data"
         \/ pc' = "erase" /\ dataEnd' = dataEnd
  BY DEF Write, Start, flash
<1>2. c \in Seq(Cells) /\ Len(c) \in 0 .. MaxSize /\ MaxSize \in Nat
  BY ContentsAre, FFSAssumption
<1>3. /\ o.kind = "write" /\ o.name = n /\ o.to = Absent /\ o.body = c /\ o.off = dataEnd /\ o.size = Len(c)
      /\ o \in Ops
  BY <1>0, <1>2, FFSAssumption DEF NoOp, Ops
<1> HIDE DEF o
<1>4. GenInv' /\ SpanInv'
  BY GenInvStep, SpanCalls DEF FSInv, Next, Calls
<1>5. OpInv'
  BY <1>1, <1>3 DEF FSInv, OpInv, Laying, Mounting, Compacts
<1>6. AskInv'
  BY <1>1, <1>3 DEF AskInv, NewFileFits
<1>7. dataEnd' \in 0 .. Pool
  BY <1>0, <1>1, <1>2 DEF Room
<1>8. Placing' => op'.off = dataEnd /\ dataEnd' = dataEnd + op'.size
  BY <1>1, <1>3 DEF Placing
<1>9. ~ Placing' => dataEnd' = dataEnd
  BY <1>1, <1>3 DEF Placing
<1>10. ASSUME pc' = "body"
       PROVE  /\ op'.off + op'.size <= dataEnd'
              /\ ReadOf(data[area], op'.off, op'.size) = op'.body
              /\ \A m \in DOMAIN dir : Apart(dir[m], OpExtent')
              /\ stream'.active => Apart(StreamExtent', OpExtent')
  <2>1. c = <<>> /\ Len(c) = 0 /\ op'.size = 0 /\ op'.off = dataEnd
    BY <1>1, <1>3, <1>10
  <2>2. ReadOf(data[area], op'.off, op'.size) = op'.body
    BY <1>1, <1>3, <2>1, ReadNone
  <2>3. QED BY <1>0, <1>1, <1>2, <1>3, <2>1, <2>2 DEF Apart, OpExtent
<1>11. \A m \in Names : Outcome(op', m) \subseteq Contents \cup {Absent}
  BY <1>1, <1>3, ContentsOutcome
<1>12. pc' \in {"data", "body", "erase", "swrite"} /\ pc' # "swrite"
  BY <1>1
<1>13. op' \in Ops /\ allowed' = MayBecome(op') /\ stream' = stream /\ op'.kind \notin {"begin", "end"}
  BY <1>1, <1>3
<1>14. QED BY <1>0, <1>1, <1>4, <1>5, <1>6, <1>7, <1>8, <1>9, <1>10, <1>11, <1>12, <1>13, CallStarts

(* A call that starts and reserves no cells.                               *)
LEMMA PlainCall ==
  ASSUME FSInv, pc = "idle", pc' \in {"body", "erase", "swrite"},
         UNCHANGED <<super, log, data, area, gen, dir, dataEnd, left, cur, nrec, fails>>,
         op' \in Ops, allowed' = MayBecome(op'), GenInv', SpanInv', OpInv', AskInv',
         stream' = stream, op'.kind \notin {"write", "end"},
         op'.kind = "begin" => ~ stream.active,
         pc' = "swrite" => stream.active /\ stream.written < stream.size,
         op'.body \in Contents \cup {Absent}
            \/ \A n \in Names : Outcome(op', n) \subseteq Contents \cup {Absent}
  PROVE  FSInv'
<1>1. ~ Placing' /\ dataEnd' \in 0 .. Pool
  BY DEF Placing, FSInv, TypeOK
<1>2. \A n \in Names : Outcome(op', n) \subseteq Contents \cup {Absent}
  BY ContentsOutcome
<1>3. QED BY <1>1, <1>2, CallStarts

(* ffs_delete().                                                           *)
LEMMA DeleteKeeps ==
  ASSUME FSInv, NEW n \in Names, Delete(n)
  PROVE  FSInv'
<1> DEFINE o == [NoOp EXCEPT !.kind = "delete", !.name = n]
<1>0. pc = "idle" /\ op = NoOp
  BY StreamKeptNow DEF Delete, Start
<1>1. /\ UNCHANGED <<super, log, data, area, gen, dir, dataEnd, stream, left, cur, nrec, fails>>
      /\ op' = o /\ allowed' = MayBecome(o) /\ n \in DOMAIN dir /\ pc' \in {"body", "erase"}
  BY DEF Delete, Start, flash
<1>2. o.kind = "delete" /\ o.name = n /\ o.to = Absent /\ o.body = Absent /\ o \in Ops
  <2>1. NoOp \in Ops
    BY NoneTyped
  <2>2. o \in Ops
    BY <2>1 DEF Ops
  <2>3. QED BY <2>2 DEF NoOp
<1> HIDE DEF o
<1>3. GenInv' /\ SpanInv'
  BY GenInvStep, SpanCalls DEF FSInv, Next, Calls
<1>4. OpInv'
  BY <1>1, <1>2 DEF FSInv, OpInv, Laying, Mounting, Compacts
<1>5. AskInv'
  BY <1>1, <1>2 DEF AskInv
<1>6. QED BY <1>0, <1>1, <1>2, <1>3, <1>4, <1>5, PlainCall

(* ffs_rename().                                                           *)
LEMMA RenameKeeps ==
  ASSUME FSInv, NEW n \in Names, NEW m \in Names, Rename(n, m)
  PROVE  FSInv'
<1> DEFINE o == [NoOp EXCEPT !.kind = "rename", !.name = n, !.to = m, !.body = FileAt(n),
                             !.off = dir[n].off, !.size = dir[n].size]
<1>0. pc = "idle" /\ op = NoOp /\ pc \in UpPcs
  BY StreamKeptNow DEF Rename, Start, UpPcs
<1>1. /\ UNCHANGED <<super, log, data, area, gen, dir, dataEnd, stream, left, cur, nrec, fails>>
      /\ op' = o /\ allowed' = MayBecome(o) /\ n \in DOMAIN dir /\ m \notin DOMAIN dir /\ pc' \in {"body", "erase"}
      /\ FullDirRename \/ Cardinality(DOMAIN dir) < MaxFiles
  BY DEF Rename, Start, flash
<1>2. dir[n] \in Extents /\ FileAt(n) \in Seq(Cells)
  BY <1>0, <1>1, UpExtents, UpFileAt
<1>3. FileAt(n) \in Contents \cup {Absent}
  BY <1>0, <1>1, UpDurable DEF FSInv, Promised
<1>4. /\ o.kind = "rename" /\ o.name = n /\ o.to = m /\ o.body = FileAt(n) /\ o.off = dir[n].off /\ o.size = dir[n].size
      /\ o \in Ops
  BY <1>2, FFSAssumption DEF NoOp, Ops, Extents
<1> HIDE DEF o
<1>5. dir[n] = [off |-> dir[n].off, size |-> dir[n].size]
  BY <1>2 DEF Extents
<1>6. GenInv' /\ SpanInv'
  BY GenInvStep, SpanCalls DEF FSInv, Next, Calls
<1>7. OpInv'
  BY <1>1, <1>4 DEF FSInv, OpInv, Laying, Mounting, Compacts
<1>8. AskInv'
  <2>1. FileAt(n)' = FileAt(n)
    BY <1>1 DEF FileAt, Read
  <2>2. ~ FullDirRename
    BY DEF FSInv, OpInv
  <2>3. QED BY <1>1, <1>4, <1>5, <2>1, <2>2 DEF AskInv
<1>9. QED BY <1>0, <1>1, <1>3, <1>4, <1>6, <1>7, <1>8, PlainCall

(* ffs_stream_begin().                                                     *)
LEMMA StreamBeginKeeps ==
  ASSUME FSInv, NEW n \in Names, NEW size \in 0 .. MaxSize, StreamBegin(n, size)
  PROVE  FSInv'
<1> DEFINE o == [NoOp EXCEPT !.kind = "begin", !.name = n, !.size = size]
<1>1. CASE Room(size)
  BY <1>1, BeginKeeps
<1>2. CASE ~ Room(size)
  <2>1. /\ UNCHANGED <<super, log, data, area, gen, dir, dataEnd, stream, left, cur, nrec, fails>>
        /\ op' = o /\ allowed' = MayBecome(o) /\ NewFileFits(n) /\ ~ stream.active /\ pc = "idle" /\ pc' = "erase"
    BY <1>2 DEF StreamBegin, Start, flash
  <2>2. o.kind = "begin" /\ o.name = n /\ o.to = Absent /\ o.body = Absent /\ o \in Ops
    <3>1. NoOp \in Ops
      BY NoneTyped
    <3>2. o \in Ops
      BY <3>1 DEF Ops
    <3>3. QED BY <3>2 DEF NoOp
  <2> HIDE DEF o
  <2>3. GenInv' /\ SpanInv'
    BY GenInvStep, SpanCalls DEF FSInv, Next, Calls
  <2>4. OpInv'
    BY <2>1, <2>2 DEF FSInv, OpInv, Laying, Mounting, Compacts
  <2>5. AskInv'
    BY <2>1, <2>2 DEF AskInv, NewFileFits
  <2>6. QED BY <2>1, <2>2, <2>3, <2>4, <2>5, PlainCall
<1>3. QED BY <1>1, <1>2

(* ffs_stream_write(), one unit.                                           *)
LEMMA StreamWriteKeeps ==
  ASSUME FSInv, NEW v \in Vals, StreamWrite(v)
  PROVE  FSInv'
<1> DEFINE o == [NoOp EXCEPT !.kind = "swrite", !.body = <<v>>]
<1>1. /\ UNCHANGED <<super, log, data, area, gen, dir, dataEnd, stream, left, cur, nrec, fails>>
      /\ op' = o /\ allowed' = MayBecome(o) /\ pc = "idle" /\ pc' = "swrite"
      /\ stream.active /\ stream.written < stream.size
  BY DEF StreamWrite, Start, flash, ram
<1>2. o.kind = "swrite" /\ o.name = Absent /\ o.to = Absent /\ o.body = <<v>> /\ o \in Ops
  <2>1. <<v>> \in Seq(Cells)
    BY DEF Cells
  <2>2. NoOp \in Ops
    BY NoneTyped
  <2>3. o \in Ops
    BY <2>1, <2>2 DEF Ops
  <2>4. QED BY <2>3 DEF NoOp
<1> HIDE DEF o
<1>3. GenInv' /\ SpanInv'
  BY GenInvStep, SpanCalls DEF FSInv, Next, Calls
<1>4. OpInv'
  BY <1>1, <1>2 DEF FSInv, OpInv, Laying, Mounting, Compacts
<1>5. AskInv'
  BY <1>1, <1>2 DEF AskInv, Adding, Laying
<1>6. \A n \in Names : Outcome(op', n) = {}
  BY <1>1, <1>2, FFSAssumption DEF Outcome
<1>7. QED BY <1>1, <1>2, <1>3, <1>4, <1>5, <1>6, PlainCall

(* ffs_stream_end(): the streamed cells become the file's, or the stream is*)
(* given up.                                                               *)
LEMMA StreamEndKeeps ==
  ASSUME FSInv, StreamEnd
  PROVE  FSInv'
<1> DEFINE o == [NoOp EXCEPT !.kind = "end", !.name = stream.name, !.body = stream.body,
                             !.off = stream.start, !.size = stream.size]
<1>0. pc = "idle" /\ stream.active /\ stream' = NoStream /\ pc \in UpPcs /\ op = NoOp
      /\ UNCHANGED <<super, log, data, area, gen, dir, dataEnd, left, cur, nrec, fails>>
  BY StreamKeptNow DEF StreamEnd, UpPcs, flash
<1>1. GenInv' /\ SpanInv'
  BY GenInvStep, SpanCalls DEF FSInv, Next, Calls
<1>2. CASE UNCHANGED <<pc, op, logUsed, allowed>>
  BY <1>0, <1>1, <1>2, DropKeeps
<1>3. CASE /\ stream.written = stream.size /\ NewFileFits(stream.name)
           /\ op' = o /\ allowed' = MayBecome(o) /\ pc' \in {"body", "erase"}
  <2>1. /\ stream \in Streams /\ stream.name \in Names /\ Len(stream.body) = stream.size
        /\ ReadOf(data[area], stream.start, stream.size) = stream.body
        /\ stream.start + stream.size <= dataEnd /\ \A n \in DOMAIN dir : Apart(dir[n], StreamExtent)
    BY <1>0, <1>3, StreamSpan DEF FSInv, TypeOK, StreamInv
  <2>2. stream.body \in Seq(Vals) /\ stream.start \in 0 .. Pool /\ stream.size \in 0 .. MaxSize
    BY <2>1 DEF Streams
  <2>3. stream.body \in Contents /\ stream.body \in Seq(Cells)
    BY <2>1, <2>2, SeqContents, ContentsAre
  <2>4. /\ o.kind = "end" /\ o.name = stream.name /\ o.to = Absent /\ o.body = stream.body
        /\ o.off = stream.start /\ o.size = stream.size /\ o \in Ops
    BY <2>1, <2>2, <2>3, FFSAssumption DEF NoOp, Ops
  <2> HIDE DEF o
  <2>5. OpInv'
    BY <1>0, <1>3, <2>1, <2>3, <2>4 DEF FSInv, OpInv, Laying, Mounting, Compacts
  <2>6. AskInv'
    <3>1. (Read(area, op.off, op.size))' = ReadOf(data[area], stream.start, stream.size)
      BY <1>0, <1>3, <2>4 DEF Read, ReadOf
    <3>2. QED BY <1>0, <1>3, <2>1, <2>4, <3>1 DEF AskInv, NewFileFits
  <2>7. OpExtent' = StreamExtent /\ ~ Placing' /\ ~ stream'.active
    BY <1>0, <1>3, <2>4, NoneTyped DEF OpExtent, StreamExtent, Placing
  <2>8. \A n \in Names : Outcome(op', n) \subseteq Contents \cup {Absent}
    BY <1>3, <2>3, <2>4, ContentsOutcome
  <2>9. dataEnd' \in 0 .. Pool
    BY <1>0 DEF FSInv, TypeOK
  <2>10. /\ op'.off + op'.size <= dataEnd' /\ ReadOf(data[area], op'.off, op'.size) = op'.body
         /\ \A n \in DOMAIN dir : Apart(dir[n], OpExtent')
    BY <1>0, <1>3, <2>1, <2>4, <2>7
  <2>11. op' \in Ops /\ allowed' = MayBecome(op') /\ pc' # "swrite" /\ pc' \in {"data", "body", "erase", "swrite"}
    BY <1>3, <2>4
  <2>12. QED BY <1>0, <1>1, <2>5, <2>6, <2>7, <2>8, <2>9, <2>10, <2>11, CallStarts
<1>4. QED BY <1>2, <1>3 DEF StreamEnd, Start

(* Every call.                                                             *)
LEMMA CallsKeep ==
  ASSUME FSInv, Calls
  PROVE  FSInv'
<1>1. CASE StreamAbort
  <2>1. GenInv' /\ SpanInv'
    BY GenInvStep, SpanCalls DEF FSInv, Next
  <2>2. QED BY <1>1, <2>1, DropKeeps DEF StreamAbort, flash
<1>2. QED BY <1>1, WriteKeeps, DeleteKeeps, RenameKeeps, StreamBeginKeeps, StreamWriteKeeps, StreamEndKeeps DEF Calls

-----------------------------------------------------------------------------
(* The steps of a call.                                                    *)

(* Reading one unit more.                                                  *)
LEMMA ReadMore ==
  ASSUME NEW D \in Pools, NEW off \in Nat, NEW k \in Nat, off + k + 1 <= Pool
  PROVE  ReadOf(D, off, k + 1) = ReadOf(D, off, k) \o ReadOf(D, off + k, 1)
<1> DEFINE r == ReadOf(D, off, k)
           q == ReadOf(D, off + k, 1)
<1>0. Pool \in Nat
  BY FFSAssumption
<1>1. r \in Seq(Cells) /\ Len(r) = k /\ q \in Seq(Cells) /\ Len(q) = 1
  <2>1. off + k \in Nat /\ (off + k) + 1 <= Pool /\ off + k <= Pool
    BY <1>0
  <2>2. r \in Seq(Cells) /\ Len(r) = k
    BY <2>1, ReadTyped
  <2>3. q \in Seq(Cells) /\ Len(q) = 1
    BY <2>1, ReadTyped
  <2>4. QED BY <2>2, <2>3
<1>2. ReadOf(D, off, k + 1) \in Seq(Cells) /\ Len(ReadOf(D, off, k + 1)) = k + 1
  BY <1>0, ReadTyped
<1>3. r \o q \in Seq(Cells) /\ Len(r \o q) = k + 1
        /\ \A i \in 1 .. k + 1 : (r \o q)[i] = IF i <= k THEN r[i] ELSE q[i - k]
  <2>1. r \o q \in Seq(Cells) /\ Len(r \o q) = Len(r) + Len(q)
        /\ \A i \in 1 .. Len(r) + Len(q) : (r \o q)[i] = IF i <= Len(r) THEN r[i] ELSE q[i - Len(r)]
    BY <1>1, ConcatProperties
  <2>2. QED BY <1>1, <2>1
<1>4. ASSUME NEW i \in 1 .. k + 1 PROVE ReadOf(D, off, k + 1)[i] = (r \o q)[i]
  <2>1. ReadOf(D, off, k + 1)[i] = D[off + i - 1]
    BY DEF ReadOf
  <2>2. CASE i <= k
    <3>1. r[i] = D[off + i - 1]
      BY <2>2 DEF ReadOf
    <3>2. QED BY <1>3, <2>1, <2>2, <3>1
  <2>3. CASE i = k + 1
    <3>1. q[1] = D[(off + k) + 1 - 1]
      BY DEF ReadOf
    <3>2. (r \o q)[i] = q[1]
      BY <1>3, <2>3
    <3>3. (off + k) + 1 - 1 = off + i - 1
      BY <2>3
    <3>4. QED BY ONLY <2>1, <3>1, <3>2, <3>3
  <2>4. i <= k \/ i = k + 1
    OBVIOUS
  <2>5. QED BY ONLY <2>2, <2>3, <2>4
<1> HIDE DEF r, q
<1> DEFINE z == ReadOf(D, off, k + 1)
           w == r \o q
<1>5. z \in Seq(Cells) /\ w \in Seq(Cells) /\ Len(z) = Len(w) /\ \A i \in 1 .. Len(z) : z[i] = w[i]
  BY <1>2, <1>3, <1>4
<1> HIDE DEF z, w
<1>6. z = w
  BY <1>5, SeqEqual
<1>7. QED BY <1>6 DEF z, w, r, q

(* A step that keeps the files: what it keeps besides.                     *)
LEMMA QuietStep ==
  ASSUME FSInv, pc \in UpPcs, ~ Telling("done"), Primitive("done"),
         UNCHANGED <<area, gen, dir>>, pc' \in UpPcs,
         \A n \in Names : Known(n)' = Known(n)
  PROVE  DurableFiles' = DurableFiles /\ FlashInv' /\ DirInv'
         /\ super' \in [Areas -> Nat] /\ log' \in [Areas -> Logs] /\ data' \in [Areas -> Pools]
<1>0. "done" \in Effects
  BY DEF Effects
<1>1. NewestArea' = area /\ (Valid(0) \/ Valid(1))' /\ super' \in [Areas -> Nat]
  BY <1>0, SameArea DEF Telling
<1>2. GoodLog(log'[area]) /\ \A n \in Names : ExtentIn(log'[area], EndOf(log'[area]), n) = Known(n)
  BY <1>0, KeepsLog, UpKnown
<1>3. DurableFiles' = DurableFiles
  BY <1>0, KeepsFiles
<1>4. FlashInv'
  BY <1>1, <1>2 DEF FlashInv, UpPcs
<1>5. DirInv'
  BY <1>2 DEF DirInv, UpPcs
<1>6. QED BY <1>0, <1>1, <1>3, <1>4, <1>5, LogTyped, DataTyped

(* TypeOK after a step of a system that stays up.                          *)
LEMMA UpTyped ==
  ASSUME FSInv, super' \in [Areas -> Nat], log' \in [Areas -> Logs], data' \in [Areas -> Pools],
         UNCHANGED <<area, gen, fails>>, left' \subseteq Names, cur' \in 0 .. Pool, dataEnd' \in 0 .. Pool,
         DOMAIN dir' \subseteq Names, \A n \in DOMAIN dir' : dir'[n] \in Extents,
         stream' \in Streams, op' \in Ops, DOMAIN allowed' = Names, SpanInv', pc' \in UpPcs
  PROVE  TypeOK'
<1>1. logUsed' \in 0 .. LogRecords /\ nrec' \in 0 .. LogRecords
  BY FFSAssumption DEF SpanInv, SpanTypes
<1>2. pc' \in Pcs
  BY DEF UpPcs, Pcs
<1>3. QED BY <1>1, <1>2 DEF FSInv, TypeOK, Logs, Pools

(* The data of a file is on the flash.                                     *)
LEMMA DataKeeps ==
  ASSUME FSInv, DataProgrammed
  PROVE  FSInv'
<1>0. /\ UNCHANGED <<area, gen, dir, dataEnd, stream, op, left, cur, nrec, fails, allowed>>
      /\ pc = "data" /\ pc' = "body" /\ Primitive("done") /\ "done" \in Effects /\ pc \in UpPcs /\ pc' \in UpPcs
  BY DEF DataProgrammed, Succeeds, Effects, UpPcs
<1>1. GenInv' /\ SpanInv'
  BY GenInvStep, SpanSteps DEF FSInv, Next, Steps
<1>2. /\ op.kind = "write" /\ op.body \in Seq(Cells) /\ Len(op.body) = op.size /\ op.off \in Nat /\ op.size \in Nat
      /\ op.off + op.size = dataEnd /\ dataEnd <= Pool /\ Base = op.off
      /\ \A u \in Units : u >= op.off => data[area][u] = Blank
  BY <1>0, WriteSpan
<1>3. /\ \A u \in Units : u < op.off \/ u >= dataEnd => data'[area][u] = data[area][u]
      /\ ReadOf(data'[area], op.off, op.size) = op.body
  BY <1>0, UpData
<1>4. DurableFiles' = DurableFiles /\ FlashInv' /\ DirInv'
         /\ super' \in [Areas -> Nat] /\ log' \in [Areas -> Logs] /\ data' \in [Areas -> Pools]
  <2>1. \A n \in Names : Known(n)' = Known(n)
    BY <1>0 DEF Known
  <2>2. QED BY <1>0, <2>1, QuietStep DEF Telling
<1>5. TypeOK'
  BY <1>0, <1>1, <1>4, UpTyped DEF FSInv, TypeOK
<1>6. OpInv'
  BY <1>0, <1>2 DEF FSInv, OpInv, Laying, Mounting, Compacts
<1>7. AskInv' /\ LaidInv'
  BY <1>0, <1>2 DEF FSInv, AskInv, LaidInv, Adding, Laying, NewFileFits
<1>8. Base' = op.off /\ Base = op.off /\ Pool \in Nat /\ dataEnd \in 0 .. Pool
  BY <1>0, <1>2, FFSAssumption DEF Base, Placing
<1>9. SpaceInv'
  <2>1. ASSUME NEW n \in DOMAIN dir PROVE dir[n].off + dir[n].size <= op.off
    BY <1>0, <1>2, UpExtents
  <2>2. ASSUME NEW u \in Units, u >= dataEnd PROVE data'[area][u] = Blank
    <3>1. u >= op.off
      BY <2>2, <1>2, <1>8 DEF Units
    <3>2. QED BY <2>2, <3>1, <1>2, <1>3
  <2>3. stream.active => stream.start + stream.size <= op.off
    BY <1>0, <1>2, StreamSpan
  <2>4. \A n \in DOMAIN dir : Apart(dir[n], OpExtent)
    BY <2>1 DEF Apart, OpExtent
  <2>5. stream.active => Apart(StreamExtent, OpExtent)
    BY <2>3 DEF Apart, OpExtent, StreamExtent
  <2>6. OpExtent' = OpExtent /\ StreamExtent' = StreamExtent
    BY <1>0 DEF OpExtent, StreamExtent
  <2>7. QED BY <1>0, <1>2, <1>3, <1>8, <2>1, <2>2, <2>4, <2>5, <2>6 DEF SpaceInv, Placing
<1>10. StreamInv'
  <2>1. CASE ~ stream.active
    BY <1>0, <1>2, <2>1 DEF FSInv, StreamInv
  <2>2. CASE stream.active
    <3>1. /\ stream.start \in Nat /\ stream.size \in Nat /\ stream.written \in Nat /\ stream.written <= stream.size
          /\ stream.start + stream.size <= op.off /\ stream.start + stream.size <= Pool
      BY <1>0, <1>2, <2>2, StreamSpan
    <3>2. ASSUME NEW u \in Units, u < stream.start + stream.size PROVE data'[area][u] = data[area][u]
      <4>1. u < op.off
        BY <3>1, <3>2, <1>2 DEF Units
      <4>2. QED BY <1>3, <4>1
    <3>3. ReadOf(data'[area], stream.start, stream.written) = ReadOf(data[area], stream.start, stream.written)
      <4>1. ASSUME NEW i \in 1 .. stream.written
            PROVE  data'[area][stream.start + i - 1] = data[area][stream.start + i - 1]
        <5>1. stream.start + i - 1 \in Units /\ stream.start + i - 1 < stream.start + stream.size
          BY <3>1, <1>8 DEF Units
        <5>2. QED BY <3>2, <5>1
      <4>2. QED BY <4>1, ReadSame
    <3>4. StreamExtent' = StreamExtent
      BY <1>0 DEF StreamExtent
    <3>5. QED BY <1>0, <1>2, <1>8, <2>2, <3>2, <3>3, <3>4 DEF FSInv, StreamInv, UpPcs
  <2>3. QED BY <2>1, <2>2
<1>11. Promised'
  BY <1>0, <1>4 DEF FSInv, Promised, Adding, Laying, Mounting
<1>12. QED BY <1>1, <1>4, <1>5, <1>6, <1>7, <1>9, <1>10, <1>11 DEF FSInv

(* A unit of the stream is on the flash.                                   *)
LEMMA StreamProgrammedKeeps ==
  ASSUME FSInv, StreamProgrammed
  PROVE  FSInv'
<1>0. /\ UNCHANGED <<area, gen, dir, logUsed, dataEnd, left, cur, nrec, fails>>
      /\ stream' = [stream EXCEPT !.written = @ + 1, !.body = @ \o op.body]
      /\ pc = "swrite" /\ pc' = "idle" /\ op' = NoOp /\ allowed' = Acknowledged(op)
      /\ Primitive("done") /\ "done" \in Effects /\ pc \in UpPcs /\ pc' \in UpPcs
  BY DEF StreamProgrammed, Succeeds, Effects, UpPcs, Finish
<1>1. GenInv' /\ SpanInv'
  BY GenInvStep, SpanSteps DEF FSInv, Next, Steps
<1>2. /\ stream.active /\ op.body \in Seq(Cells) /\ Len(op.body) = 1 /\ stream.written + 1 <= stream.size
      /\ stream.start + stream.written + 1 <= Pool /\ Base = dataEnd /\ stream.start + stream.written \in Nat
      /\ op.kind = "swrite" /\ \E v \in Vals : op.body = <<v>>
  BY <1>0, StreamingSpan
<1>3. /\ \A u \in Units : u # stream.start + stream.written => data'[area][u] = data[area][u]
      /\ ReadOf(data'[area], stream.start + stream.written, 1) = op.body
  BY <1>0, UpData
<1>4. DurableFiles' = DurableFiles /\ FlashInv' /\ DirInv'
         /\ super' \in [Areas -> Nat] /\ log' \in [Areas -> Logs] /\ data' \in [Areas -> Pools]
  <2>1. \A n \in Names : Known(n)' = Known(n)
    BY <1>0 DEF Known
  <2>2. QED BY <1>0, <2>1, QuietStep DEF Telling
<1>5. /\ stream.start \in Nat /\ stream.size \in Nat /\ stream.written \in Nat /\ stream.written <= stream.size
      /\ stream.start + stream.size <= dataEnd /\ dataEnd \in 0 .. Pool /\ Pool \in Nat
      /\ stream \in Streams /\ stream.body \in Seq(Vals) /\ stream.size \in 0 .. MaxSize /\ Len(stream.body) = stream.written
      /\ ReadOf(data[area], stream.start, stream.written) = stream.body /\ stream.name \in Names
  BY <1>0, <1>2, StreamSpan, FFSAssumption DEF FSInv, TypeOK, StreamInv, Streams
<1>6. /\ stream'.active /\ stream'.name = stream.name /\ stream'.start = stream.start /\ stream'.size = stream.size
      /\ stream'.written = stream.written + 1 /\ stream'.body = stream.body \o op.body /\ stream' \in Streams
  <2>1. stream.body \o op.body \in Seq(Vals)
    BY <1>2, <1>5
  <2>2. stream.written + 1 \in 0 .. MaxSize
    BY <1>2, <1>5, FFSAssumption
  <2>3. QED BY <1>0, <1>2, <1>5, <2>1, <2>2 DEF Streams
<1>7. \A n \in Names : Outcome(op, n) = {} /\ allowed'[n] = allowed[n]
  BY <1>0, <1>2, FFSAssumption DEF Outcome, Acknowledged, FSInv, OpInv
<1>8. TypeOK'
  <2>1. DOMAIN allowed' = Names
    BY <1>0 DEF Acknowledged
  <2>2. QED BY <1>0, <1>1, <1>4, <1>6, <2>1, NoneTyped, UpTyped DEF FSInv, TypeOK
<1>9. OpInv'
  BY <1>0, NoneTyped DEF FSInv, OpInv, Laying, Mounting, Compacts
<1>10. AskInv' /\ LaidInv'
  BY <1>0 DEF AskInv, LaidInv, Adding, Laying
<1>11. Base' = dataEnd
  BY <1>0 DEF Base, Placing
<1>12. SpaceInv'
  <2>1. ASSUME NEW n \in DOMAIN dir PROVE dir[n].off + dir[n].size <= dataEnd
    BY <1>0, <1>2, UpExtents
  <2>2. ASSUME NEW u \in Units, u >= dataEnd PROVE data'[area][u] = Blank
    <3>1. u # stream.start + stream.written
      BY <2>2, <1>2, <1>5 DEF Units
    <3>2. data[area][u] = Blank
      BY <2>2, <1>0 DEF FSInv, SpaceInv
    <3>3. QED BY <1>3, <3>1, <3>2
  <2>3. QED BY <1>0, <1>11, <2>1, <2>2, NoneTyped DEF SpaceInv, Placing
<1>13. StreamInv'
  <2>1. ReadOf(data'[area], stream.start, stream.written) = stream.body
    <3>1. ASSUME NEW i \in 1 .. stream.written
          PROVE  data'[area][stream.start + i - 1] = data[area][stream.start + i - 1]
      <4>1. stream.start + i - 1 \in Units /\ stream.start + i - 1 < stream.start + stream.written
        <5>1. i \in Nat /\ 1 <= i /\ i <= stream.written
          BY <1>5
        <5>2. stream.start + stream.written <= Pool
          BY ONLY <1>2, <1>5
        <5>3. QED BY ONLY <5>1, <5>2, <1>5 DEF Units
      <4>2. stream.start + i - 1 # stream.start + stream.written
        BY <4>1, <1>5
      <4>3. QED BY <1>3, <4>1, <4>2
    <3>2. QED BY <1>5, <3>1, ReadSame
  <2>2. ReadOf(data'[area], stream.start, stream.written + 1) = stream.body \o op.body
    <3>1. data'[area] \in Pools
      BY <1>0, <1>4 DEF FSInv, TypeOK
    <3>2. ReadOf(data'[area], stream.start, stream.written + 1)
            = ReadOf(data'[area], stream.start, stream.written) \o ReadOf(data'[area], stream.start + stream.written, 1)
      BY <3>1, <1>2, <1>5, ReadMore
    <3>3. QED BY <2>1, <3>2, <1>3
  <2>3. Len(stream.body \o op.body) = stream.written + 1
    BY <1>2, <1>5
  <2>4. ASSUME NEW u \in Units, stream.start + (stream.written + 1) <= u, u < stream.start + stream.size
        PROVE  data'[area][u] = Blank
    <3>1. u # stream.start + stream.written /\ stream.start + stream.written <= u
      BY <2>4, <1>5 DEF Units
    <3>2. data[area][u] = Blank
      BY <1>0, <1>2, <2>4, <3>1 DEF FSInv, StreamInv
    <3>3. QED BY <1>3, <3>1, <3>2
  <2>5. StreamExtent' = StreamExtent /\ \A n \in DOMAIN dir : Apart(dir[n], StreamExtent)
    BY <1>0, <1>2, <1>6, StreamSpan DEF StreamExtent
  <2>6. QED BY <1>0, <1>2, <1>5, <1>6, <1>11, <2>2, <2>3, <2>4, <2>5, NoneTyped DEF StreamInv, UpPcs
<1>14. Promised'
  <2>1. pc' \notin Adding \cup Laying \cup Mounting
    BY <1>0 DEF Adding, Laying, Mounting
  <2>2. QED BY <1>4, <1>7, <2>1 DEF FSInv, Promised
<1>15. QED BY <1>1, <1>4, <1>8, <1>9, <1>10, <1>12, <1>13, <1>14 DEF FSInv

(* The stream, in a step that leaves the data of the area in use alone.    *)
LEMMA StreamCarried ==
  ASSUME FSInv, pc \in UpPcs, pc' \in UpPcs, pc' # "swrite", data'[area] = data[area], area' = area,
         stream' = stream, op'.kind \in {"begin", "end"} => op' = op,
         stream.active => stream.start + stream.size <= Base' /\ \A n \in DOMAIN dir' : Apart(dir'[n], StreamExtent)
  PROVE  StreamInv'
<1>1. StreamExtent' = StreamExtent /\ pc' # "mount" /\ pc # "mount" /\ pc' # "replay"
  BY DEF StreamExtent, UpPcs
<1>2. CASE ~ stream.active
  BY <1>1, <1>2 DEF FSInv, StreamInv
<1>3. CASE stream.active
  BY <1>1, <1>3 DEF FSInv, StreamInv
<1>4. QED BY <1>2, <1>3

(* A record is on the flash, but for its kind.                             *)
LEMMA BodyKeeps ==
  ASSUME FSInv, BodyProgrammed
  PROVE  FSInv'
<1>0. /\ UNCHANGED <<area, gen, dir, logUsed, dataEnd, stream, op, left, cur, nrec, fails, allowed>>
      /\ (pc = "body" /\ pc' = "commit") \/ (pc = "body2" /\ pc' = "commit2")
      /\ Primitive("done") /\ "done" \in Effects /\ pc \in UpPcs /\ pc' \in UpPcs
  BY DEF BodyProgrammed, Succeeds, Effects, UpPcs, ram
<1>1. GenInv' /\ SpanInv'
  BY GenInvStep, SpanSteps DEF FSInv, Next, Steps
<1>2. data'[area] = data[area]
  BY <1>0, UpData
<1>3. DurableFiles' = DurableFiles /\ FlashInv' /\ DirInv'
         /\ super' \in [Areas -> Nat] /\ log' \in [Areas -> Logs] /\ data' \in [Areas -> Pools]
  <2>1. \A n \in Names : Known(n)' = Known(n)
    BY <1>0 DEF Known
  <2>2. QED BY <1>0, <2>1, QuietStep DEF Telling
<1>4. TypeOK'
  BY <1>0, <1>1, <1>3, UpTyped DEF FSInv, TypeOK
<1>5. OpInv'
  BY <1>0 DEF FSInv, OpInv, Laying, Mounting, Compacts
<1>6. AskInv' /\ LaidInv'
  <2>1. AskInv
    BY DEF FSInv
  <2>2. pc \in Adding /\ pc' \in Adding
    BY <1>0 DEF Adding
  <2>3. \A n : FileAt(n)' = FileAt(n) /\ (NewFileFits(n)' <=> NewFileFits(n))
    BY <1>0, <1>2 DEF FileAt, Read, NewFileFits
  <2>4. Read(area, op.off, op.size)' = Read(area, op.off, op.size)
    BY <1>0, <1>2 DEF Read
  <2>5. AskInv'
    BY <1>0, <2>1, <2>2, <2>3, <2>4 DEF AskInv
  <2>6. QED BY <1>0, <2>5 DEF LaidInv
<1>7. Base' = Base /\ OpExtent' = OpExtent /\ StreamExtent' = StreamExtent /\ (Placing' <=> Placing)
  BY <1>0 DEF Base, Placing, OpExtent, StreamExtent, FSInv, OpInv
<1>8. SpaceInv'
  BY <1>0, <1>2, <1>7 DEF FSInv, SpaceInv, FSInv, OpInv, UpPcs
<1>9. StreamInv'
  <2>1. stream.active => stream.start + stream.size <= Base' /\ \A n \in DOMAIN dir' : Apart(dir'[n], StreamExtent)
    BY <1>0, <1>7, StreamSpan
  <2>2. QED BY <1>0, <1>2, <2>1, StreamCarried
<1>10. Promised'
  BY <1>0, <1>3 DEF FSInv, Promised, Adding, Laying, Mounting
<1>11. QED BY <1>1, <1>3, <1>4, <1>5, <1>6, <1>8, <1>9, <1>10 DEF FSInv

(* A rename's first record is committed.                                   *)
LEMMA LinkedKeeps ==
  ASSUME FSInv, Linked
  PROVE  FSInv'
<1>0. /\ UNCHANGED <<area, gen, dir, dataEnd, stream, op, left, cur, nrec, fails, allowed>>
      /\ pc = "commit" /\ pc' = "body2" /\ op.kind = "rename"
      /\ Primitive("done") /\ "done" \in Effects /\ pc \in UpPcs /\ pc' \in UpPcs
      /\ pc \in Adding /\ pc' \in Adding
  BY DEF Linked, Succeeds, Effects, UpPcs, Adding
<1>1. GenInv' /\ SpanInv'
  BY GenInvStep, SpanSteps DEF FSInv, Next, Steps
<1>2. /\ GoodLog(log'[area])
      /\ \A n \in Names : ExtentIn(log'[area], EndOf(log'[area]), n) = CommitExtent(n)
      /\ data' = data
  BY <1>0, CommitLog
<1>3. DurableFiles' = [n \in Names |-> IF n = op.to THEN op.body ELSE DurableFiles[n]]
  BY <1>0, CommitDurable, LinkedIs
<1>4. NewestArea' = area /\ (Valid(0) \/ Valid(1))' /\ super' \in [Areas -> Nat]
  BY <1>0, SameArea
<1>5. log' \in [Areas -> Logs] /\ data' \in [Areas -> Pools]
  BY <1>0, LogTyped, DataTyped
<1>6. /\ op.name \in DOMAIN dir /\ op.to \notin DOMAIN dir /\ op.to \in Names /\ op.name \in Names /\ op.to # op.name
      /\ dir[op.name] = [off |-> op.off, size |-> op.size] /\ op.body = FileAt(op.name)
  BY <1>0, UpRename
<1>7. TypeOK'
  BY <1>0, <1>1, <1>4, <1>5, UpTyped DEF FSInv, TypeOK
<1>8. OpInv'
  BY <1>0 DEF FSInv, OpInv, Laying, Mounting, Compacts
<1>9. AskInv' /\ LaidInv'
  <2>1. AskInv
    BY DEF FSInv
  <2>2. \A n : FileAt(n)' = FileAt(n)
    BY <1>0, <1>2 DEF FileAt, Read
  <2>3. AskInv'
    BY <1>0, <2>1, <2>2 DEF AskInv
  <2>4. QED BY <1>0, <2>3 DEF LaidInv
<1>10. DirInv'
  <2>1. Rec.name = op.to /\ Rec.kind = "file"
    BY <1>0, RecIs
  <2>2. ASSUME NEW n \in Names PROVE CommitExtent(n) = Known(n)'
    <3>1. CASE n = op.to
      <4>1. CommitExtent(n) = {OpExtent} /\ OpExtent = dir[op.name]
        BY <1>6, <2>1, <3>1 DEF CommitExtent, OpExtent
      <4>2. Known(n)' = {dir[op.name]}
        BY <1>0, <1>6, <3>1 DEF Known
      <4>3. QED BY <4>1, <4>2
    <3>2. CASE n # op.to
      BY <1>0, <2>1, <3>2 DEF CommitExtent, Known
    <3>3. QED BY <3>1, <3>2
  <2>3. QED BY <1>0, <1>2, <2>2 DEF DirInv
<1>11. Base' = Base /\ ~ Placing' /\ ~ Placing
  BY <1>0 DEF Base, Placing
<1>12. SpaceInv'
  BY <1>0, <1>2, <1>11 DEF FSInv, SpaceInv, UpPcs
<1>13. StreamInv'
  <2>1. stream.active => stream.start + stream.size <= Base' /\ \A n \in DOMAIN dir' : Apart(dir'[n], StreamExtent)
    BY <1>0, <1>11, StreamSpan
  <2>2. QED BY <1>0, <1>2, <2>1, StreamCarried
<1>14. Promised'
  <2>1. ASSUME NEW n \in Names PROVE DurableFiles'[n] \in allowed[n]
    <3>1. DurableFiles[n] \in allowed[n]
      BY DEF FSInv, Promised
    <3>2. n = op.to => op.body \in allowed[n]
      BY <1>0, ChangeAllowed DEF Added
    <3>3. QED BY <1>3, <3>1, <3>2
  <2>2. QED BY <1>0, <2>1 DEF FSInv, Promised, Adding, Laying, Mounting
<1>15. FlashInv'
  BY <1>0, <1>2, <1>4 DEF FlashInv
<1>16. QED BY <1>1, <1>7, <1>8, <1>9, <1>10, <1>12, <1>13, <1>14, <1>15 DEF FSInv

(* The directory after the last record of a call.                          *)
LEMMA CommittedDir ==
  ASSUME FSInv, Committed
  PROVE  /\ DOMAIN dir' \subseteq Names
         /\ \A n \in Names : CommitExtent(n) = IF n \in DOMAIN dir' THEN {dir'[n]} ELSE {}
         /\ \A n \in DOMAIN dir' : (Rec.kind = "file" /\ n = Rec.name /\ dir'[n] = OpExtent)
                                   \/ (\E m \in DOMAIN dir : dir'[n] = dir[m])
<1>0. /\ pc \in UpPcs /\ pc \in {"commit", "commit2"} /\ pc \in Adding
      /\ pc = "commit2" <=> op.kind = "rename"
      /\ op.kind \in {"write", "delete", "rename", "end"} /\ op.name \in Names /\ DOMAIN dir \subseteq Names
      /\ dir' = IF op.kind \in {"write", "end"} THEN SetEntry(op.name, op.off, op.size)
                ELSE IF op.kind = "delete" THEN RemoveEntry(op.name)
                ELSE [n \in (DOMAIN dir \ {op.name}) \cup {op.to} |-> IF n = op.to THEN dir[op.name] ELSE dir[n]]
  BY DEF Committed, UpPcs, Adding, FSInv, OpInv, TypeOK, Compacts
<1>1. /\ Rec.name = op.name
      /\ Rec.kind = IF op.kind \in {"delete", "rename"} THEN "del" ELSE "file"
  BY <1>0, RecIs DEF Committed
<1>2. CASE op.kind \in {"write", "end"}
  <2>1. dir' = [m \in DOMAIN dir \cup {op.name} |-> IF m = op.name THEN OpExtent ELSE dir[m]]
    BY <1>0, <1>2 DEF SetEntry, OpExtent
  <2>2. \A n \in Names : Known(n) = IF n \in DOMAIN dir THEN {dir[n]} ELSE {}
    BY <1>0, <1>2 DEF Known
  <2>3. QED BY <1>0, <1>1, <1>2, <2>1, <2>2 DEF CommitExtent
<1>3. CASE op.kind = "delete"
  <2>1. dir' = [m \in DOMAIN dir \ {op.name} |-> dir[m]]
    BY <1>0, <1>3 DEF RemoveEntry
  <2>2. \A n \in Names : Known(n) = IF n \in DOMAIN dir THEN {dir[n]} ELSE {}
    BY <1>0, <1>3 DEF Known
  <2>3. QED BY <1>0, <1>1, <1>3, <2>1, <2>2 DEF CommitExtent
<1>4. CASE op.kind = "rename"
  <2>1. dir' = [n \in (DOMAIN dir \ {op.name}) \cup {op.to} |-> IF n = op.to THEN dir[op.name] ELSE dir[n]]
    BY <1>0, <1>4
  <2>2. op.name \in DOMAIN dir /\ op.to \notin DOMAIN dir /\ op.to \in Names /\ op.to # op.name
    BY <1>0, <1>4, UpRename
  <2>3. \A n \in Names : Known(n) = IF n \in DOMAIN dir THEN {dir[n]} ELSE IF n = op.to THEN {dir[op.name]} ELSE {}
    BY <1>0, <1>4 DEF Known
  <2>4. QED BY <1>0, <1>1, <1>4, <2>1, <2>2, <2>3 DEF CommitExtent
<1>5. QED BY <1>0, <1>2, <1>3, <1>4

(* A call's last record is committed, and the call acknowledged.           *)
LEMMA CommittedKeeps ==
  ASSUME FSInv, Committed
  PROVE  FSInv'
<1>0. /\ UNCHANGED <<area, gen, logUsed, dataEnd, stream, left, cur, nrec, fails>>
      /\ pc = "commit2" \/ (pc = "commit" /\ op.kind # "rename")
      /\ pc' = "idle" /\ op' = NoOp /\ allowed' = Acknowledged(op)
      /\ Primitive("done") /\ "done" \in Effects /\ pc \in UpPcs /\ pc' \in UpPcs
      /\ pc \in Adding /\ pc \in {"commit", "commit2"}
  BY DEF Committed, Succeeds, Effects, UpPcs, Adding, Finish
<1>1. GenInv' /\ SpanInv'
  BY GenInvStep, SpanSteps DEF FSInv, Next, Steps
<1>2. /\ GoodLog(log'[area])
      /\ \A n \in Names : ExtentIn(log'[area], EndOf(log'[area]), n) = CommitExtent(n)
      /\ data' = data
  BY <1>0, CommitLog
<1>3. DurableFiles' = ChangedFiles
  BY <1>0, CommitDurable, CommittedIs
<1>4. NewestArea' = area /\ (Valid(0) \/ Valid(1))' /\ super' \in [Areas -> Nat]
  BY <1>0, SameArea
<1>5. log' \in [Areas -> Logs] /\ data' \in [Areas -> Pools]
  BY <1>0, LogTyped, DataTyped
<1>6. /\ DOMAIN dir' \subseteq Names
      /\ \A n \in Names : CommitExtent(n) = IF n \in DOMAIN dir' THEN {dir'[n]} ELSE {}
      /\ \A n \in DOMAIN dir' : (Rec.kind = "file" /\ n = Rec.name /\ dir'[n] = OpExtent)
                                   \/ (\E m \in DOMAIN dir : dir'[n] = dir[m])
  BY CommittedDir
<1>7. OpExtent \in Extents /\ OpExtent.off = op.off /\ OpExtent.size = op.size /\ dataEnd \in 0 .. Pool /\ Pool \in Nat
  BY FFSAssumption DEF FSInv, TypeOK, Ops, OpExtent, Extents
<1>8. Rec.kind = "file" => pc = "commit" /\ op.kind \in {"write", "end"}
  BY <1>0, RecIs DEF FSInv, OpInv
<1>9. Rec.kind = "file" => op.off + op.size <= dataEnd /\ (stream.active => Apart(StreamExtent, OpExtent))
  BY <1>0, <1>8 DEF FSInv, SpaceInv
<1>10. TypeOK'
  <2>1. \A n \in DOMAIN dir' : dir'[n] \in Extents
    BY <1>6, <1>7 DEF FSInv, TypeOK
  <2>2. DOMAIN allowed' = Names
    BY <1>0 DEF Acknowledged
  <2>3. QED BY <1>0, <1>1, <1>4, <1>5, <1>6, <2>1, <2>2, NoneTyped, UpTyped DEF FSInv, TypeOK
<1>11. OpInv'
  BY <1>0, NoneTyped DEF FSInv, OpInv, Laying, Mounting, Compacts
<1>12. AskInv' /\ LaidInv'
  BY <1>0 DEF AskInv, LaidInv, Adding, Laying
<1>13. DirInv'
  BY <1>0, <1>2, <1>6 DEF DirInv, Known
<1>14. Base' = dataEnd /\ ~ Placing'
  BY <1>0, NoneTyped DEF Base, Placing
<1>15. SpaceInv'
  <2>1. ASSUME NEW n \in DOMAIN dir' PROVE dir'[n].off + dir'[n].size <= dataEnd
    <3>1. CASE dir'[n] = OpExtent /\ Rec.kind = "file"
      BY <3>1, <1>7, <1>9
    <3>2. CASE \E m \in DOMAIN dir : dir'[n] = dir[m]
      <4>1. PICK m \in DOMAIN dir : dir'[n] = dir[m]
        BY <3>2
      <4>2. dir[m].off \in Nat /\ dir[m].size \in Nat /\ dir[m].off + dir[m].size <= Base /\ Base <= dataEnd /\ Base \in 0 .. Pool
        BY <1>0, UpExtents, FFSAssumption
      <4>3. QED BY <4>1, <4>2, <1>7
    <3>3. QED BY <1>6, <3>1, <3>2
  <2>2. \A u \in Units : u >= dataEnd => data[area][u] = Blank
    BY <1>0 DEF FSInv, SpaceInv
  <2>3. QED BY <1>0, <1>2, <1>14, <2>1, <2>2 DEF SpaceInv
<1>16. StreamInv'
  <2>1. ASSUME stream.active, NEW n \in DOMAIN dir' PROVE Apart(dir'[n], StreamExtent)
    <3>1. CASE dir'[n] = OpExtent /\ Rec.kind = "file"
      BY <3>1, <1>0, <1>7, <1>9, <2>1, StreamSpan, ApartSym
    <3>2. CASE \E m \in DOMAIN dir : dir'[n] = dir[m]
      BY <3>2, <1>0, <2>1, StreamSpan
    <3>3. QED BY <1>6, <3>1, <3>2
  <2>2. stream.active => stream.start + stream.size <= Base'
    BY <1>0, <1>14, StreamSpan
  <2>3. op'.kind \notin {"begin", "end"}
    BY <1>0, NoneTyped
  <2>4. QED BY <1>0, <1>2, <2>1, <2>2, <2>3, StreamCarried
<1>17. Promised'
  <2>1. \A n \in Names : DurableFiles'[n] \in allowed'[n]
    BY <1>0, <1>3, ChangeAllowed
  <2>2. \A n \in Names : allowed'[n] \subseteq Contents \cup {Absent}
    BY <1>0 DEF FSInv, Promised, Acknowledged
  <2>3. pc' \notin Adding \cup Laying \cup Mounting
    BY <1>0 DEF Adding, Laying, Mounting
  <2>4. QED BY <2>1, <2>2, <2>3 DEF Promised
<1>18. FlashInv'
  BY <1>0, <1>2, <1>4 DEF FlashInv
<1>19. QED BY <1>1, <1>10, <1>11, <1>12, <1>13, <1>15, <1>16, <1>17, <1>18 DEF FSInv

-----------------------------------------------------------------------------
(* The steps of compaction and format.                                     *)

(* What lay_out() is to copy does not change while it copies.              *)
LEMMA TargetSame ==
  ASSUME UNCHANGED <<area, dir, op>>, data'[area] = data[area]
  PROVE  Target(op)' = Target(op)
<1>1. \A n : FileAt(n)' = FileAt(n)
  BY DEF FileAt, Read
<1>2. (Read(area, op.off, op.size))' = Read(area, op.off, op.size)
  BY DEF Read
<1>3. QED BY <1>1, <1>2 DEF Target

(* What a step of lay_out() leaves as it is.                               *)
LEMMA LayStep ==
  ASSUME FSInv, pc \in {"erase", "copy"}, pc' \in {"copy", "super"}, Primitive("done"),
         UNCHANGED <<area, gen, dir, logUsed, dataEnd, stream, op, fails, allowed>>,
         left' \subseteq Names, cur' \in 0 .. Pool, GenInv', SpanInv', LaidInv'
  PROVE  FSInv'
<1>0. pc \in UpPcs /\ pc' \in UpPcs /\ "done" \in Effects /\ pc \in Laying /\ pc' \in Laying
  BY DEF UpPcs, Effects, Laying
<1>1. data'[area] = data[area]
  BY <1>0, UpData
<1>2. DurableFiles' = DurableFiles /\ FlashInv' /\ DirInv'
         /\ super' \in [Areas -> Nat] /\ log' \in [Areas -> Logs] /\ data' \in [Areas -> Pools]
  <2>1. \A n \in Names : Known(n)' = Known(n)
    BY DEF Known
  <2>2. QED BY <1>0, <2>1, QuietStep DEF Telling
<1>3. TypeOK'
  BY <1>0, <1>2, UpTyped DEF FSInv, TypeOK
<1>4. OpInv'
  BY <1>0 DEF FSInv, OpInv, Mounting, Adding
<1>5. AskInv'
  <2>1. AskInv
    BY DEF FSInv
  <2>2. \A n : FileAt(n)' = FileAt(n) /\ (NewFileFits(n)' <=> NewFileFits(n))
    BY <1>1 DEF FileAt, Read, NewFileFits
  <2>3. Read(area, op.off, op.size)' = Read(area, op.off, op.size)
    BY <1>1 DEF Read
  <2>4. pc \notin Adding /\ pc' \notin Adding
    BY DEF Adding
  <2>5. QED BY <1>0, <2>1, <2>2, <2>3, <2>4 DEF AskInv
<1>6. Base' = dataEnd /\ Base = dataEnd /\ ~ Placing'
  BY DEF Base, Placing
<1>7. SpaceInv'
  BY <1>0, <1>1, <1>6 DEF FSInv, SpaceInv
<1>8. StreamInv'
  <2>1. stream.active => stream.start + stream.size <= Base' /\ \A n \in DOMAIN dir' : Apart(dir'[n], StreamExtent)
    BY <1>0, <1>6, StreamSpan
  <2>2. QED BY <1>0, <1>1, <2>1, StreamCarried
<1>9. Promised'
  BY <1>0, <1>2 DEF FSInv, Promised, Mounting
<1>10. QED BY <1>2, <1>3, <1>4, <1>5, <1>7, <1>8, <1>9 DEF FSInv

(* The other area is erased.                                               *)
LEMMA AreaErasedKeeps ==
  ASSUME FSInv, AreaErased
  PROVE  FSInv'
<1>0. /\ UNCHANGED <<area, gen, dir, logUsed, dataEnd, stream, op, fails, allowed>>
      /\ pc = "erase" /\ Primitive("done") /\ left' = DOMAIN Target(op) /\ cur' = 0 /\ nrec' = 0
      /\ pc' \in {"copy", "super"} /\ (pc' = "super" => left' = {}) /\ pc \in UpPcs /\ pc \in Laying /\ "done" \in Effects
  BY DEF AreaErased, Succeeds, ram, UpPcs, Laying, Effects
<1>1. GenInv' /\ SpanInv'
  BY GenInvStep, SpanLayOut DEF FSInv, Next, Steps
<1>2. Other \in Areas /\ Other # area /\ log'[Other] = ErasedLog /\ data'[Other] = BlankData
  <2>1. EraseArea(1 - area, "done")
    BY <1>0 DEF Primitive, Quiet
  <2>2. log' = [log EXCEPT ![1 - area] = ErasedLog] /\ data' = [data EXCEPT ![1 - area] = BlankData]
    BY <2>1 DEF EraseArea
  <2>3. QED BY <1>0, <2>2, UpLog DEF FSInv, TypeOK, Other
<1>3. Target(op)' = Target(op)
  <2>1. data'[area] = data[area]
    BY <1>0, UpData
  <2>2. QED BY <1>0, <2>1, TargetSame
<1>4. Other' = Other
  BY <1>0 DEF Other
<1>5. LaidInv'
  BY <1>0, <1>2, <1>3, <1>4, EmptyGood, EmptyLog DEF LaidInv, BlankData
<1>6. DOMAIN Target(op) \subseteq Names
  BY <1>0, TargetIs
<1>7. QED BY <1>0, <1>1, <1>5, <1>6, LayStep, FFSAssumption

(* One file is copied into the other area: its cells, its record.          *)
LEMMA FileCopiedKeeps ==
  ASSUME FSInv, FileCopied
  PROVE  FSInv'
<1> DEFINE L == log[Other]
           M == log'[Other]
<1>0. /\ UNCHANGED <<area, gen, dir, logUsed, dataEnd, stream, op, fails, allowed>>
      /\ pc = "copy" /\ pc' \in {"copy", "super"} /\ (pc' = "super" => left' = {})
      /\ pc \in UpPcs /\ pc \in Laying /\ "done" \in Effects
  BY DEF FileCopied, ram, UpPcs, Laying, Effects
<1>1. PICK n \in left : /\ nrec < LogRecords /\ Len(Target(op)[n]) <= Pool - cur /\ CopyFile(n, "done")
                        /\ left' = left \ {n} /\ nrec' = nrec + 1 /\ cur' = cur + Len(Target(op)[n])
  BY DEF FileCopied
<1> DEFINE c == Target(op)[n]
           x == [off |-> cur, size |-> Len(c)]
<1>2. Primitive("done")
  BY <1>0, <1>1 DEF Primitive
<1>3. GenInv' /\ SpanInv'
  BY GenInvStep, SpanLayOut DEF FSInv, Next, Steps
<1>4. /\ DOMAIN Target(op) \subseteq Names /\ c \in Seq(Cells) /\ Len(c) \in 0 .. MaxSize /\ Few(DOMAIN Target(op))
      /\ left \subseteq DOMAIN Target(op) /\ n \in Names
      /\ cur \in 0 .. Pool /\ nrec \in 0 .. LogRecords - 1 /\ Pool \in Nat /\ LogRecords \in Nat /\ MaxSize \in Nat
  <2>1. left \subseteq DOMAIN Target(op) /\ cur \in 0 .. Pool /\ nrec \in 0 .. LogRecords
    BY <1>0 DEF FSInv, LaidInv, TypeOK
  <2>2. QED BY <1>0, <1>1, <2>1, TargetIs, FFSAssumption
<1>5. /\ Other \in Areas /\ Other # area /\ Other' = Other /\ Target(op)' = Target(op)
      /\ L \in Logs /\ DOMAIN L = Slots /\ Whole(L) /\ EndOf(L) = nrec /\ GoodLog(L) /\ data[Other] \in Pools
  <2>1. data'[area] = data[area]
    BY <1>0, <1>2, UpData
  <2>2. Other' = Other /\ Target(op)' = Target(op)
    BY <1>0, <2>1, TargetSame DEF Other
  <2>3. Other \in Areas /\ Other # area
    BY <1>0, UpLog
  <2>4. Whole(L) /\ EndOf(L) = nrec /\ GoodLog(L)
    BY <1>0 DEF FSInv, SpanInv, LaidInv
  <2>5. QED BY <2>2, <2>3, <2>4 DEF FSInv, TypeOK, Logs, Pools
<1>6. M = [L EXCEPT ![nrec + 1] = FileRec(n, cur, Len(c))] /\ data'[Other] = Program(data[Other], cur, c)
  BY <1>1, <1>5 DEF CopyFile, Other, FSInv, TypeOK
<1>7. /\ M[nrec + 1] = FileRec(n, cur, Len(c)) /\ Written(L, M, nrec)
  <2>1. nrec + 1 \in Slots
    BY <1>4 DEF Slots
  <2> DEFINE r == FileRec(n, cur, Len(c))
  <2>2. r # Erased /\ EndOf(L) < LogRecords
    BY <1>1, <1>5, RecKind
  <2> HIDE DEF r, L
  <2>3. Written(L, [L EXCEPT ![EndOf(L) + 1] = r], EndOf(L))
    BY <1>5, <2>2, SlotAdded
  <2>4. Written(L, M, nrec)
    BY <1>5, <1>6, <2>3 DEF r
  <2>5. M[nrec + 1] = r
    BY <1>5, <1>6, <2>1 DEF r
  <2>6. QED BY <2>4, <2>5 DEF r
<1>8. M \in Logs
  BY <1>0, <1>2, <1>5, LogTyped
<1>9. /\ FileRec(n, cur, Len(c)).kind = "file" /\ FileRec(n, cur, Len(c)).name = n
      /\ FileRec(n, cur, Len(c)).off = cur /\ FileRec(n, cur, Len(c)).size = Len(c)
  BY DEF FileRec
<1>10. \A m \in DOMAIN Target(op) \ left :
         \E y \in Extents :
           /\ ExtentIn(L, nrec, m) = {y} /\ y.off + y.size <= cur
           /\ ReadOf(data[Other], y.off, y.size) = Target(op)[m]
  BY <1>0 DEF FSInv, LaidInv
<1>11. \A m \in Names : m \notin DOMAIN Target(op) \ left => ExtentIn(L, nrec, m) = {}
  BY <1>0 DEF FSInv, LaidInv
<1>12. Fitting(L, nrec, M[nrec + 1])
  <2>1. cur + Len(c) <= Pool
    BY <1>1, <1>4
  <2>2. Few(Live(L, nrec) \cup {n})
    <3>1. Live(L, nrec) \cup {n} \subseteq DOMAIN Target(op)
      BY <1>1, <1>4, <1>11 DEF Live
    <3>2. QED BY <1>4, <3>1, FewSubset
  <2>3. ASSUME NEW m \in Names \ {n}, NEW y \in ExtentIn(L, nrec, m) PROVE Apart(y, x)
    <3>1. y.off + y.size <= cur
      BY <1>10, <1>11, <2>3
    <3>2. QED BY <3>1 DEF Apart
  <2>4. QED BY <1>7, <1>9, <2>1, <2>2, <2>3 DEF Fitting
<1>13. GoodLog(M)
  <2>1. InPool(L) /\ (\A j \in 0 .. nrec : Few(Live(L, j))) /\ ApartTo(L, nrec)
    BY <1>5 DEF GoodLog, FilesApart, ApartTo
  <2>2. QED BY <1>4, <1>5, <1>7, <1>8, <1>12, <2>1, WrittenGood
<1>14. \A m : ExtentIn(M, nrec + 1, m) = IF m = n THEN {x} ELSE ExtentIn(L, nrec, m)
  <2>1. \A m : ExtentIn(M, nrec + 1, m) = After(M[nrec + 1], ExtentIn(L, nrec, m), m)
    BY <1>4, <1>7, WrittenNew
  <2>2. QED BY <1>7, <1>9, <2>1 DEF After, IsFor
<1>15. x \in Extents /\ x.off = cur /\ x.size = Len(c)
  BY <1>4 DEF Extents
<1>16. cur' \in 0 .. Pool /\ cur' = cur + Len(c) /\ cur <= cur'
  BY <1>1, <1>4
<1>17. ReadOf(data'[Other], cur, Len(c)) = c
  BY <1>1, <1>4, <1>5, <1>6, ProgramReads
<1>18. \A u \in Units : u < cur \/ u >= cur' => data'[Other][u] = data[Other][u]
  BY <1>4, <1>6, <1>16, ProgramElsewhere
<1>19. ASSUME NEW m \in DOMAIN Target(op) \ left'
       PROVE  \E y \in Extents :
                /\ ExtentIn(M, nrec + 1, m) = {y} /\ y.off + y.size <= cur'
                /\ ReadOf(data'[Other], y.off, y.size) = Target(op)[m]
  <2>1. CASE m = n
    BY <2>1, <1>14, <1>15, <1>16, <1>17
  <2>2. CASE m # n
    <3>1. m \in DOMAIN Target(op) \ left
      BY <1>1, <2>2
    <3>2. PICK y \in Extents : /\ ExtentIn(L, nrec, m) = {y} /\ y.off + y.size <= cur
                               /\ ReadOf(data[Other], y.off, y.size) = Target(op)[m]
      BY <1>10, <3>1
    <3>3. y.off \in Nat /\ y.size \in Nat
      BY <1>4 DEF Extents
    <3>4. ReadOf(data'[Other], y.off, y.size) = ReadOf(data[Other], y.off, y.size)
      <4>1. ASSUME NEW i \in 1 .. y.size PROVE data'[Other][y.off + i - 1] = data[Other][y.off + i - 1]
        <5>1. i \in Nat /\ 1 <= i /\ i <= y.size
          BY <3>3
        <5>2. cur \in 0 .. Pool /\ Pool \in Nat
          BY <1>4
        <5>3. y.off + i - 1 \in Units /\ y.off + i - 1 < cur
          BY ONLY <5>1, <5>2, <3>2, <3>3 DEF Units
        <5>4. QED BY <1>18, <5>3
      <4>2. QED BY <4>1, ReadSame
    <3>5. y.off + y.size <= cur'
      BY <1>4, <1>16, <3>2, <3>3
    <3>6. ExtentIn(M, nrec + 1, m) = {y}
      BY <1>14, <2>2, <3>2
    <3>7. QED BY <3>2, <3>4, <3>5, <3>6
  <2>3. QED BY <2>1, <2>2
<1>20. \A m \in Names : m \notin DOMAIN Target(op) \ left' => ExtentIn(M, nrec + 1, m) = {}
  BY <1>1, <1>4, <1>11, <1>14
<1>21. ASSUME NEW u \in Units, u >= cur' PROVE data'[Other][u] = Blank
  <2>1. u >= cur
    BY <1>4, <1>16, <1>21 DEF Units
  <2>2. data[Other][u] = Blank
    BY <1>0, <2>1 DEF FSInv, LaidInv
  <2>3. QED BY <1>18, <1>21, <2>2
<1>22. LaidInv'
  <2>1. left' \subseteq DOMAIN Target(op)
    BY <1>1, <1>4
  <2>2. QED BY <1>0, <1>1, <1>5, <1>13, <1>19, <1>20, <1>21, <2>1 DEF LaidInv
<1>23. left' \subseteq Names
  BY <1>1, <1>4
<1>24. QED BY <1>0, <1>2, <1>3, <1>16, <1>22, <1>23, LayStep

(* The other area's superblock is programmed: the change is made.          *)
LEMMA SuperKeeps ==
  ASSUME FSInv, SuperProgrammed
  PROVE  FSInv'
<1>0. /\ UNCHANGED <<area, gen, dir, logUsed, dataEnd, stream, left, cur, nrec, fails, allowed>>
      /\ pc = "super" /\ pc' = "mount" /\ op' = [op EXCEPT !.ok = TRUE]
      /\ Primitive("done") /\ "done" \in Effects /\ pc \in UpPcs /\ pc \in Laying
  BY DEF SuperProgrammed, Succeeds, Effects, UpPcs, Laying, ram
<1>1. GenInv' /\ SpanInv'
  BY GenInvStep, SpanLayOut DEF FSInv, Next, Steps
<1>2. /\ DurableFiles' = ChangedFiles /\ GoodLog(log'[NewestArea']) /\ (Valid(0) \/ Valid(1))'
      /\ log' = log /\ data' = data /\ super' \in [Areas -> Nat]
  BY <1>0, SuperDurable, LaidIs
<1>3. /\ op'.kind = op.kind /\ op'.name = op.name /\ op'.to = op.to /\ op'.body = op.body
      /\ op'.off = op.off /\ op'.size = op.size /\ op'.ok /\ op' \in Ops
  BY <1>0 DEF FSInv, TypeOK, Ops
<1>4. op.kind \in Compacts /\ op.kind # "none"
  BY <1>0 DEF FSInv, OpInv, Compacts
<1>5. TypeOK'
  BY <1>0, <1>2, <1>3 DEF FSInv, TypeOK, Pcs
<1>6. OpInv'
  BY <1>0, <1>2, <1>3, <1>4 DEF FSInv, OpInv, Laying, Mounting
<1>7. AskInv' /\ DirInv' /\ LaidInv' /\ SpaceInv'
  BY <1>0 DEF AskInv, DirInv, LaidInv, SpaceInv, Adding, Laying, UpPcs, Placing
<1>8. StreamInv'
  BY <1>0, <1>2, <1>3 DEF FSInv, StreamInv, UpPcs
<1>9. Promised'
  <2>1. \A n \in Names : Outcome(op', n) = Outcome(op, n)
    BY <1>3 DEF Outcome
  <2>2. \A n \in Names : Acknowledged(op')[n] = Acknowledged(op)[n]
    BY <2>1 DEF Acknowledged
  <2>3. \A n \in Names : DurableFiles'[n] \in allowed[n] /\ DurableFiles'[n] \in Acknowledged(op)[n]
    BY <1>0, <1>2, ChangeAllowed
  <2>4. QED BY <1>0, <2>1, <2>2, <2>3 DEF FSInv, Promised, Acknowledged
<1>10. FlashInv'
  BY <1>0, <1>2 DEF FlashInv
<1>11. QED BY <1>1, <1>5, <1>6, <1>7, <1>8, <1>9, <1>10 DEF FSInv

(* A step of formatting.                                                   *)
LEMMA FormatStepKeeps ==
  ASSUME FSInv, FormatStep
  PROVE  FSInv'
<1>0. /\ UNCHANGED <<area, gen, dir, logUsed, dataEnd, stream, op, left, cur, nrec, fails, allowed>>
      /\ pc \in {"erase1", "erase0", "format"} /\ Primitive("done") /\ "done" \in Effects
      /\ pc' = IF pc = "erase1" THEN "erase0" ELSE IF pc = "erase0" THEN "format" ELSE "mount"
  BY DEF FormatStep, Succeeds, Effects, ram
<1>1. GenInv' /\ SpanInv'
  BY GenInvStep, SpanLayOut DEF FSInv, Next, Steps
<1>2. /\ DurableFiles' = DurableFiles
      /\ (Valid(0) \/ Valid(1))' => GoodLog(log'[NewestArea'])
      /\ super' \in [Areas -> Nat]
  BY <1>0, FormatDurable
<1>3. log' \in [Areas -> Logs] /\ data' \in [Areas -> Pools]
  BY <1>0, LogTyped, DataTyped
<1>4. op = NoOp /\ stream = NoStream
  BY <1>0 DEF FSInv, OpInv, StreamInv, UpPcs
<1>5. TypeOK'
  BY <1>0, <1>2, <1>3 DEF FSInv, TypeOK, Pcs, Logs, Pools
<1>6. OpInv'
  BY <1>0, <1>4, NoneTyped DEF FSInv, OpInv, Laying, Mounting, Compacts
<1>7. AskInv' /\ DirInv' /\ LaidInv' /\ SpaceInv'
  BY <1>0 DEF AskInv, DirInv, LaidInv, SpaceInv, Adding, Laying, UpPcs, Placing
<1>8. StreamInv'
  BY <1>0, <1>4, NoneTyped DEF StreamInv
<1>9. Promised'
  BY <1>0, <1>2, <1>4, NoneTyped, NoOutcome DEF FSInv, Promised, Adding, Laying
<1>10. FlashInv'
  <2>1. pc' = "format" => log'[0] = ErasedLog /\ data'[0] = BlankData
    <3>1. ASSUME pc' = "format" PROVE log'[0] = ErasedLog /\ data'[0] = BlankData
      <4>1. EraseArea(0, "done")
        BY <1>0, <3>1 DEF Primitive, Quiet
      <4>2. QED BY <4>1 DEF EraseArea, FSInv, TypeOK, Areas
    <3>2. QED BY <3>1
  <2>2. QED BY <1>2, <2>1 DEF FlashInv
<1>11. QED BY <1>1, <1>5, <1>6, <1>7, <1>8, <1>9, <1>10 DEF FSInv

-----------------------------------------------------------------------------
(* FSInv is inductive, and what follows.                                   *)

(* No primitive ever finds its cells in use.                               *)
LEMMA NotRefused ==
  ASSUME FSInv
  PROVE  ~ Refused
<1>0. Pool \in Nat
  BY FFSAssumption
<1>1. CASE pc = "data"
  <2>1. /\ Len(op.body) = op.size /\ op.off \in Nat /\ op.size \in Nat /\ op.off + op.size <= Pool
        /\ \A u \in Units : u >= op.off => data[area][u] = Blank
    BY <1>1, WriteSpan
  <2>2. ASSUME NEW u \in op.off .. op.off + Len(op.body) - 1 PROVE data[area][u] = Blank
    <3>1. u \in Units /\ u >= op.off
      BY <1>0, <2>1 DEF Units
    <3>2. QED BY <2>1, <3>1
  <2>3. QED BY <1>1, <2>2 DEF Refused, AllBlank
<1>2. CASE pc = "swrite"
  <2>1. /\ stream.active /\ stream.written + 1 <= stream.size /\ stream.start + stream.size <= Pool
        /\ stream.start \in Nat /\ stream.written \in Nat /\ stream.size \in Nat
    BY <1>2, StreamingSpan, StreamSpan DEF UpPcs
  <2>2. \A u \in Units : stream.start + stream.written <= u /\ u < stream.start + stream.size => data[area][u] = Blank
    BY <1>2, <2>1 DEF FSInv, StreamInv
  <2>3. ASSUME NEW u \in stream.start + stream.written .. stream.start + stream.written + 1 - 1
        PROVE  data[area][u] = Blank
    <3>1. u \in Units /\ stream.start + stream.written <= u /\ u < stream.start + stream.size
      BY <1>0, <2>1 DEF Units
    <3>2. QED BY <2>2, <3>1
  <2>4. QED BY <1>2, <2>3 DEF Refused, AllBlank
<1>3. CASE pc \in {"body", "body2"}
  BY <1>3, SlotErased DEF FSInv, Refused
<1>4. QED BY <1>1, <1>2, <1>3 DEF Refused

(* So none fails.                                                          *)
LEMMA NoFail ==
  ASSUME FSInv
  PROVE  ~ Fail
<1>1. fails = 0 /\ FailBudget = 0
  BY DEF FSInv, OpInv
<1>2. QED BY <1>1, NotRefused DEF Fail

(* Nothing happens.                                                        *)
LEMMA FSStutter ==
  ASSUME FSInv, UNCHANGED vars
  PROVE  FSInv'
<1>0. /\ UNCHANGED <<super, log, data, area, gen, dir, logUsed, dataEnd, stream, pc, op, left, cur, nrec, fails, allowed>>
      /\ UNCHANGED flash
  BY DEF vars, flash
<1>1. GenInv' /\ SpanInv'
  BY GenInvStep, SpanInvStep DEF FSInv
<1>2. TypeOK' /\ OpInv'
  BY <1>0 DEF FSInv, TypeOK, OpInv, Valid
<1>3. Target(op)' = Target(op)
  BY <1>0, TargetSame
<1>4. \A n : FileAt(n)' = FileAt(n) /\ (NewFileFits(n)' <=> NewFileFits(n)) /\ Known(n)' = Known(n)
  BY <1>0 DEF FileAt, Read, NewFileFits, Known
<1>5. Read(area, op.off, op.size)' = Read(area, op.off, op.size)
  BY <1>0 DEF Read
<1>6. AskInv'
  BY <1>0, <1>4, <1>5 DEF FSInv, AskInv
<1>7. DirInv'
  BY <1>0, <1>4 DEF FSInv, DirInv
<1>8. Base' = Base /\ OpExtent' = OpExtent /\ StreamExtent' = StreamExtent /\ (Placing' <=> Placing) /\ Other' = Other
  BY <1>0 DEF Base, Placing, OpExtent, StreamExtent, Other
<1>9. SpaceInv' /\ StreamInv'
  BY <1>0, <1>8 DEF FSInv, SpaceInv, StreamInv
<1>10. LaidInv'
  BY <1>0, <1>3, <1>8 DEF FSInv, LaidInv
<1>11. DurableFiles' = DurableFiles /\ NewestArea' = NewestArea /\ ((Valid(0) \/ Valid(1))' <=> Valid(0) \/ Valid(1))
  BY <1>0, SameFlash
<1>12. Promised' /\ FlashInv'
  BY <1>0, <1>11 DEF FSInv, Promised, FlashInv, Acknowledged
<1>13. QED BY <1>1, <1>2, <1>6, <1>7, <1>9, <1>10, <1>12 DEF FSInv

(* FSInv is inductive.                                                     *)
LEMMA FSInvStep == FSInv /\ [Next]_vars => FSInv'
<1> SUFFICES ASSUME FSInv, [Next]_vars PROVE FSInv'
  OBVIOUS
<1>1. CASE Calls
  BY <1>1, CallsKeep
<1>2. CASE StartMount \/ ReplayRecord \/ EndMount \/ Format \/ PowerOn \/ ReserveAfterCompaction
  BY <1>2, MountKeeps, ReplayKeeps, EndMountKeeps, PowerKeeps, ReserveKeeps
<1>3. CASE DataProgrammed \/ StreamProgrammed \/ BodyProgrammed \/ Linked \/ Committed
  BY <1>3, DataKeeps, StreamProgrammedKeeps, BodyKeeps, LinkedKeeps, CommittedKeeps
<1>4. CASE AreaErased \/ FileCopied \/ SuperProgrammed \/ FormatStep
  BY <1>4, AreaErasedKeeps, FileCopiedKeeps, SuperKeeps, FormatStepKeeps
<1>5. CASE Fail
  BY <1>5, NoFail
<1>6. CASE Crash
  BY <1>6, CrashKeeps
<1>7. CASE UNCHANGED vars
  BY <1>7, FSStutter
<1>8. QED BY <1>1, <1>2, <1>3, <1>4, <1>5, <1>6, <1>7 DEF Next, Steps

(* FSInv holds of a flash that was never formatted.                        *)
LEMMA FSStarts ==
  ASSUME Init, FailBudget = 0, ~ FullDirRename
  PROVE  FSInv
<1>0. /\ super = [a \in Areas |-> 0] /\ area = 0 /\ gen = 0 /\ dir = <<>> /\ logUsed = 0 /\ dataEnd = 0
      /\ stream = NoStream /\ pc = "off" /\ op = NoOp /\ left = {} /\ cur = 0 /\ nrec = 0 /\ fails = 0
      /\ allowed = [n \in Names |-> {Absent}] /\ DOMAIN dir = {}
  BY NoneTyped DEF Init
<1>1. GenInv /\ SpanInv
  BY GenStarts, SpanStarts
<1>2. log \in [Areas -> Logs] /\ data \in [Areas -> Pools]
  <2>1. ErasedLog \in Logs /\ [i \in Slots |-> Torn] \in Logs
    BY DEF ErasedLog, Logs
  <2>2. BlankData \in Pools /\ [u \in Units |-> Junk] \in Pools
    BY DEF BlankData, Pools, Cells
  <2>3. QED BY <2>1, <2>2 DEF Init
<1>3. TypeOK
  BY <1>0, <1>2, NoneTyped, FFSAssumption DEF TypeOK, Areas, Pcs, Logs, Pools
<1>4. OpInv
  BY <1>0, NoneTyped DEF OpInv, Laying, Mounting, Compacts
<1>5. AskInv /\ DirInv /\ LaidInv /\ SpaceInv
  BY <1>0 DEF AskInv, DirInv, LaidInv, SpaceInv, Adding, Laying, UpPcs, Placing
<1>6. StreamInv
  BY <1>0, NoneTyped DEF StreamInv
<1>7. ~ Valid(0) /\ ~ Valid(1) /\ super[0] = 0 /\ super[1] = 0
  BY <1>0 DEF Valid, Areas
<1>8. Promised
  BY <1>0, <1>7, DurableIs DEF Promised, Adding, Laying, Mounting
<1>9. FlashInv
  BY <1>0, <1>7 DEF FlashInv
<1>10. QED BY <1>1, <1>3, <1>4, <1>5, <1>6, <1>8, <1>9 DEF FSInv

(* FSInv holds for ever, if no primitive fails of itself.                  *)
LEMMA FSInvHolds ==
  ASSUME FailBudget = 0, ~ FullDirRename
  PROVE  Spec => []FSInv
<1>1. Init => FSInv
  BY FSStarts
<1>2. QED BY <1>1, FSInvStep, PTL DEF Spec

(* The history and the flash agree.                                        *)
LEMMA FSAllowed ==
  FSInv => DurableAllowed
<1> SUFFICES ASSUME FSInv PROVE DurableAllowed
  OBVIOUS
<1>1. \A n \in Names : DurableFiles[n] \in allowed[n]
  BY DEF FSInv, Promised
<1>2. ASSUME op.kind = "rename" PROVE op.body \in {DurableFiles[op.name], DurableFiles[op.to]}
  <2>1. op.name \in Names /\ op.to \in Names
    BY <1>2 DEF FSInv, OpInv, Compacts
  <2>2. CASE pc \in Adding \cup Laying
    <3>1. op.name \in DOMAIN dir /\ op.body = FileAt(op.name) /\ pc \in UpPcs
      BY <1>2, <2>2, UpRename DEF Adding, Laying, UpPcs
    <3>2. DurableFiles[op.name] = FileAt(op.name)
      BY <3>1, <2>1, UpDurable
    <3>3. QED BY <3>1, <3>2
  <2>3. CASE pc \in Mounting
    <3>1. DurableFiles[op.to] \in Acknowledged(op)[op.to]
      BY <1>2, <2>1, <2>3 DEF FSInv, Promised
    <3>2. Outcome(op, op.to) = {op.body}
      BY DEF Outcome
    <3>3. QED BY <2>1, <3>1, <3>2 DEF Acknowledged
  <2>4. pc \in Adding \cup Laying \cup Mounting
    BY <1>2, NoneTyped DEF FSInv, OpInv, TypeOK, Pcs, Adding, Laying, Mounting
  <2>5. QED BY <2>2, <2>3, <2>4
<1>3. QED BY <1>1, <1>2 DEF DurableAllowed

(* The directory and the log agree.                                        *)
LEMMA FSDir ==
  FSInv => DirIsDurable
<1> SUFFICES ASSUME FSInv, pc = "idle", NEW n \in Names
             PROVE  Described(NewestArea, LogEnd(NewestArea), n) = IF n \in DOMAIN dir THEN {dir[n]} ELSE {}
  BY DEF DirIsDurable
<1>1. pc \in UpPcs
  BY DEF UpPcs
<1>2. Described(NewestArea, LogEnd(NewestArea), n) = ExtentIn(log[area], EndOf(log[area]), n)
  BY <1>1, UpLog, DescribedIs
<1>3. QED BY <1>1, <1>2, UpKnown

(* Files and stream lie apart, and the stream reads as it came.            *)
LEMMA FSFormed ==
  FSInv => WellFormed
<1> SUFFICES ASSUME FSInv PROVE WellFormed
  OBVIOUS
<1>1. TypeOK
  BY DEF FSInv
<1>2. ExtentsDisjoint
  <2> SUFFICES ASSUME pc = "idle"
               PROVE  /\ \A n \in DOMAIN dir : dir[n].off + dir[n].size <= dataEnd
                      /\ \A n, m \in DOMAIN dir : dir[n] = dir[m] \/ Apart(dir[n], dir[m])
                      /\ stream.active =>
                           /\ stream.start + stream.size <= dataEnd
                           /\ \A n \in DOMAIN dir : Apart(dir[n], [off |-> stream.start, size |-> stream.size])
    BY DEF ExtentsDisjoint
  <2>1. pc \in UpPcs /\ Base = dataEnd
    BY DEF UpPcs, Base, Placing
  <2>2. QED BY <2>1, UpExtents, UpApart, StreamSpan DEF StreamExtent
<1>3. StreamIntact
  BY ReadIs DEF FSInv, StreamInv, StreamIntact
<1>4. QED BY <1>1, <1>2, <1>3 DEF WellFormed

(* flashfs.h's "the newest record for a name wins", at every mount: no     *)
(* record lies behind the slot where mount() takes the log to end. It needs*)
(* no primitive that fails without having done anything (or no failure at  *)
(* all): log_append() counts a slot before it programs it, so such a       *)
(* failure leaves a gap.                                                   *)
THEOREM NewestWins ==
  ASSUME FailBudget = 0 \/ "nothing" \notin FailEffects
  PROVE  Spec => []NewestRecordWins
<1>1. Init => GenInv /\ SpanInv
  BY GenStarts, SpanStarts
<1>2. GenInv /\ SpanInv /\ [Next]_vars => GenInv' /\ SpanInv'
  BY GenInvStep, SpanInvStep
<1>3. GenInv /\ SpanInv => NewestRecordWins
  BY SpanWins
<1>4. QED BY <1>1, <1>2, <1>3, PTL DEF Spec

(* flashfs.h's promise about power cuts: whenever the power goes, in       *)
(* whichever primitive and with whichever effect, a mount finds for every  *)
(* name the last acknowledged version or the one being written, a renamed  *)
(* file under one of its names, and no other file touched. The hypotheses: *)
(* no primitive fails of itself, and no rename while the directory is full *)
(* (the run fullrename shows what that breaks).                            *)
THEOREM CrashesAreSafe ==
  ASSUME FailBudget = 0, ~ FullDirRename
  PROVE  Spec => []DurableAllowed
BY FSInvHolds, FSAllowed, PTL

(* Under the same hypotheses, between two calls the directory in RAM holds *)
(* exactly the extents the log on the flash describes.                     *)
THEOREM DirectoryIsDurable ==
  ASSUME FailBudget = 0, ~ FullDirRename
  PROVE  Spec => []DirIsDurable
BY FSInvHolds, FSDir, PTL

(* Under the same hypotheses, prog() never finds its cells in use: whatever*)
(* power cuts left behind, mount() hands out only cells that are blank to  *)
(* the end of the pool.                                                    *)
THEOREM NothingRefused ==
  ASSUME FailBudget = 0, ~ FullDirRename
  PROVE  Spec => []NeverRefused
<1>1. FSInv => NeverRefused
  BY NotRefused DEF NeverRefused
<1>2. QED BY <1>1, FSInvHolds, PTL

(* Under the same hypotheses, files share no cells with one another or with*)
(* the open stream, nothing reaches into the space handed out next, and the*)
(* stream reads back as it was sent.                                       *)
THEOREM FilesWellFormed ==
  ASSUME FailBudget = 0, ~ FullDirRename
  PROVE  Spec => []WellFormed
BY FSInvHolds, FSFormed, PTL

-----------------------------------------------------------------------------
(* A mount loses nothing.                                                  *)

(* The step that ends a mount is EndMount.                                 *)
LEMMA BootStep ==
  ASSUME FSInv, [Next]_vars, pc = "replay", pc' = "idle"
  PROVE  EndMount
BY NoFail DEF Next, Calls, Steps, vars, Write, Delete, Rename, StreamBegin, StreamWrite, StreamEnd, StreamAbort, Start,
     StartMount, ReplayRecord, Format, FormatStep, DataProgrammed, StreamProgrammed, BodyProgrammed, Linked, Committed,
     AreaErased, FileCopied, SuperProgrammed, ReserveAfterCompaction, PowerOn, Crash

(* Under the same hypotheses, a file that was there when the power went is *)
(* there after the next mount: no order of writes, deletions, renames,     *)
(* compactions and power cuts makes replay drop it.                        *)
THEOREM NoFileVanishes ==
  ASSUME FailBudget = 0, ~ FullDirRename
  PROVE  Spec => BootLosesNothing
<1> DEFINE Lost == pc = "replay" /\ op.kind = "none" /\ pc' = "idle" =>
                     \A n \in Names : Absent \notin allowed[n] => n \in DOMAIN dir
<1>1. ASSUME FSInv, [Next]_vars PROVE Lost
  <2> SUFFICES ASSUME pc = "replay", pc' = "idle", NEW n \in Names, Absent \notin allowed[n]
               PROVE  n \in DOMAIN dir
    OBVIOUS
  <2>1. AtLogEnd
    BY <1>1, BootStep DEF EndMount
  <2>2. DurableFiles[n] = FileAt(n) /\ DurableFiles[n] \in allowed[n]
    BY <1>1, <2>1, MountedFiles DEF FSInv, Promised
  <2>3. QED BY <2>2 DEF FileAt
<1>2. Spec => [][Lost]_vars
  BY <1>1, FSInvHolds, PTL DEF Spec
<1>3. QED BY <1>2 DEF BootLosesNothing

-----------------------------------------------------------------------------
(* The store implemented.                                                  *)

(* A file of the directory is there, and is no "no file".                  *)
LEMMA FileThere ==
  ASSUME FSInv, pc \in UpPcs, NEW n \in DOMAIN dir
  PROVE  DurableFiles[n] = FileAt(n) /\ FileAt(n) # Absent
<1>1. n \in Names /\ FileAt(n) \in Seq(Cells)
  BY UpExtents, UpFileAt
<1>2. QED BY <1>1, UpDurable, AbsentAssumption

(* The calls the abstract store does not see.                              *)
LEMMA NoRequestIs ==
  /\ Store!NoRequest = [kind |-> "none", name |-> Absent, to |-> Absent, body |-> Absent]
  /\ op.kind \in {"none", "begin", "swrite"} => Request = Store!NoRequest
BY DEF Store!NoRequest, Request

(* The same after a step.                                                  *)
LEMMA NoRequestNext ==
  op'.kind \in {"none", "begin", "swrite"} => Request' = Store!NoRequest
BY DEF Store!NoRequest, Request

(* A step that leaves the files alone, and goes on with the call or ends   *)
(* it, and one that makes a call.                                          *)
LEMMA StoreQuiet ==
  ASSUME DurableFiles' = DurableFiles, Request' \in {Request, Store!NoRequest}
  PROVE  [Store!StoreNext]_(Store!storeVars)
<1>1. CASE Request' = Request
  BY <1>1 DEF Store!storeVars
<1>2. CASE Request' # Request
  <2>1. Store!Return
    BY <1>2 DEF Store!Return
  <2>2. QED BY <2>1 DEF Store!StoreNext
<1>3. QED BY <1>1, <1>2

(* DurableFiles is a function on Names.                                    *)
LEMMA DurableFcn ==
  DurableFiles = [n \in Names |-> DurableFiles[n]]
BY DEF DurableFiles

(* The request of the call in progress, after a step.                      *)
LEMMA RequestNext ==
  /\ op'.kind \in {"write", "end"} =>
       Request' = [kind |-> "put", name |-> op'.name, to |-> Absent, body |-> op'.body]
  /\ op'.kind = "delete" =>
       Request' = [kind |-> "remove", name |-> op'.name, to |-> op'.to, body |-> Absent]
  /\ op'.kind = "rename" =>
       Request' = [kind |-> "rename", name |-> op'.name, to |-> op'.to, body |-> Absent]
BY DEF Request

(* A call is the store's Call, or nothing the store sees.                  *)
LEMMA StoreCalls ==
  ASSUME FSInv, Calls
  PROVE  [Store!StoreNext]_(Store!storeVars)
<1>0. pc = "idle" /\ op = NoOp /\ UNCHANGED flash
  BY StreamKeptNow DEF Calls, Write, Delete, Rename, StreamBegin, StreamWrite, StreamEnd, StreamAbort, Start
<1>1. DurableFiles' = DurableFiles
  BY <1>0, SameFlash
<1>2. Request = Store!NoRequest /\ pc \in UpPcs
  BY <1>0, NoRequestIs, NoneTyped DEF UpPcs
<1>3. FSInv'
  BY CallsKeep
<1>4. CASE op'.kind \in {"none", "begin", "swrite"}
  BY <1>1, <1>2, <1>4, NoRequestNext, StoreQuiet
<1>5. CASE op'.kind \in {"write", "end"}
  <2>1. op'.name \in Names /\ op'.body \in Contents
    BY <1>3, <1>5 DEF FSInv, OpInv, Compacts
  <2>2. Store!Call
    BY <1>1, <1>2, <1>5, <2>1, RequestNext DEF Store!Call, Store!Requests
  <2>3. QED BY <2>2 DEF Store!StoreNext
<1>6. CASE op'.kind = "delete"
  <2>1. op'.name \in Names /\ op'.to = Absent
    BY <1>3, <1>6 DEF FSInv, OpInv, Compacts
  <2>2. Store!Call
    BY <1>1, <1>2, <1>6, <2>1, RequestNext DEF Store!Call, Store!Requests
  <2>3. QED BY <2>2 DEF Store!StoreNext
<1>7. CASE op'.kind = "rename"
  <2>1. PICK n \in Names, m \in Names : Rename(n, m)
    BY <1>0, <1>7, NoneTyped DEF Calls, Write, Delete, StreamBegin, StreamWrite, StreamEnd, StreamAbort, Start, NoOp
  <2>2. op'.name = n /\ op'.to = m /\ n \in DOMAIN dir /\ m \notin DOMAIN dir
    BY <2>1 DEF Rename, Start, NoOp
  <2>3. DurableFiles[n] # Absent /\ DurableFiles[m] = Absent
    <3>1. DurableFiles[n] # Absent
      BY <1>2, <2>2, FileThere
    <3>2. DurableFiles[m] = Absent
      BY <1>0, <1>2, <2>2, UpDurable
    <3>3. QED BY <3>1, <3>2
  <2>4. Store!Call
    BY <1>1, <1>2, <1>7, <2>2, <2>3, RequestNext DEF Store!Call, Store!Requests
  <2>5. QED BY <2>4 DEF Store!StoreNext
<1>8. op'.kind \in {"none", "write", "delete", "rename", "begin", "swrite", "end"}
  BY <1>3 DEF FSInv, TypeOK, Ops
<1>9. QED BY <1>4, <1>5, <1>6, <1>7, <1>8

(* A primitive that changes the files: one of the changes of the store.    *)
LEMMA StoreChanges ==
  ASSUME FSInv, Primitive("done"), pc \in {"commit", "commit2", "super"},
         Request' \in {Request, Store!NoRequest}
  PROVE  [Store!StoreNext]_(Store!storeVars)
<1>0. pc \in UpPcs /\ pc \in Adding \cup Laying
  BY DEF UpPcs, Adding, Laying
<1>1. CASE pc = "commit" /\ op.kind = "rename"
  <2>1. DurableFiles' = [n \in Names |-> IF n = op.to THEN op.body ELSE DurableFiles[n]]
    BY <1>1, CommitDurable, LinkedIs
  <2>2. /\ op.name \in DOMAIN dir /\ op.to \notin DOMAIN dir /\ op.to \in Names /\ op.name \in Names
        /\ op.body = FileAt(op.name)
    BY <1>0, <1>1, UpRename
  <2>3. DurableFiles[op.name] = op.body /\ DurableFiles[op.to] = Absent
    <3>1. DurableFiles[op.name] = op.body
      BY <1>0, <2>2, UpDurable
    <3>2. DurableFiles[op.to] = Absent
      BY <1>0, <1>1, <2>2, UpDurable
    <3>3. QED BY <3>1, <3>2
  <2>4. DurableFiles' = [DurableFiles EXCEPT ![op.to] = DurableFiles[op.name]]
    BY <2>1, <2>2, <2>3, DurableFcn
  <2>5. Store!Link
    BY <1>1, <2>3, <2>4 DEF Store!Link, Request
  <2>6. QED BY <2>5 DEF Store!StoreNext
<1>2. CASE pc # "commit" \/ op.kind # "rename"
  <2>0. /\ op.kind \in Compacts /\ op.name \in Names /\ Gone \subseteq DOMAIN dir /\ Added \subseteq Names
        /\ op.kind = "rename" => op.to \in Names /\ op.to # op.name
    BY <1>0, OpFacts DEF FSInv, OpInv
  <2>1. DurableFiles' = [n \in Names |-> IF n \in Added THEN op.body ELSE IF n \in Gone THEN Absent ELSE DurableFiles[n]]
    BY <1>2, CommitDurable, CommittedIs, SuperDurable, LaidIs DEF ChangedFiles
  <2>2. CASE op.kind \in {"write", "end"}
    <3>1. DurableFiles' = [DurableFiles EXCEPT ![op.name] = op.body]
      BY <2>0, <2>1, <2>2, DurableFcn DEF Added, Gone
    <3>2. Store!Put
      BY <2>2, <3>1 DEF Store!Put, Request
    <3>3. QED BY <3>2 DEF Store!StoreNext
  <2>3. CASE op.kind = "delete"
    <3>1. DurableFiles' = [DurableFiles EXCEPT ![op.name] = Absent]
      BY <2>0, <2>1, <2>3, DurableFcn DEF Added, Gone
    <3>2. Store!Remove
      BY <2>3, <3>1 DEF Store!Remove, Request
    <3>3. QED BY <3>2 DEF Store!StoreNext
  <2>4. CASE op.kind = "rename"
    <3>1. /\ op.name \in DOMAIN dir /\ op.to \notin DOMAIN dir /\ op.body = FileAt(op.name)
          /\ DurableFiles[op.name] = op.body
      BY <1>0, <2>0, <2>4, UpRename, UpDurable
    <3>2. CASE pc = "commit2"
      <4>1. DurableFiles[op.to] = op.body
        BY <1>0, <2>0, <2>4, <3>1, <3>2, UpDurable
      <4>2. DurableFiles' = [DurableFiles EXCEPT ![op.name] = Absent]
        BY <2>0, <2>1, <2>4, <4>1, DurableFcn DEF Added, Gone
      <4>3. Store!Unlink
        BY <2>4, <3>1, <4>1, <4>2 DEF Store!Unlink, Request
      <4>4. QED BY <4>3 DEF Store!StoreNext
    <3>3. CASE pc = "super"
      <4>1. DurableFiles[op.to] = Absent
        BY <1>0, <2>0, <2>4, <3>1, <3>3, UpDurable
      <4>2. DurableFiles' = [DurableFiles EXCEPT ![op.to] = DurableFiles[op.name], ![op.name] = Absent]
        BY <2>0, <2>1, <2>4, <3>1, <4>1, DurableFcn DEF Added, Gone
      <4>3. Store!Move
        BY <2>4, <4>1, <4>2 DEF Store!Move, Request
      <4>4. QED BY <4>3 DEF Store!StoreNext
    <3>4. QED BY <1>2, <2>4, <3>2, <3>3
  <2>5. CASE op.kind = "begin"
    <3>1. DurableFiles' = DurableFiles
      BY <2>1, <2>5, DurableFcn DEF Added, Gone
    <3>2. QED BY <3>1, StoreQuiet
  <2>6. QED BY <2>0, <2>2, <2>3, <2>4, <2>5 DEF Compacts
<1>3. QED BY <1>1, <1>2

(* Every primitive, then, that the call or a power cut goes with.          *)
LEMMA StorePrimitive ==
  ASSUME FSInv, NEW e \in Effects, Primitive(e), Request' \in {Request, Store!NoRequest}
  PROVE  [Store!StoreNext]_(Store!storeVars)
<1>1. CASE e = "done" /\ pc \in {"commit", "commit2", "super"}
  BY <1>1, StoreChanges
<1>2. CASE pc \in UpPcs /\ ~ Telling(e)
  BY <1>2, KeepsFiles, StoreQuiet
<1>3. CASE pc \in {"erase1", "erase0", "format"}
  BY <1>3, FormatDurable, StoreQuiet
<1>4. CASE pc \in Quiet
  BY <1>4, QuietFlash, SameFlash, StoreQuiet
<1>5. QED BY <1>1, <1>2, <1>3, <1>4 DEF Telling, Quiet, UpPcs, FSInv, TypeOK, Pcs

(* Every step is a step of the store, or none.                             *)
LEMMA StoreStep ==
  ASSUME FSInv, [Next]_vars
  PROVE  [Store!StoreNext]_(Store!storeVars)
<1>1. CASE Calls
  BY <1>1, StoreCalls
<1>2. CASE StartMount \/ ReplayRecord \/ EndMount \/ Format \/ PowerOn \/ ReserveAfterCompaction \/ UNCHANGED vars
  <2>1. UNCHANGED flash
    BY <1>2 DEF StartMount, ReplayRecord, EndMount, Format, PowerOn, ReserveAfterCompaction, vars, flash
  <2>2. op' = op \/ op' = NoOp
    BY <1>2 DEF StartMount, ReplayRecord, EndMount, Format, PowerOn, ReserveAfterCompaction, vars, Finish
  <2>3. op' = op => Request' = Request
    BY DEF Request
  <2>4. Request' \in {Request, Store!NoRequest}
    BY <2>2, <2>3, NoRequestNext, NoneTyped
  <2>5. QED BY <2>1, <2>4, SameFlash, StoreQuiet
<1>3. CASE DataProgrammed \/ StreamProgrammed \/ BodyProgrammed \/ Linked \/ Committed
           \/ AreaErased \/ FileCopied \/ SuperProgrammed \/ FormatStep
  <2>1. Primitive("done") /\ "done" \in Effects
    BY <1>3 DEF DataProgrammed, StreamProgrammed, BodyProgrammed, Linked, Committed, AreaErased, FileCopied,
         SuperProgrammed, FormatStep, Succeeds, Primitive, Effects
  <2>2. op' = op \/ op' = NoOp \/ op' = [op EXCEPT !.ok = TRUE]
    BY <1>3 DEF DataProgrammed, StreamProgrammed, BodyProgrammed, Linked, Committed, AreaErased, FileCopied,
         SuperProgrammed, FormatStep, Finish
  <2>3. op' = op \/ op' = [op EXCEPT !.ok = TRUE] => Request' = Request
    BY DEF Request, FSInv, TypeOK, Ops
  <2>4. Request' \in {Request, Store!NoRequest}
    BY <2>2, <2>3, NoRequestNext, NoneTyped
  <2>5. QED BY <2>1, <2>4, StorePrimitive
<1>4. CASE Crash
  <2>1. PICK e \in Effects : Primitive(e)
    BY <1>4 DEF Crash
  <2>2. op' = NoOp
    BY <1>4 DEF Crash
  <2>3. QED BY <2>1, <2>2, NoRequestNext, NoneTyped, StorePrimitive
<1>5. QED BY <1>1, <1>2, <1>3, <1>4, NoFail DEF Next, Steps

(* A flash that was never formatted is an empty store.                     *)
LEMMA StoreStarts ==
  ASSUME Init
  PROVE  Store!StoreInit
<1>1. super[0] = 0 /\ super[1] = 0 /\ op.kind = "none"
  BY NoneTyped DEF Init, Areas
<1>2. DurableFiles = [n \in Names |-> Absent]
  BY <1>1, DurableIs
<1>3. QED BY <1>1, <1>2, NoRequestIs DEF Store!StoreInit

(* Under the same hypotheses, the flash filesystem implements FileStore:   *)
(* seen through what a mount would find, every primitive, power cut and    *)
(* mount is one indivisible change of the store, the return of a call, or  *)
(* nothing.                                                                *)
THEOREM BehavesLikeStore ==
  ASSUME FailBudget = 0, ~ FullDirRename
  PROVE  Spec => ImplementsStore
<1>1. Init => Store!StoreInit
  BY StoreStarts
<1>2. FSInv /\ [Next]_vars => [Store!StoreNext]_(Store!storeVars)
  BY StoreStep
<1>3. QED BY <1>1, <1>2, FSInvHolds, PTL DEF Spec, ImplementsStore, Store!StoreSpec
=============================================================================

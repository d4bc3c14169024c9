------------------------------- MODULE FlashFS -------------------------------
(***************************************************************************)
(* The flash filesystem, fs/flashfs.c: two areas of NOR flash, one of them *)
(* active, each with a superblock, an append-only record log and an        *)
(* append-only data pool; the directory, which is kept in RAM only; the    *)
(* streamed write; and compaction into the other area.                     *)
(*                                                                         *)
(* One step is one primitive of fs/storage.h (an erase or a program), with *)
(* the C code around it.  During any primitive the power may go, and any   *)
(* primitive may fail: both leave the flash with an effect of "nothing",   *)
(* "partial" or "done".                                                    *)
(*                                                                         *)
(* Sizes and offsets count units of four bytes (align4), offsets from      *)
(* DATA_OFFSET of the area.                                                *)
(***************************************************************************)
EXTENDS Integers, Sequences, FiniteSets, FiniteSetsExt

CONSTANTS
  Names,          \* file names
  Vals,           \* what a unit of file data can hold (Blank: data of 0xFF)
  Blank,          \* an erased unit
  Junk,           \* a unit left behind by an interrupted program or erase
  Absent,         \* "no file"
  LogRecords,     \* LOG_RECORDS: record slots of an area
  Pool,           \* units of file data of an area
  MaxFiles,       \* FFS_MAX_FILES
  MaxSize,        \* FFS_MAX_FILE_SIZE
  FailEffects,    \* what a failing primitive may have done to the flash
  FullDirRename,  \* FALSE: no rename while the directory is full
  MaxGen,         \* bound: the generations a behaviour may use
  FailBudget      \* bound: the failing primitives of a behaviour

Effects == {"nothing", "partial", "done"}

ASSUME FFSAssumption ==
  /\ LogRecords \in Nat \ {0} /\ Pool \in Nat /\ MaxFiles \in Nat /\ MaxSize \in Nat
  /\ MaxGen \in Nat \ {0} /\ FailBudget \in Nat
  /\ FailEffects \subseteq Effects
  /\ FullDirRename \in BOOLEAN
  /\ Absent \notin Names /\ Absent \notin Vals

VARIABLES
  super,          \* flash: an area's generation, 0 while its superblock is invalid
  log,            \* flash: an area's record slots
  data,           \* flash: an area's data pool
  area, gen,      \* s_area, s_gen
  dir,            \* s_dir: name -> its extent in the active area
  logUsed,        \* s_log_used; while mounting, the slot mount() is at
  dataEnd,        \* s_data_end
  stream,         \* s_stream
  pc,             \* the primitive about to be executed
  op,             \* the call in progress
  left,           \* lay_out(): the files not yet copied,
  cur, nrec,      \* its next free unit and records written
  fails,          \* failures so far
  allowed         \* history: per name, what a mount may find

flash == <<super, log, data>>
ram == <<area, gen, dir, logUsed, dataEnd, stream>>
vars == <<super, log, data, area, gen, dir, logUsed, dataEnd, stream,
          pc, op, left, cur, nrec, fails, allowed>>

-----------------------------------------------------------------------------
(* The flash *)

Areas == {0, 1}
Slots == 1 .. LogRecords
Units == 0 .. Pool - 1
Cells == Vals \cup {Blank, Junk}
ASSUME AbsentAssumption == Absent \notin Seq(Cells)

Contents == UNION {[1 .. k -> Vals] : k \in 0 .. MaxSize}

(* The slot a power cut left half programmed reads as neither kind.        *)
Erased == [kind |-> "erased"]
Torn == [kind |-> "torn"]
FileRec(n, off, size) == [kind |-> "file", name |-> n, off |-> off, size |-> size]
DelRec(n) == [kind |-> "del", name |-> n]
Records == [kind : {"file"}, name : Names, off : 0 .. Pool, size : 0 .. MaxSize]
           \cup [kind : {"del"}, name : Names]

IsFor(slot, n) == slot.kind \in {"file", "del"} /\ slot.name = n

Valid(a) == super[a] # 0
NewestArea == IF super[1] > super[0] THEN 1 ELSE 0

Read(a, off, size) == [i \in 1 .. size |-> data[a][off + i - 1]]
Program(d, off, s) ==
  [u \in Units |-> IF u \in off .. off + Len(s) - 1 THEN s[u - off + 1] ELSE d[u]]
Reads(d, off, s) == \A i \in 1 .. Len(s) : d[off + i - 1] = s[i]
AllBlank(d, off, size) == \A u \in off .. off + size - 1 : d[u] = Blank

(* An interrupted program got through k units and spoiled the next one     *)
(* (programming 0xFF over erased flash changes nothing).                   *)
Spoiled(d, off, s) ==
  {Program(d, off, SubSeq(s, 1, k) \o <<Junk>>) :
     k \in {i \in 0 .. Len(s) - 1 : s[i + 1] # Blank}}

ErasedLog == [i \in Slots |-> Erased]
BlankData == [u \in Units |-> Blank]

-----------------------------------------------------------------------------
(* What the flash holds: the directory the log of an area describes, the   *)
(* newest record for a name deciding.  A log ends at its first erased slot.*)

LogEnd(a) ==
  CHOOSE k \in 0 .. LogRecords :
    /\ \A j \in 1 .. k : log[a][j] # Erased
    /\ k = LogRecords \/ log[a][k + 1] = Erased

(* The last of the first k slots with a record for n; 0 if there is none.  *)
Newest(a, k, n) ==
  CHOOSE j \in 0 .. k :
    /\ j = 0 \/ IsFor(log[a][j], n)
    /\ \A i \in j + 1 .. k : ~IsFor(log[a][i], n)

(* The extent that record gives the file, and the file's contents.         *)
Described(a, k, n) ==
  LET j == Newest(a, k, n)
  IN  IF j # 0 /\ log[a][j].kind = "file"
      THEN {[off |-> log[a][j].off, size |-> log[a][j].size]} ELSE {}

FileIn(a, k, n) ==
  LET j == Newest(a, k, n)
  IN  IF j # 0 /\ log[a][j].kind = "file"
      THEN Read(a, log[a][j].off, log[a][j].size) ELSE Absent

DurableFiles ==
  IF super[0] = 0 /\ super[1] = 0
  THEN [n \in Names |-> Absent]
  ELSE LET a == NewestArea
           end == LogEnd(a)
       IN  [n \in Names |-> FileIn(a, end, n)]

(* What the running system believes.                                       *)
FileAt(n) == IF n \in DOMAIN dir THEN Read(area, dir[n].off, dir[n].size) ELSE Absent

-----------------------------------------------------------------------------
(* Calls *)

NoOp == [kind |-> "none", name |-> Absent, to |-> Absent, body |-> Absent,
         off |-> 0, size |-> 0, ok |-> FALSE]
NoStream == [active |-> FALSE, name |-> Absent, start |-> 0, size |-> 0,
             written |-> 0, body |-> <<>>]

(* Mutant: the old name goes first.                                        *)
RecDelFirst == IF op.kind = "delete" \/ (op.kind = "rename" /\ pc \in {"body", "commit"})
               THEN DelRec(op.name)
               ELSE FileRec(IF op.kind = "rename" THEN op.to ELSE op.name, op.off, op.size)

(* The record log_append() is programming.                                 *)
Rec == IF op.kind = "delete" \/ (op.kind = "rename" /\ pc \in {"body2", "commit2"})
       THEN DelRec(op.name)
       ELSE FileRec(IF op.kind = "rename" THEN op.to ELSE op.name, op.off, op.size)

(* Mutant: making room for a stream drops the old file of its name.        *)
TargetDropsOld(o) ==
  [n \in DOMAIN dir \ (IF o.kind \in {"delete", "begin"} THEN {o.name} ELSE {}) |-> FileAt(n)]

(* The files with the change of call o applied: what lay_out() copies.  It *)
(* copies them in the order of s_dir, which is not modelled: any order.    *)
Target(o) ==
  LET gone == IF o.kind \in {"delete", "rename"} THEN {o.name} ELSE {}
      added == IF o.kind \in {"write", "end"} THEN {o.name}
               ELSE IF o.kind = "rename" THEN {o.to} ELSE {}
      new == IF o.kind = "write" THEN o.body
             ELSE IF o.kind = "end" THEN Read(area, o.off, o.size)
             ELSE FileAt(o.name)
  IN  [n \in (DOMAIN dir \ gone) \cup added |-> IF n \in added THEN new ELSE FileAt(n)]

Fits(files) ==
  /\ Cardinality(DOMAIN files) <= LogRecords
  /\ MapThenSumSet(LAMBDA n : Len(files[n]), DOMAIN files) <= Pool

(* What the history may find once the call has started, and once it has    *)
(* been acknowledged.                                                      *)
Outcome(o, n) ==
  IF n = o.to \/ (n = o.name /\ o.kind \in {"write", "end"}) THEN {o.body}
  ELSE IF n = o.name /\ o.kind \in {"delete", "rename"} THEN {Absent}
  ELSE {}
MayBecome(o) == [n \in Names |-> allowed[n] \cup Outcome(o, n)]
Acknowledged(o) ==
  [n \in Names |-> IF Outcome(o, n) = {} THEN allowed[n] ELSE Outcome(o, n)]

Start(o, next) == pc = "idle" /\ op' = o /\ pc' = next /\ allowed' = MayBecome(o)
Finish(ok) ==
  /\ pc' = "idle" /\ op' = NoOp
  /\ allowed' = IF ok THEN Acknowledged(op) ELSE allowed

(* After a change on flash, the directory (and the acknowledgement).       *)
SetEntry(n, off, size) ==
  [m \in DOMAIN dir \cup {n} |-> IF m = n THEN [off |-> off, size |-> size] ELSE dir[m]]
RemoveEntry(n) == [m \in DOMAIN dir \ {n} |-> dir[m]]

-----------------------------------------------------------------------------
(* The primitive of the current pc, with one of its effects on the flash   *)

(* prog() does nothing if the flash already reads as wanted.               *)
ProgramData(off, s, e) ==
  /\ IF e = "nothing" \/ Reads(data[area], off, s)
     THEN UNCHANGED data
     ELSE \E d \in IF e = "done" THEN {Program(data[area], off, s)}
                                 ELSE Spoiled(data[area], off, s) :
            data' = [data EXCEPT ![area] = d]
  /\ UNCHANGED <<super, log>>

(* Mutant: a record is programmed kind and all by the second program.      *)
ProgramBodyLater(e) == e \in Effects /\ UNCHANGED flash

(* Everything of a record but its kind; then its kind, which commits it.   *)
(* logUsed already counts the slot.                                        *)
ProgramBody(e) ==
  /\ log' = IF e = "nothing" THEN log ELSE [log EXCEPT ![area][logUsed] = Torn]
  /\ UNCHANGED <<super, data>>
ProgramCommit(e) ==
  /\ log' = IF e = "done" THEN [log EXCEPT ![area][logUsed] = Rec] ELSE log
  /\ UNCHANGED <<super, data>>

(* An interrupted erase may leave the superblock valid (the generation is  *)
(* stored twice, once inverted: it cannot change) over a ruined area.      *)
(* Erased blocks are not erased again.                                     *)
EraseArea(a, e) ==
  \/ e = "nothing" /\ UNCHANGED flash
  \/ /\ e = "partial"
     /\ super' \in {super, [super EXCEPT ![a] = 0]}
     /\ IF log[a] = ErasedLog /\ data[a] = BlankData
        THEN UNCHANGED <<log, data>>
        ELSE /\ log' = [log EXCEPT ![a] = [i \in Slots |-> Torn]]
             /\ data' = [data EXCEPT ![a] = [u \in Units |-> Junk]]
  \/ /\ e = "done"
     /\ super' = [super EXCEPT ![a] = 0]
     /\ log' = [log EXCEPT ![a] = ErasedLog]
     /\ data' = [data EXCEPT ![a] = BlankData]

(* One file into the area being laid out: its data, its record.            *)
CopyFile(n, e) ==
  LET to == 1 - area
      c == Target(op)[n]
  IN  /\ log' = IF e = "nothing" THEN log
                ELSE [log EXCEPT ![to][nrec + 1] =
                        IF e = "done" THEN FileRec(n, cur, Len(c)) ELSE Torn]
      /\ data' = IF e = "nothing" THEN data
                 ELSE [data EXCEPT ![to] = Program(@, cur, c)]
      /\ UNCHANGED super

(* Mutant: the generation does not advance.                                *)
ProgramSuperSameGen(a, g, e) ==
  /\ super' = IF e = "done" THEN [super EXCEPT ![a] = IF g > 1 THEN g - 1 ELSE g] ELSE super
  /\ UNCHANGED <<log, data>>

(* The area counts once the magic, the last word, is programmed.           *)
ProgramSuper(a, g, e) ==
  /\ super' = IF e = "done" THEN [super EXCEPT ![a] = g] ELSE super
  /\ UNCHANGED <<log, data>>

Quiet == {"off", "mount", "replay", "unformatted", "nofs", "idle", "reserve"}
Primitive(e) ==
  \/ pc = "data" /\ ProgramData(op.off, op.body, e)
  \/ pc = "swrite" /\ ProgramData(stream.start + stream.written, op.body, e)
  \/ pc \in {"body", "body2"} /\ ProgramBody(e)
  \/ pc \in {"commit", "commit2"} /\ ProgramCommit(e)
  \/ pc = "erase" /\ EraseArea(1 - area, e)
  \/ pc = "copy" /\ \E n \in left : CopyFile(n, e)
  \/ pc = "super" /\ ProgramSuper(1 - area, gen + 1, e)
  \/ pc = "erase1" /\ EraseArea(1, e)
  \/ pc = "erase0" /\ EraseArea(0, e)
  \/ pc = "format" /\ ProgramSuper(0, 1, e)
  \/ pc \in Quiet /\ e = "nothing" /\ UNCHANGED flash

(* prog() leaves a flash alone that already reads as wanted.               *)
Needless ==
  \/ pc = "data" /\ Reads(data[area], op.off, op.body)
  \/ pc = "swrite" /\ Reads(data[area], stream.start + stream.written, op.body)

(* prog() refuses cells that are neither erased nor already as wanted.     *)
Refused ==
  \/ pc = "data" /\ ~AllBlank(data[area], op.off, Len(op.body)) /\ ~Needless
  \/ pc = "swrite" /\ ~AllBlank(data[area], stream.start + stream.written, 1) /\ ~Needless
  \/ pc \in {"body", "body2"} /\ log[area][logUsed] # Erased

-----------------------------------------------------------------------------
(* Power, mount and format *)

(* Mutant: a stream survives a mount.                                      *)
StartMountKeepsStream ==
  /\ pc = "mount"
  /\ dir' = <<>> /\ logUsed' = 0 /\ dataEnd' = 0
  /\ IF Valid(0) \/ Valid(1)
     THEN area' = NewestArea /\ gen' = super[NewestArea] /\ pc' = "replay"
     ELSE pc' = "unformatted" /\ UNCHANGED <<area, gen>>
  /\ UNCHANGED <<flash, stream, op, left, cur, nrec, fails, allowed>>

(* mount() starts: nothing of the RAM state survives it.                   *)
StartMount ==
  /\ pc = "mount"
  /\ dir' = <<>> /\ logUsed' = 0 /\ dataEnd' = 0 /\ stream' = NoStream
  /\ IF Valid(0) \/ Valid(1)
     THEN /\ area' = NewestArea /\ gen' = super[NewestArea]
          /\ pc' = "replay" /\ UNCHANGED <<op, allowed>>
     ELSE /\ pc' = "unformatted" /\ UNCHANGED <<op, allowed, area, gen>>
  /\ UNCHANGED <<flash, left, cur, nrec, fails>>

AtLogEnd == logUsed < LogRecords => log[area][logUsed + 1] = Erased

(* Mutants: a full directory takes no newer version either; a deletion is  *)
(* not replayed.                                                           *)
ReplayRecordFullFirst ==
  /\ pc = "replay" /\ ~AtLogEnd
  /\ logUsed' = logUsed + 1
  /\ LET r == log[area][logUsed + 1]
     IN  IF r.kind = "file" /\ Cardinality(DOMAIN dir) < MaxFiles
         THEN dataEnd' = Max({dataEnd, r.off + r.size}) /\ dir' = SetEntry(r.name, r.off, r.size)
         ELSE dir' = (IF r.kind = "del" THEN RemoveEntry(r.name) ELSE dir) /\ UNCHANGED dataEnd
  /\ UNCHANGED <<flash, area, gen, stream, pc, op, left, cur, nrec, fails, allowed>>
ReplayRecordNoDel ==
  /\ pc = "replay" /\ ~AtLogEnd
  /\ logUsed' = logUsed + 1
  /\ LET r == log[area][logUsed + 1]
     IN  IF r.kind = "file"
         THEN dataEnd' = Max({dataEnd, r.off + r.size}) /\ dir' = SetEntry(r.name, r.off, r.size)
         ELSE UNCHANGED <<dir, dataEnd>>
  /\ UNCHANGED <<flash, area, gen, stream, pc, op, left, cur, nrec, fails, allowed>>

(* One turn of mount()'s loop; logUsed is the loop counter.                *)
ReplayRecord ==
  /\ pc = "replay" /\ ~AtLogEnd
  /\ logUsed' = logUsed + 1
  /\ LET r == log[area][logUsed + 1]
     IN  \/ /\ r.kind = "file"
            /\ dataEnd' = IF r.off + r.size > dataEnd THEN r.off + r.size ELSE dataEnd
            /\ dir' = IF r.name \in DOMAIN dir \/ Cardinality(DOMAIN dir) < MaxFiles
                      THEN SetEntry(r.name, r.off, r.size) ELSE dir
         \/ r.kind = "del" /\ dir' = RemoveEntry(r.name) /\ UNCHANGED dataEnd
         \/ r.kind = "torn" /\ UNCHANGED <<dir, dataEnd>>
  /\ UNCHANGED <<flash, area, gen, stream, pc, op, left, cur, nrec, fails, allowed>>

(* Data of a record that never got committed is never handed out again.    *)
Occupied == {u \in Units : u >= dataEnd /\ data[area][u] # Blank}
ScannedEndNoScan == dataEnd   \* mutant: the data pool is not scanned
ScannedEnd == IF Occupied = {} THEN dataEnd ELSE Max(Occupied) + 1

(* mount() is done: the system is up, or the call that had to compact (or  *)
(* to resync) goes on.  At power-up, whatever the mount found is what must *)
(* be found from now on.                                                   *)
EndMount ==
  /\ pc = "replay" /\ AtLogEnd
  /\ IF op.kind = "none"
     THEN /\ pc' = "idle" /\ allowed' = [n \in Names |-> {FileAt(n)}]
          /\ UNCHANGED op
     ELSE IF op.kind = "begin" /\ op.ok
          THEN pc' = "reserve" /\ UNCHANGED <<op, allowed>>
          ELSE Finish(op.ok)
  /\ dataEnd' = ScannedEnd
  /\ UNCHANGED <<flash, area, gen, dir, logUsed, stream, left, cur, nrec, fails>>

PowerOn ==
  /\ pc = "off" /\ pc' = "mount"
  /\ UNCHANGED <<flash, ram, op, left, cur, nrec, fails, allowed>>

(* Power cut, watchdog or fault: RAM is lost; the primitive in progress    *)
(* got anywhere.                                                           *)
Crash ==
  /\ pc # "off"
  /\ \E e \in Effects : Primitive(e)
  /\ pc' = "off" /\ op' = NoOp /\ stream' = NoStream
  /\ area' = 0 /\ gen' = 0 /\ dir' = <<>> /\ logUsed' = 0 /\ dataEnd' = 0
  /\ left' = {} /\ cur' = 0 /\ nrec' = 0
  /\ UNCHANGED <<fails, allowed>>

(* main() formats only after a mount that found no filesystem.             *)
Format ==
  /\ pc = "unformatted" /\ pc' = "erase1"
  /\ UNCHANGED <<flash, ram, op, left, cur, nrec, fails, allowed>>

-----------------------------------------------------------------------------
(* Calls *)

(* A call that has to compact: lay_out() first checks that the files fit.  *)
CanCompact(o) == Fits(Target(o)) /\ gen < MaxGen

\* a mutant: the data pool is not looked at
RoomForRecord(size) == size >= 0 /\ logUsed < LogRecords

NewFileFits(n) == n \in DOMAIN dir \/ Cardinality(DOMAIN dir) < MaxFiles
Room(size) == logUsed < LogRecords /\ size <= Pool - dataEnd

Write(n, c) ==
  LET o == [NoOp EXCEPT !.kind = "write", !.name = n, !.body = c,
                        !.off = dataEnd, !.size = Len(c)]
  IN  /\ NewFileFits(n)
      /\ IF Room(Len(c))
         THEN /\ Start(o, IF c = <<>> THEN "body" ELSE "data")
              /\ dataEnd' = dataEnd + Len(c)
              /\ logUsed' = IF c = <<>> THEN logUsed + 1 ELSE logUsed
         ELSE /\ CanCompact(o) /\ Start(o, "erase")
              /\ UNCHANGED <<dataEnd, logUsed>>
      /\ UNCHANGED <<flash, area, gen, dir, stream, left, cur, nrec, fails>>

Delete(n) ==
  LET o == [NoOp EXCEPT !.kind = "delete", !.name = n]
  IN  /\ n \in DOMAIN dir
      /\ IF logUsed < LogRecords
         THEN Start(o, "body") /\ logUsed' = logUsed + 1
         ELSE CanCompact(o) /\ Start(o, "erase") /\ UNCHANGED logUsed
      /\ UNCHANGED <<flash, area, gen, dir, dataEnd, stream, left, cur, nrec, fails>>

Rename(n, m) ==
  LET o == [NoOp EXCEPT !.kind = "rename", !.name = n, !.to = m, !.body = FileAt(n),
                        !.off = dir[n].off, !.size = dir[n].size]
  IN  /\ n \in DOMAIN dir /\ m \notin DOMAIN dir
      /\ FullDirRename \/ Cardinality(DOMAIN dir) < MaxFiles
      /\ IF logUsed + 2 <= LogRecords
         THEN Start(o, "body") /\ logUsed' = logUsed + 1
         ELSE CanCompact(o) /\ Start(o, "erase") /\ UNCHANGED logUsed
      /\ UNCHANGED <<flash, area, gen, dir, dataEnd, stream, left, cur, nrec, fails>>

(* Mutant: they do not.                                                    *)
ReserveNothing(o) ==
  /\ stream' = [active |-> TRUE, name |-> o.name, start |-> dataEnd,
                size |-> o.size, written |-> 0, body |-> <<>>]
  /\ UNCHANGED dataEnd

(* Other writes go after the reservation.                                  *)
Reserve(o) ==
  /\ stream' = [active |-> TRUE, name |-> o.name, start |-> dataEnd,
                size |-> o.size, written |-> 0, body |-> <<>>]
  /\ dataEnd' = dataEnd + o.size

StreamBegin(n, size) ==
  LET o == [NoOp EXCEPT !.kind = "begin", !.name = n, !.size = size]
  IN  /\ pc = "idle" /\ ~stream.active /\ NewFileFits(n)
      /\ IF Room(size)
         THEN Reserve(o) /\ UNCHANGED <<pc, op, allowed>>
         ELSE CanCompact(o) /\ Start(o, "erase") /\ UNCHANGED <<stream, dataEnd>>
      /\ UNCHANGED <<flash, area, gen, dir, logUsed, left, cur, nrec, fails>>

(* After compacting for a stream: look again, then reserve.                *)
ReserveAfterCompaction ==
  /\ pc = "reserve"
  /\ IF Room(op.size) THEN Reserve(op) ELSE UNCHANGED <<stream, dataEnd>>
  /\ Finish(TRUE)
  /\ UNCHANGED <<flash, area, gen, dir, logUsed, left, cur, nrec, fails>>

StreamWrite(v) ==
  /\ stream.active /\ stream.written < stream.size
  /\ Start([NoOp EXCEPT !.kind = "swrite", !.body = <<v>>], "swrite")
  /\ UNCHANGED <<flash, ram, left, cur, nrec, fails>>

(* The record that makes the streamed data a file, unless the stream is    *)
(* incomplete or there is no room for a record or a name any more.         *)
StreamEnd ==
  LET o == [NoOp EXCEPT !.kind = "end", !.name = stream.name, !.body = stream.body,
                        !.off = stream.start, !.size = stream.size]
  IN  /\ pc = "idle" /\ stream.active /\ stream' = NoStream
      /\ IF stream.written = stream.size /\ NewFileFits(stream.name)
         THEN IF logUsed < LogRecords
              THEN Start(o, "body") /\ logUsed' = logUsed + 1
              ELSE IF Fits(Target(o))
                   THEN CanCompact(o) /\ Start(o, "erase") /\ UNCHANGED logUsed
                   ELSE UNCHANGED <<pc, op, logUsed, allowed>>
         ELSE UNCHANGED <<pc, op, logUsed, allowed>>
      /\ UNCHANGED <<flash, area, gen, dir, dataEnd, left, cur, nrec, fails>>

StreamAbort ==
  /\ pc = "idle" /\ stream.active /\ stream' = NoStream
  /\ UNCHANGED <<flash, area, gen, dir, logUsed, dataEnd, pc, op, left, cur, nrec,
                 fails, allowed>>

-----------------------------------------------------------------------------
(* The steps of a call, each with its primitive succeeding                 *)

Succeeds == ~Refused /\ Primitive("done")

DataProgrammed ==
  /\ pc = "data" /\ Succeeds /\ pc' = "body" /\ logUsed' = logUsed + 1
  /\ UNCHANGED <<area, gen, dir, dataEnd, stream, op, left, cur, nrec, fails, allowed>>

StreamProgrammed ==
  /\ pc = "swrite" /\ Succeeds /\ Finish(TRUE)
  /\ stream' = [stream EXCEPT !.written = @ + 1, !.body = @ \o op.body]
  /\ UNCHANGED <<area, gen, dir, logUsed, dataEnd, left, cur, nrec, fails>>

BodyProgrammed ==
  /\ pc \in {"body", "body2"} /\ Succeeds
  /\ pc' = IF pc = "body" THEN "commit" ELSE "commit2"
  /\ UNCHANGED <<ram, op, left, cur, nrec, fails, allowed>>

(* A rename's first record: the file now also has its new name.            *)
Linked ==
  /\ pc = "commit" /\ op.kind = "rename" /\ Succeeds
  /\ pc' = "body2" /\ logUsed' = logUsed + 1
  /\ UNCHANGED <<area, gen, dir, dataEnd, stream, op, left, cur, nrec, fails, allowed>>

(* The call's last record: the directory follows, and the call succeeds.   *)
Committed ==
  /\ pc = "commit2" \/ (pc = "commit" /\ op.kind # "rename")
  /\ Succeeds /\ Finish(TRUE)
  /\ dir' = IF op.kind \in {"write", "end"} THEN SetEntry(op.name, op.off, op.size)
            ELSE IF op.kind = "delete" THEN RemoveEntry(op.name)
            ELSE [n \in (DOMAIN dir \ {op.name}) \cup {op.to} |->
                    IF n = op.to THEN dir[op.name] ELSE dir[n]]
  /\ UNCHANGED <<area, gen, logUsed, dataEnd, stream, left, cur, nrec, fails>>

(* Mutant: the superblock comes before the files.                          *)
AreaErasedSuperFirst ==
  /\ pc = "erase" /\ Succeeds
  /\ left' = DOMAIN Target(op) /\ cur' = 0 /\ nrec' = 0
  /\ pc' = "super"
  /\ UNCHANGED <<ram, op, fails, allowed>>

AreaErased ==
  /\ pc = "erase" /\ Succeeds
  /\ left' = DOMAIN Target(op) /\ cur' = 0 /\ nrec' = 0
  /\ pc' = IF left' = {} THEN "super" ELSE "copy"
  /\ UNCHANGED <<ram, op, fails, allowed>>

FileCopied ==
  /\ pc = "copy"
  /\ \E n \in left :
       /\ nrec < LogRecords /\ Len(Target(op)[n]) <= Pool - cur
       /\ CopyFile(n, "done")
       /\ left' = left \ {n} /\ nrec' = nrec + 1 /\ cur' = cur + Len(Target(op)[n])
  /\ pc' = IF left' = {} THEN "super" ELSE "copy"
  /\ UNCHANGED <<ram, op, fails, allowed>>

SuperProgrammed ==
  /\ pc = "super" /\ Succeeds
  /\ pc' = "mount" /\ op' = [op EXCEPT !.ok = TRUE]
  /\ UNCHANGED <<ram, left, cur, nrec, fails, allowed>>

FormatStep ==
  /\ pc \in {"erase1", "erase0", "format"} /\ Succeeds
  /\ pc' = IF pc = "erase1" THEN "erase0" ELSE IF pc = "erase0" THEN "format" ELSE "mount"
  /\ UNCHANGED <<ram, op, left, cur, nrec, fails, allowed>>

(* A primitive fails, or is refused, and the call gives up: a rename and a *)
(* compaction mount again to see what the flash holds now.  After a failed *)
(* format the system runs without files until it is restarted.             *)
Fail ==
  /\ IF Refused
     THEN Primitive("nothing") /\ UNCHANGED fails
     ELSE /\ fails < FailBudget /\ fails' = fails + 1
          /\ ~Needless
          /\ \E e \in FailEffects : Primitive(e)
  /\ \/ /\ pc \in {"erase1", "erase0", "format"}
        /\ pc' = "nofs" /\ UNCHANGED <<op, allowed>>
     \/ /\ \/ pc \in {"erase", "copy", "super"}
           \/ pc \in {"body", "commit", "body2", "commit2"} /\ op.kind = "rename"
        /\ pc' = "mount" /\ UNCHANGED <<op, allowed>>
     \/ /\ \/ pc \in {"data", "swrite"}
           \/ pc \in {"body", "commit"} /\ op.kind # "rename"
        /\ Finish(FALSE)
  /\ stream' = IF pc = "swrite" THEN NoStream ELSE stream
  /\ UNCHANGED <<area, gen, dir, logUsed, dataEnd, left, cur, nrec>>

-----------------------------------------------------------------------------
Init ==
  /\ super = [a \in Areas |-> 0]
  /\ \/ log = [a \in Areas |-> ErasedLog] /\ data = [a \in Areas |-> BlankData]
     \/ /\ log = [a \in Areas |-> [i \in Slots |-> Torn]]
        /\ data = [a \in Areas |-> [u \in Units |-> Junk]]
  /\ area = 0 /\ gen = 0 /\ dir = <<>> /\ logUsed = 0 /\ dataEnd = 0
  /\ stream = NoStream /\ pc = "off" /\ op = NoOp
  /\ left = {} /\ cur = 0 /\ nrec = 0 /\ fails = 0
  /\ allowed = [n \in Names |-> {Absent}]

Calls ==
  \/ \E n \in Names : \E c \in Contents : Write(n, c)
  \/ \E n \in Names : Delete(n)
  \/ \E n, m \in Names : Rename(n, m)
  \/ \E n \in Names : \E size \in 0 .. MaxSize : StreamBegin(n, size)
  \/ \E v \in Vals : StreamWrite(v)
  \/ StreamEnd
  \/ StreamAbort

Steps ==
  \/ StartMount \/ ReplayRecord \/ EndMount \/ Format \/ FormatStep
  \/ DataProgrammed \/ StreamProgrammed \/ BodyProgrammed \/ Linked \/ Committed
  \/ AreaErased \/ FileCopied \/ SuperProgrammed \/ ReserveAfterCompaction

Next == Calls \/ Steps \/ Fail \/ PowerOn \/ Crash

Spec == Init /\ [][Next]_vars

-----------------------------------------------------------------------------
(* Properties *)

Pcs == {"off", "mount", "replay", "unformatted", "nofs", "idle", "data", "body", "commit",
        "body2", "commit2", "swrite", "erase", "copy", "super", "reserve",
        "erase1", "erase0", "format"}
Extents == [off : 0 .. Pool, size : 0 .. MaxSize]
Ops == [kind : {"none", "write", "delete", "rename", "begin", "swrite", "end"},
        name : Names \cup {Absent}, to : Names \cup {Absent},
        body : Seq(Cells) \cup {Absent}, off : 0 .. Pool, size : 0 .. MaxSize,
        ok : BOOLEAN]
Streams == [active : BOOLEAN, name : Names \cup {Absent}, start : 0 .. Pool,
            size : 0 .. MaxSize, written : 0 .. MaxSize, body : Seq(Vals)]

(* Every variable keeps its type; a slot or an extent stays inside its     *)
(* area (flashfs.c uses the offsets in s_dir without checking them again). *)
TypeOK ==
  /\ super \in [Areas -> Nat]
  /\ log \in [Areas -> [Slots -> Records \cup {Erased, Torn}]]
  /\ data \in [Areas -> [Units -> Cells]]
  /\ area \in Areas /\ gen \in Nat
  /\ DOMAIN dir \subseteq Names /\ \A n \in DOMAIN dir : dir[n] \in Extents
  /\ logUsed \in 0 .. LogRecords /\ dataEnd \in 0 .. Pool
  /\ stream \in Streams /\ pc \in Pcs /\ op \in Ops
  /\ left \subseteq Names /\ cur \in 0 .. Pool /\ nrec \in 0 .. LogRecords
  /\ fails \in Nat
  /\ DOMAIN allowed = Names

(* flashfs.h: a power cut leaves the previous version of a file, or the    *)
(* new one, and touches no other file.  At every moment what the flash     *)
(* holds for a name is the last acknowledged version or one an unfinished  *)
(* or failed call was writing since.  "New name first: a power cut in      *)
(* between leaves both names, never neither": while a rename runs the file *)
(* is there under one of its names (after a failed call the flash may hold *)
(* another version than the one renamed).                                  *)
DurableAllowed ==
  LET files == DurableFiles
  IN  /\ \A n \in Names : files[n] \in allowed[n]
      /\ op.kind = "rename" /\ fails = 0 => op.body \in {files[op.name], files[op.to]}

(* What the running system hands out is what a mount would find: s_dir and *)
(* the log never disagree while no call is in progress.                    *)
DirIsDurable ==
  pc = "idle" => \A n \in Names : Described(NewestArea, LogEnd(NewestArea), n) =
                                    IF n \in DOMAIN dir THEN {dir[n]} ELSE {}

(* While the system is up the area in use is the one a mount would pick:   *)
(* nothing compaction does to the other area can outrank it too early.     *)
ActiveOutranks ==
  pc \notin {"off", "mount", "unformatted", "erase1", "erase0", "format", "nofs"} =>
    super[area] = gen /\ gen > super[1 - area]

(* flash can only be programmed from the erased state: no call ever finds  *)
(* its cells in use, whatever crashes and failures came before it.         *)
NeverRefused == ~Refused

(* Two files share no cell, unless a power cut left a rename half done and *)
(* they are one file under two names; no file shares a cell with the stream*)
(* being written; none reaches into the space handed out next.             *)
Apart(e, f) == e.size = 0 \/ f.size = 0 \/ e.off + e.size <= f.off \/ f.off + f.size <= e.off
ExtentsDisjoint ==
  pc = "idle" =>
    /\ \A n \in DOMAIN dir : dir[n].off + dir[n].size <= dataEnd
    /\ \A n, m \in DOMAIN dir : dir[n] = dir[m] \/ Apart(dir[n], dir[m])
    /\ stream.active =>
         /\ stream.start + stream.size <= dataEnd
         /\ \A n \in DOMAIN dir : Apart(dir[n], [off |-> stream.start, size |-> stream.size])

(* The data streamed so far is on the flash as it was sent, however many   *)
(* other writes came in between.                                           *)
StreamIntact ==
  stream.active => Read(area, stream.start, stream.written) = stream.body

(* The state in RAM is what it should be, and describes what is on the     *)
(* flash: files and stream apart from each other, the stream as it came.   *)
WellFormed == TypeOK /\ ExtentsDisjoint /\ StreamIntact

(* flashfs.h: "the newest record for a name wins" - also at the next mount: *)
(* no record lies beyond the slot where mount() takes the log to end.      *)
NewestRecordWins ==
  Valid(0) \/ Valid(1) =>
    LET a == NewestArea IN \A n \in Names : Newest(a, LogRecords, n) <= LogEnd(a)

(* No file vanishes at power-up: "a power cut in between leaves both names, *)
(* never neither", nor does a power cut after the rename.                  *)
BootLosesNothing ==
  [][pc = "replay" /\ op.kind = "none" /\ pc' = "idle" =>
       \A n \in Names : Absent \notin allowed[n] => n \in DOMAIN dir]_vars

(* Refinement: what the flash holds behaves like FileStore.                *)
Request ==
  IF op.kind \in {"write", "end"}
  THEN [kind |-> "put", name |-> op.name, to |-> Absent, body |-> op.body]
  ELSE IF op.kind \in {"delete", "rename"}
  THEN [kind |-> IF op.kind = "delete" THEN "remove" ELSE "rename",
        name |-> op.name, to |-> op.to, body |-> Absent]
  ELSE [kind |-> "none", name |-> Absent, to |-> Absent, body |-> Absent]

Store == INSTANCE FileStore WITH files <- DurableFiles, req <- Request
ImplementsStore == Store!StoreSpec
=============================================================================

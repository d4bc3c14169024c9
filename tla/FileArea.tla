------------------------------- MODULE FileArea -------------------------------
(***************************************************************************)
(* The calls of fs/flashfs.c as the code around it sees them: a file is an *)
(* extent of the active area, a compaction moves every file to the other   *)
(* area and ends the stream.  Each operation returns the set of its        *)
(* possible results, [ok, fs].  The record log is not modelled here        *)
(* (module FlashFS does that), so a call may find it full, and compact, at *)
(* any time.                                                               *)
(***************************************************************************)
EXTENDS Integers, Sequences, FiniteSets, SequencesExt

CONSTANTS
  Blank,        \* an erased unit
  Pool,         \* units of file data in an area
  MaxFiles,     \* FFS_MAX_FILES
  FlashFails    \* TRUE: any program or erase may fail

NoStream == [active |-> FALSE, name |-> Blank, start |-> 0, size |-> 0, written |-> 0]

(* mem holds the units handed out so far: its length is s_data_end; broke  *)
(* is history: the last call met a program or an erase that failed.        *)
EmptyArea == [area |-> 0, mem |-> <<>>, dir |-> <<>>, stream |-> NoStream, broke |-> FALSE]

Has(f, n) == n \in DOMAIN f.dir
Read(f, off, size) == [i \in 1 .. size |-> f.mem[off + i]]
Body(f, n) == Read(f, f.dir[n].off, f.dir[n].size)
Bodies(f) == [n \in DOMAIN f.dir |-> Body(f, n)]
Room(f, size) == size <= Pool - Len(f.mem)
Size(files) == MapThenSumSet(LAMBDA n : Len(files[n]), DOMAIN files)
Fits(files) == Size(files) <= Pool
NameFits(f, n) == Has(f, n) \/ Cardinality(DOMAIN f.dir) < MaxFiles

(* flashfs_read(): the offset only has to lie in the active area.          *)
InArea(f, area) == f.area = area
UnitAt(f, off) == IF off < Len(f.mem) THEN f.mem[off + 1] ELSE Blank

Result(ok, f) == [ok |-> ok, fs |-> [f EXCEPT !.broke = FALSE]]
Breaks(f) == IF FlashFails THEN {[ok |-> FALSE, fs |-> [f EXCEPT !.broke = TRUE]]} ELSE {}

(* The files laid out in the other area, in the order of the directory.    *)
Place(files, order, n) ==
  LET i == CHOOSE k \in DOMAIN order : order[k] = n
  IN  MapThenSumSet(LAMBDA k : Len(files[order[k]]), 1 .. i - 1)

LaidOut(f, files) ==
  IF ~Fits(files) THEN {}
  ELSE {[area |-> 1 - f.area, broke |-> FALSE,
         mem |-> FlattenSeq([k \in DOMAIN order |-> files[order[k]]]),
         dir |-> [n \in DOMAIN files |-> [off |-> Place(files, order, n), size |-> Len(files[n])]],
         stream |-> NoStream] : order \in SetToSeqs(DOMAIN files)}

(* compact(): a failure mounts the old area again, which ends the stream   *)
(* (a superblock that is there although its program failed: see FlashFS).  *)
Compact(f, files) ==
  {Result(TRUE, g) : g \in LaidOut(f, files)}
  \cup IF LaidOut(f, files) = {} THEN {} ELSE Breaks([f EXCEPT !.stream = NoStream])

Refuse(f, results) == IF results = {} THEN {Result(FALSE, f)} ELSE results

With(files, n, body) == [m \in DOMAIN files \cup {n} |-> IF m = n THEN body ELSE files[m]]
Without(files, n) == [m \in DOMAIN files \ {n} |-> files[m]]

Entry(f, n, off, size) == [f EXCEPT !.dir = With(f.dir, n, [off |-> off, size |-> size])]

Write(f, n, body) ==
  IF ~NameFits(f, n) THEN {Result(FALSE, f)}
  ELSE LET g == [f EXCEPT !.mem = @ \o body]
       IN  Refuse(f, (IF Room(f, Len(body))
                      THEN {Result(TRUE, Entry(g, n, Len(f.mem), Len(body)))}
                           \cup Breaks(g)
                      ELSE {})
                     \cup Compact(f, With(Bodies(f), n, body)))

Delete(f, n) ==
  IF ~Has(f, n) THEN {Result(FALSE, f)}
  ELSE {Result(TRUE, [f EXCEPT !.dir = Without(@, n)])} \cup Breaks(f)
       \cup Compact(f, Without(Bodies(f), n))

Reserved(f, n, size) ==
  [f EXCEPT !.mem = @ \o [i \in 1 .. size |-> Blank],
            !.stream = [active |-> TRUE, name |-> n, start |-> Len(f.mem),
                        size |-> size, written |-> 0]]

StreamBegin(f, n, size) ==
  IF f.stream.active \/ ~NameFits(f, n) THEN {Result(FALSE, f)}
  ELSE Refuse(f, (IF Room(f, size) THEN {Result(TRUE, Reserved(f, n, size))} ELSE {})
                 \cup {IF r.ok /\ Room(r.fs, size)
                       THEN Result(TRUE, Reserved(r.fs, n, size)) ELSE [r EXCEPT !.ok = FALSE] :
                         r \in Compact(f, Bodies(f))})

StreamWrite(f, s) ==
  LET w == f.stream.start + f.stream.written
  IN  IF ~f.stream.active \/ Len(s) > f.stream.size - f.stream.written
      THEN {Result(FALSE, f)}
      ELSE {Result(TRUE, [f EXCEPT !.mem = [i \in DOMAIN f.mem |->
                            IF i \in w + 1 .. w + Len(s) THEN s[i - w] ELSE f.mem[i]],
                                   !.stream.written = @ + Len(s)])}
           \cup Breaks([f EXCEPT !.stream = NoStream])

StreamAbort(f) == [f EXCEPT !.stream = NoStream]

StreamEnd(f) ==
  LET t == f.stream
      g == StreamAbort(f)
  IN  IF ~t.active \/ t.written # t.size \/ ~NameFits(f, t.name) THEN {Result(FALSE, g)}
      ELSE {Result(TRUE, Entry(g, t.name, t.start, t.size))} \cup Breaks(g)
           \cup Compact(g, With(Bodies(f), t.name, Read(f, t.start, t.size)))
=============================================================================

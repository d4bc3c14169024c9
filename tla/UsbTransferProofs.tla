--------------------------- MODULE UsbTransferProofs ---------------------------
(***************************************************************************)
(* Theorems about the file transfer protocol, for rings, buffers and files *)
(* of every size: RepliesFit, whatever the PC does; OneCommandOneAnswer,   *)
(* with a PC that waits for its answers.                                   *)
(*                                                                         *)
(* RoomInv, the invariant of the first, is about what the variables hold   *)
(* and the room that is kept for a reply (the ...Keeps lemmas, one for     *)
(* each action).  TalkInv, that of the second, tells the stages of a       *)
(* conversation apart: for each, what is on its way in both directions     *)
(* (the ...Talks lemmas).                                                  *)
(***************************************************************************)
EXTENDS UsbTransfer, SequenceTheorems, TLAPS

-----------------------------------------------------------------------------
(* Sequences of anything: tokens have no common type.                      *)
IsSeq(s) == \E n \in Nat : s = [i \in 1 .. n |-> s[i]]

LEMMA SeqKnown ==
  ASSUME NEW s, IsSeq(s)
  PROVE  /\ s \in Seq({s[i] : i \in DOMAIN s})
         /\ Len(s) \in Nat /\ DOMAIN s = 1 .. Len(s)
<1>1. PICK n \in Nat : s = [i \in 1 .. n |-> s[i]]
  BY DEF IsSeq
<1>2. DOMAIN s = 1 .. n
  BY <1>1
<1>3. s \in [1 .. n -> {s[i] : i \in DOMAIN s}]
  BY <1>1, <1>2
<1>4. s \in Seq({s[i] : i \in DOMAIN s})
  BY <1>3, SeqDef
<1>. QED BY <1>4, LenProperties

LEMMA SeqIs ==
  ASSUME NEW S, NEW s \in Seq(S)
  PROVE  IsSeq(s)
BY LenProperties DEF IsSeq

LEMMA EmptyIs == IsSeq(<<>>) /\ Len(<<>>) = 0 /\ \A s : IsSeq(s) => (s = <<>> <=> Len(s) = 0)
<1>1. IsSeq(<<>>)
  BY EmptySeq, SeqIs
<1>2. ASSUME NEW s, IsSeq(s) PROVE s = <<>> <=> Len(s) = 0
  BY <1>2, SeqKnown, EmptySeq
<1>. QED BY <1>1, <1>2, EmptySeq

LEMMA FunctionIs ==
  ASSUME NEW n \in Nat, NEW s, s = [i \in 1 .. n |-> s[i]]
  PROVE  IsSeq(s) /\ Len(s) = n
<1>1. IsSeq(s)
  BY DEF IsSeq
<1>2. DOMAIN s = 1 .. n
  BY Zenon
<1>3. 1 .. n = 1 .. Len(s) /\ Len(s) \in Nat
  BY <1>1, <1>2, SeqKnown
<1>. QED BY <1>1, <1>3

LEMMA SameSeq ==
  ASSUME NEW s, NEW t, IsSeq(s), IsSeq(t), Len(s) = Len(t), \A i \in 1 .. Len(s) : s[i] = t[i]
  PROVE  s = t
BY SeqKnown DEF IsSeq

LEMMA BothIn ==
  ASSUME NEW s, NEW t, IsSeq(s), IsSeq(t)
  PROVE  \E S : s \in Seq(S) /\ t \in Seq(S)
<1> DEFINE A == {s[i] : i \in DOMAIN s}
           B == {t[i] : i \in DOMAIN t}
<1>1. s \in Seq(A) /\ t \in Seq(B)
  BY SeqKnown
<1>2. A \subseteq A \cup B /\ B \subseteq A \cup B
  OBVIOUS
<1>3. s \in Seq(A \cup B)
  BY ONLY <1>1, <1>2, SeqMonotonic
<1>4. t \in Seq(A \cup B)
  BY ONLY <1>1, <1>2, SeqMonotonic
<1>. QED BY <1>3, <1>4

LEMMA JoinIs ==
  ASSUME NEW s, NEW t, IsSeq(s), IsSeq(t)
  PROVE  /\ IsSeq(s \o t) /\ Len(s \o t) = Len(s) + Len(t)
         /\ \A i \in 1 .. Len(s) + Len(t) :
              (s \o t)[i] = IF i <= Len(s) THEN s[i] ELSE t[i - Len(s)]
<1>1. PICK S : s \in Seq(S) /\ t \in Seq(S)
  BY BothIn
<1>. QED BY <1>1, ConcatProperties, SeqIs

LEMMA AppendIs ==
  ASSUME NEW s, NEW e, IsSeq(s)
  PROVE  /\ IsSeq(Append(s, e)) /\ Len(Append(s, e)) = Len(s) + 1
         /\ \A i \in 1 .. Len(s) : Append(s, e)[i] = s[i]
         /\ Append(s, e)[Len(s) + 1] = e
<1> DEFINE A == {s[i] : i \in DOMAIN s}
<1>1. s \in Seq(A) /\ A \subseteq A \cup {e}
  BY SeqKnown
<1>2. s \in Seq(A \cup {e}) /\ e \in A \cup {e}
  BY ONLY <1>1, SeqMonotonic
<1> DEFINE B == A \cup {e}
<1>3. s \in Seq(B) /\ e \in B
  BY <1>2
<1> HIDE DEF B
<1>4. /\ Append(s, e) \in Seq(B) /\ Len(Append(s, e)) = Len(s) + 1
      /\ \A i \in 1 .. Len(s) : Append(s, e)[i] = s[i]
      /\ Append(s, e)[Len(s) + 1] = e
  BY ONLY <1>3, AppendProperties
<1>. QED BY <1>4, SeqIs

LEMMA TailIs ==
  ASSUME NEW s, IsSeq(s), s # <<>>
  PROVE  /\ IsSeq(Tail(s)) /\ Len(Tail(s)) = Len(s) - 1 /\ Len(s) \in Nat \ {0} /\ Head(s) = s[1]
         /\ \A i \in 1 .. Len(s) - 1 : Tail(s)[i] = s[i + 1]
<1> DEFINE A == {s[i] : i \in DOMAIN s}
<1>1. s \in Seq(A)
  BY SeqKnown
<1> HIDE DEF A
<1>2. Len(s) \in Nat \ {0}
  BY <1>1, EmptySeq
<1>3. /\ Tail(s) \in Seq(A) /\ Len(Tail(s)) = Len(s) - 1
      /\ \A i \in 1 .. Len(Tail(s)) : Tail(s)[i] = s[i + 1]
  BY ONLY <1>1, s # <<>>, HeadTailProperties
<1>4. Head(s) = s[1]
  BY <1>1
<1>. QED BY <1>2, <1>3, <1>4, SeqIs

LEMMA SubIs ==
  ASSUME NEW s, IsSeq(s), NEW n \in 0 .. Len(s)
  PROVE  /\ IsSeq(SubSeq(s, n + 1, Len(s))) /\ Len(SubSeq(s, n + 1, Len(s))) = Len(s) - n
         /\ \A i \in 1 .. Len(s) - n : SubSeq(s, n + 1, Len(s))[i] = s[n + i]
<1> DEFINE A == {s[i] : i \in DOMAIN s}
<1>1. Len(s) \in Nat /\ \A i \in n + 1 .. Len(s) : s[i] \in A
  BY SeqKnown
<1> HIDE DEF A
<1>2. /\ SubSeq(s, n + 1, Len(s)) \in Seq(A)
      /\ Len(SubSeq(s, n + 1, Len(s))) = IF n + 1 <= Len(s) THEN Len(s) - (n + 1) + 1 ELSE 0
      /\ \A i \in 1 .. Len(s) - (n + 1) + 1 : SubSeq(s, n + 1, Len(s))[i] = s[n + 1 + i - 1]
  BY <1>1, SubSeqProperties
<1>3. IsSeq(SubSeq(s, n + 1, Len(s)))
  BY <1>2, SeqIs
<1>. QED BY <1>1, <1>2, <1>3

LEMMA MinIs ==
  ASSUME NEW a \in Int, NEW b \in Int, NEW c \in Int
  PROVE  /\ Min({a, b, c}) \in {a, b, c}
         /\ Min({a, b, c}) <= a /\ Min({a, b, c}) <= b /\ Min({a, b, c}) <= c
<1>1. \E x \in {a, b, c} : \A y \in {a, b, c} : x <= y
  OBVIOUS
<1>. QED BY <1>1 DEF Min

-----------------------------------------------------------------------------
(* The filesystem: whatever a call answers, files and stream have sizes.   *)
FsType(f) ==
  /\ DOMAIN f = {"area", "mem", "dir", "stream", "broke"}
  /\ DOMAIN f.stream = DOMAIN FS!NoStream /\ f.stream.size \in Nat
  /\ \A n \in DOMAIN f.dir : f.dir[n].size \in Nat

Sized(files) == \A n \in DOMAIN files : Len(files[n]) \in Nat

LEMMA ReadIs ==
  ASSUME NEW f, NEW off, NEW size \in Nat
  PROVE  Len(FS!Read(f, off, size)) = size
<1>1. FS!Read(f, off, size) = [i \in 1 .. size |-> FS!Read(f, off, size)[i]]
  BY DEF FS!Read
<1>. QED BY <1>1, FunctionIs

LEMMA BodiesSized ==
  ASSUME NEW f, FsType(f)
  PROVE  Sized(FS!Bodies(f))
BY ReadIs DEF FsType, Sized, FS!Bodies, FS!Body

LEMMA WithSized ==
  ASSUME NEW files, Sized(files), NEW n, NEW body, Len(body) \in Nat
  PROVE  Sized(FS!With(files, n, body))
BY DEF Sized, FS!With

LEMMA WithoutSized ==
  ASSUME NEW files, Sized(files), NEW n
  PROVE  Sized(FS!Without(files, n))
BY DEF Sized, FS!Without

LEMMA EmptyAreaType == FsType(FS!EmptyArea)
BY DEF FsType, FS!EmptyArea, FS!NoStream

LEMMA LaidOutType ==
  ASSUME NEW f, NEW files, Sized(files), NEW g \in FS!LaidOut(f, files)
  PROVE  FsType(g)
<1>1. /\ DOMAIN g = {"area", "mem", "dir", "stream", "broke"} /\ g.stream = FS!NoStream
      /\ DOMAIN g.dir = DOMAIN files /\ \A n \in DOMAIN files : g.dir[n].size = Len(files[n])
  <2> DEFINE laid(order) == [area |-> 1 - f.area, broke |-> FALSE,
                 mem |-> FS!FlattenSeq([k \in DOMAIN order |-> files[order[k]]]),
                 dir |-> [n \in DOMAIN files |-> [off |-> FS!Place(files, order, n), size |-> Len(files[n])]],
                 stream |-> FS!NoStream]
  <2>1. FS!LaidOut(f, files) = {} \/ FS!LaidOut(f, files) = {laid(order) : order \in FS!SetToSeqs(DOMAIN files)}
    BY Zenon DEF FS!LaidOut
  <2>2. PICK order : g = laid(order)
    BY <2>1, Zenon
  <2>. QED BY <2>2
<1>. QED BY <1>1 DEF FsType, Sized, FS!NoStream

(* An answer changes no more than the history of the failures.             *)
LEMMA AnswerType ==
  ASSUME NEW f, FsType(f)
  PROVE  /\ \A ok : FsType(FS!Result(ok, f).fs)
         /\ \A r \in FS!Breaks(f) : FsType(r.fs)
<1>1. ASSUME NEW b PROVE FsType([f EXCEPT !.broke = b])
  BY DEF FsType
<1>. QED BY <1>1 DEF FS!Result, FS!Breaks

LEMMA CompactType ==
  ASSUME NEW f, NEW files, FsType(f), Sized(files), NEW r \in FS!Compact(f, files)
  PROVE  FsType(r.fs)
<1>1. FsType([f EXCEPT !.stream = FS!NoStream])
  BY DEF FsType, FS!NoStream
<1>2. \/ \E g \in FS!LaidOut(f, files) : r = FS!Result(TRUE, g)
      \/ r \in FS!Breaks([f EXCEPT !.stream = FS!NoStream])
  BY DEF FS!Compact
<1>. QED BY <1>1, <1>2, LaidOutType, AnswerType

LEMMA EntryType ==
  ASSUME NEW f, FsType(f), NEW n, NEW off, NEW size \in Nat
  PROVE  FsType(FS!Entry(f, n, off, size))
BY DEF FS!Entry, FS!With, FsType

LEMMA WriteType ==
  ASSUME NEW f, FsType(f), NEW n, NEW body, Len(body) \in Nat, NEW r \in FS!Write(f, n, body)
  PROVE  FsType(r.fs)
<1> DEFINE g == [f EXCEPT !.mem = @ \o body]
<1>1. FsType(g)
  BY DEF FsType
<1>2. Sized(FS!With(FS!Bodies(f), n, body))
  BY BodiesSized, WithSized
<1>3. FsType(FS!Entry(g, n, Len(f.mem), Len(body)))
  BY <1>1, EntryType
<1> HIDE DEF g
<1>4. \/ r = FS!Result(FALSE, f) \/ r \in FS!Breaks(g)
      \/ r = FS!Result(TRUE, FS!Entry(g, n, Len(f.mem), Len(body)))
      \/ r \in FS!Compact(f, FS!With(FS!Bodies(f), n, body))
  BY DEF FS!Write, FS!Refuse, g
<1>. QED BY <1>1, <1>2, <1>3, <1>4, CompactType, AnswerType

LEMMA DeleteType ==
  ASSUME NEW f, FsType(f), NEW n, NEW r \in FS!Delete(f, n)
  PROVE  FsType(r.fs)
<1>1. Sized(FS!Without(FS!Bodies(f), n))
  BY BodiesSized, WithoutSized
<1>2. FsType([f EXCEPT !.dir = FS!Without(@, n)])
  BY DEF FsType, FS!Without
<1>3. \/ r = FS!Result(FALSE, f) \/ r = FS!Result(TRUE, [f EXCEPT !.dir = FS!Without(@, n)])
      \/ r \in FS!Breaks(f) \/ r \in FS!Compact(f, FS!Without(FS!Bodies(f), n))
  BY DEF FS!Delete
<1>. QED BY <1>1, <1>2, <1>3, CompactType, AnswerType

LEMMA StreamBeginType ==
  ASSUME NEW f, FsType(f), NEW n, NEW size \in Nat, NEW r \in FS!StreamBegin(f, n, size)
  PROVE  FsType(r.fs)
<1>1. ASSUME NEW g, FsType(g) PROVE FsType(FS!Reserved(g, n, size))
  BY <1>1 DEF FsType, FS!Reserved, FS!NoStream
<1>2. \/ r = FS!Result(FALSE, f) \/ r = FS!Result(TRUE, FS!Reserved(f, n, size))
      \/ \E c \in FS!Compact(f, FS!Bodies(f)) :
            r = [c EXCEPT !.ok = FALSE] \/ r = FS!Result(TRUE, FS!Reserved(c.fs, n, size))
  BY DEF FS!StreamBegin, FS!Refuse
<1>3. ASSUME NEW c \in FS!Compact(f, FS!Bodies(f))
      PROVE  FsType(c.fs) /\ [c EXCEPT !.ok = FALSE].fs = c.fs
  <2>1. FsType(c.fs)
    BY BodiesSized, CompactType
  <2>2. \E g, ok, b : c = [ok |-> ok, fs |-> [g EXCEPT !.broke = b]]
    BY DEF FS!Compact, FS!Result, FS!Breaks
  <2>. QED BY <2>1, <2>2
<1>. QED BY <1>1, <1>2, <1>3, AnswerType

LEMMA StreamAbortType ==
  ASSUME NEW f, FsType(f)
  PROVE  FsType(FS!StreamAbort(f))
BY DEF FsType, FS!StreamAbort, FS!NoStream

LEMMA StreamWriteType ==
  ASSUME NEW f, FsType(f), NEW s, NEW r \in FS!StreamWrite(f, s)
  PROVE  FsType(r.fs)
<1>1. ASSUME NEW m, NEW w
      PROVE  FsType([f EXCEPT !.mem = m, !.stream.written = w])
  BY DEF FsType, FS!NoStream
<1>2. \/ r = FS!Result(FALSE, f) \/ r \in FS!Breaks([f EXCEPT !.stream = FS!NoStream])
      \/ \E m, w : r = FS!Result(TRUE, [f EXCEPT !.mem = m, !.stream.written = w])
  <2> DEFINE w == f.stream.start + f.stream.written
             m == [i \in DOMAIN f.mem |-> IF i \in w + 1 .. w + Len(s) THEN s[i - w] ELSE f.mem[i]]
  <2>1. \/ r = FS!Result(FALSE, f) \/ r \in FS!Breaks([f EXCEPT !.stream = FS!NoStream])
        \/ r = FS!Result(TRUE, [f EXCEPT !.mem = m, !.stream.written = @ + Len(s)])
    BY DEF FS!StreamWrite
  <2> HIDE DEF m
  <2>2. [f EXCEPT !.mem = m, !.stream.written = @ + Len(s)]
          = [f EXCEPT !.mem = m, !.stream.written = f.stream.written + Len(s)]
    OBVIOUS
  <2>. QED BY <2>1, <2>2
<1>3. FsType([f EXCEPT !.stream = FS!NoStream])
  BY StreamAbortType DEF FS!StreamAbort
<1>4. CASE \E m, w : r = FS!Result(TRUE, [f EXCEPT !.mem = m, !.stream.written = w])
  <2>1. PICK m, w : r = FS!Result(TRUE, [f EXCEPT !.mem = m, !.stream.written = w])
    BY <1>4
  <2>2. FsType([f EXCEPT !.mem = m, !.stream.written = w])
    BY ONLY <1>1
  <2>. QED BY ONLY <2>1, <2>2, AnswerType
<1>. QED BY <1>2, <1>3, <1>4, AnswerType

LEMMA StreamEndType ==
  ASSUME NEW f, FsType(f), NEW r \in FS!StreamEnd(f)
  PROVE  FsType(r.fs)
<1> DEFINE g == FS!StreamAbort(f)
           t == f.stream
<1>1. FsType(g) /\ t.size \in Nat
  BY StreamAbortType DEF FsType
<1>2. FsType(FS!Entry(g, t.name, t.start, t.size))
  BY <1>1, EntryType
<1>4. \/ r = FS!Result(FALSE, g) \/ r \in FS!Breaks(g)
      \/ r = FS!Result(TRUE, FS!Entry(g, t.name, t.start, t.size))
      \/ r \in FS!Compact(g, FS!With(FS!Bodies(f), t.name, FS!Read(f, t.start, t.size)))
  BY DEF FS!StreamEnd
<1>5. Sized(FS!With(FS!Bodies(f), t.name, FS!Read(f, t.start, t.size)))
  BY <1>1, BodiesSized, WithSized, ReadIs
<1> HIDE DEF g, t
<1>. QED BY <1>1, <1>2, <1>4, <1>5, CompactType, AnswerType

-----------------------------------------------------------------------------
(* What the rings, the transfer and the PC hold; and the room for a reply  *)
(* that is kept while a SEND is under way, for the reply of its end or its *)
(* time-out.                                                               *)
Requests(s) == IsSeq(s) /\ \A i \in 1 .. Len(s) : s[i].k = "unit" \/ s[i].size \in Nat
Whole(t) == Width(t) \in Nat /\ t.k # "cut" /\ (t.k = "DATA" => t.size \in Nat)
Replies(s) == IsSeq(s) /\ \A i \in 1 .. Len(s) : Whole(s[i])

XferType ==
  DOMAIN xfer = DOMAIN NoXfer /\ xfer.size \in Nat /\ xfer.pos \in Nat /\ IsSeq(xfer.chunk)
HostType ==
  DOMAIN host = DOMAIN NoHost /\ Requests(host.out) /\ IsSeq(host.data) /\ host.need \in Nat

Types ==
  /\ Requests(rx) /\ Replies(tx) /\ txUsed \in Int
  /\ FsType(fs) /\ XferType /\ HostType

Room == st = "SEND" => TxFree >= ERR.w /\ Len(xfer.chunk) < Chunk

RoomInv == Types /\ Room

LEMMA Widths ==
  /\ RxSize \in Nat /\ TxSize \in Nat /\ ReplyMax \in Nat \ {0} /\ Chunk \in Nat \ {0}
  /\ RecvChunk \in Nat \ {0} /\ ReplyMax <= TxSize
  /\ 3 <= ReplyMax
BY ReplyRoom DEF OK, ERR, READY, DATA, Reply

LEMMA RepliesAre ==
  /\ OK.k = "OK" /\ ERR.k = "ERR" /\ READY.k = "READY"
  /\ Whole(OK) /\ Whole(ERR) /\ Whole(READY)
  /\ Width(OK) = 1 /\ OK.w = 1 /\ Width(ERR) = 2 /\ ERR.w = 2 /\ Width(READY) = 1 /\ READY.w = 1
  /\ \A n \in Nat : Whole(DATA(n)) /\ Width(DATA(n)) = 2 /\ DATA(n).k = "DATA" /\ DATA(n).size = n
  /\ \A n : Whole(Entry(n)) /\ Width(Entry(n)) = 2 /\ Entry(n).k = "entry"
  /\ \A v : Whole(Unit(v)) /\ Width(Unit(v)) = 1 /\ Unit(v).k = "unit"
BY DEF OK, ERR, READY, DATA, Reply, Entry, Unit, Whole, Width

LEMMA RequestsRest ==
  ASSUME NEW s, Requests(s), s # <<>>
  PROVE  Requests(Tail(s)) /\ (s[1].k = "unit" \/ s[1].size \in Nat) /\ Head(s) = s[1]
<1>1. /\ IsSeq(Tail(s)) /\ Len(Tail(s)) = Len(s) - 1 /\ Len(s) \in Nat \ {0} /\ Head(s) = s[1]
      /\ \A i \in 1 .. Len(s) - 1 : Tail(s)[i] = s[i + 1]
  BY TailIs DEF Requests
<1>. QED BY <1>1 DEF Requests

LEMMA RequestsJoin ==
  ASSUME NEW s, NEW t, Requests(s), Requests(t)
  PROVE  Requests(s \o t)
<1>1. /\ IsSeq(s \o t) /\ Len(s \o t) = Len(s) + Len(t) /\ Len(s) \in Nat /\ Len(t) \in Nat
      /\ \A i \in 1 .. Len(s) + Len(t) : (s \o t)[i] = IF i <= Len(s) THEN s[i] ELSE t[i - Len(s)]
  BY JoinIs, SeqKnown DEF Requests
<1>. QED BY <1>1 DEF Requests

LEMMA RequestsAppend ==
  ASSUME NEW s, Requests(s), NEW e, e.k = "unit" \/ e.size \in Nat
  PROVE  Requests(Append(s, e))
<1>1. /\ IsSeq(Append(s, e)) /\ Len(Append(s, e)) = Len(s) + 1 /\ Len(s) \in Nat
      /\ \A i \in 1 .. Len(s) : Append(s, e)[i] = s[i]
      /\ Append(s, e)[Len(s) + 1] = e
  BY AppendIs, SeqKnown DEF Requests
<1>. QED BY <1>1 DEF Requests

LEMMA RequestsFrom ==
  ASSUME NEW s, Requests(s), NEW n \in 0 .. Len(s)
  PROVE  Requests(SubSeq(s, n + 1, Len(s)))
<1>1. /\ IsSeq(SubSeq(s, n + 1, Len(s))) /\ Len(SubSeq(s, n + 1, Len(s))) = Len(s) - n /\ Len(s) \in Nat
      /\ \A i \in 1 .. Len(s) - n : SubSeq(s, n + 1, Len(s))[i] = s[n + i]
  BY SubIs, SeqKnown DEF Requests
<1>. QED BY <1>1 DEF Requests

LEMMA RepliesAppend ==
  ASSUME NEW s, Replies(s), NEW e, Whole(e)
  PROVE  Replies(Append(s, e))
<1>1. /\ IsSeq(Append(s, e)) /\ Len(Append(s, e)) = Len(s) + 1 /\ Len(s) \in Nat
      /\ \A i \in 1 .. Len(s) : Append(s, e)[i] = s[i]
      /\ Append(s, e)[Len(s) + 1] = e
  BY AppendIs, SeqKnown DEF Replies
<1>. QED BY <1>1 DEF Replies

LEMMA RepliesRest ==
  ASSUME NEW s, Replies(s), s # <<>>
  PROVE  Replies(Tail(s)) /\ Whole(s[1]) /\ Head(s) = s[1]
<1>1. /\ IsSeq(Tail(s)) /\ Len(Tail(s)) = Len(s) - 1 /\ Len(s) \in Nat \ {0} /\ Head(s) = s[1]
      /\ \A i \in 1 .. Len(s) - 1 : Tail(s)[i] = s[i + 1]
  BY TailIs DEF Replies
<1>. QED BY <1>1 DEF Replies

(* A chunk of n units of a file.                                           *)
LEMMA UnitsAre ==
  ASSUME NEW n \in Nat, NEW u, u = [i \in 1 .. n |-> u[i]], \A i \in 1 .. n : u[i].k = "unit"
  PROVE  IsSeq(u) /\ Len(u) = n /\ Replies(u) /\ Requests(u)
<1>1. IsSeq(u) /\ Len(u) = n
  BY FunctionIs
<1>. QED BY <1>1 DEF Replies, Requests, Whole, Width

LEMMA RepliesJoin ==
  ASSUME NEW s, NEW t, Replies(s), Replies(t)
  PROVE  Replies(s \o t)
<1>1. /\ IsSeq(s \o t) /\ Len(s \o t) = Len(s) + Len(t) /\ Len(s) \in Nat /\ Len(t) \in Nat
      /\ \A i \in 1 .. Len(s) + Len(t) : (s \o t)[i] = IF i <= Len(s) THEN s[i] ELSE t[i - Len(s)]
  BY JoinIs, SeqKnown DEF Replies
<1>. QED BY <1>1 DEF Replies

(* A reply that there is room for is queued as it is.                      *)
LEMMA Queued ==
  ASSUME Types, NEW t, Whole(t), Width(t) <= TxFree, Queue(t)
  PROVE  /\ tx' = Append(tx, t) /\ Replies(tx') /\ txUsed' \in Int
         /\ TxFree' = TxFree - Width(t)
<1>1. tx' = Append(tx, t) /\ txUsed' = txUsed + Width(t)
  BY DEF Queue
<1>2. Replies(Append(tx, t))
  BY RepliesAppend DEF Types
<1>. QED BY <1>1, <1>2, Widths DEF Types, TxFree, Whole

LEMMA TakeType ==
  ASSUME Types
  PROVE  Requests(RxTake) /\ (RxTake # <<>> => rx # <<>>)
<1>1. CASE rx = <<>>
  BY <1>1 DEF Types, RxTake
<1>2. CASE rx # <<>>
  BY <1>2, RequestsRest DEF Types, RxTake
<1>. QED BY <1>1, <1>2

LEMMA RoomInit == Init => RoomInv
<1> SUFFICES ASSUME Init PROVE RoomInv
  OBVIOUS
<1>1. Requests(<<>>) /\ Replies(<<>>)
  BY EmptyIs DEF Requests, Replies
<1>2. FsType(fs)
  BY EmptyAreaType DEF Init
<1>. QED BY <1>1, <1>2, EmptyIs DEF Init, RoomInv, Types, XferType, HostType, NoXfer, NoHost, Room

-----------------------------------------------------------------------------
(* What one command leaves: the transfer, the filesystem and the reply.    *)
After(e) == Replies(tx') /\ txUsed' \in Int /\ FsType(fs') /\ XferType' /\ Room'

LEMMA RecvKeeps ==
  ASSUME RoomInv, st = "LINE", LineRoom, NEW c, HandleRecv(c)
  PROVE  After(c)
<1>1. TxFree >= ReplyMax /\ TxFree \in Int
  BY Widths DEF LineRoom, TxFree, RoomInv, Types
<1>2. CASE ~FS!Has(fs, c.name)
  BY <1>1, <1>2, Queued, RepliesAre, Widths DEF HandleRecv, After, RoomInv, Types, Room, XferType
<1>3. CASE FS!Has(fs, c.name)
  <2>1. fs.dir[c.name].size \in Nat
    BY <1>3 DEF RoomInv, Types, FsType, FS!Has
  <2>2. /\ xfer' = [NoXfer EXCEPT !.name = c.name, !.area = fs.area,
                                 !.off = fs.dir[c.name].off, !.size = fs.dir[c.name].size,
                                 !.was = FS!Body(fs, c.name)]
        /\ Queue(DATA(fs.dir[c.name].size)) /\ st' = "RECV" /\ fs' = fs
    BY <1>3 DEF HandleRecv
  <2>3. Replies(tx') /\ txUsed' \in Int
    BY <1>1, <2>1, <2>2, Queued, RepliesAre, Widths DEF RoomInv
  <2>4. XferType'
    BY <2>1, <2>2, EmptyIs DEF XferType, NoXfer
  <2>. QED BY <2>2, <2>3, <2>4 DEF After, Room, RoomInv, Types
<1>. QED BY <1>2, <1>3

LEMMA BeginType ==
  ASSUME FsType(fs), NEW c, c.size \in Nat, NEW r \in BeginResults(c)
  PROVE  FsType(r.fs)
<1>1. PICK b \in FS!StreamBegin(fs, c.name, c.size) :
        \/ r = b
        \/ \E d \in FS!Delete(b.fs, c.name) :
             \E x \in {d} \cup FS!StreamBegin(d.fs, c.name, c.size) :
               r = [ok |-> x.ok, fs |-> [x.fs EXCEPT !.broke = @ \/ b.fs.broke]]
  <2>1. PICK b \in FS!StreamBegin(fs, c.name, c.size) :
          r \in IF b.ok THEN {b}
                ELSE IF b.fs.stream.active \/ ~FS!Has(b.fs, c.name) THEN {b}
                ELSE {[ok |-> x.ok, fs |-> [x.fs EXCEPT !.broke = @ \/ b.fs.broke]] :
                        x \in UNION {IF d.ok THEN FS!StreamBegin(d.fs, c.name, c.size) ELSE {d} :
                                       d \in FS!Delete(b.fs, c.name)}}
    BY Zenon DEF BeginResults
  <2>. QED BY <2>1
<1>2. FsType(b.fs)
  BY StreamBeginType
<1>3. ASSUME NEW d \in FS!Delete(b.fs, c.name) PROVE FsType(d.fs)
  BY <1>2, DeleteType
<1>4. ASSUME NEW f, FsType(f), NEW broke PROVE FsType([f EXCEPT !.broke = broke])
  BY <1>4 DEF FsType
<1>. QED BY <1>1, <1>2, <1>3, <1>4, StreamBeginType

LEMMA SendKeeps ==
  ASSUME RoomInv, st = "LINE", LineRoom, NEW c, c.size \in Nat, HandleSend(c)
  PROVE  After(c)
<1>1. TxFree >= ReplyMax /\ TxFree \in Int
  BY Widths DEF LineRoom, TxFree, RoomInv, Types
<1>2. PICK r \in BeginResults(c) :
        /\ fs' = r.fs
        /\ IF r.ok
           THEN /\ xfer' = [NoXfer EXCEPT !.name = c.name, !.size = c.size]
                /\ quiet' = FALSE /\ st' = "SEND" /\ Queue(READY) /\ UNCHANGED list
           ELSE Queue(ERR) /\ UNCHANGED <<st, list, xfer, quiet>>
  BY DEF HandleSend
<1>3. FsType(fs')
  BY <1>2, BeginType DEF RoomInv, Types
<1>4. CASE r.ok
  <2>1. Replies(tx') /\ txUsed' \in Int /\ TxFree' = TxFree - 1
    BY <1>1, <1>2, <1>4, Queued, RepliesAre, Widths DEF RoomInv
  <2>2. XferType' /\ Len(xfer'.chunk) = 0
    <3>1. xfer' = [NoXfer EXCEPT !.name = c.name, !.size = c.size]
      BY <1>2, <1>4
    <3>. QED BY <3>1, EmptyIs DEF XferType, NoXfer
  <2>. QED BY <1>1, <1>3, <2>1, <2>2, RepliesAre, Widths, ReplyRoom DEF After, Room
<1>5. CASE ~r.ok
  <2>1. Replies(tx') /\ txUsed' \in Int /\ st' = "LINE" /\ XferType'
    BY <1>1, <1>2, <1>5, Queued, RepliesAre, Widths DEF RoomInv, Types, XferType
  <2>. QED BY <1>3, <2>1 DEF After, Room
<1>. QED BY <1>4, <1>5

LEMMA CommandKeeps ==
  ASSUME RoomInv, st = "LINE", LineRoom, NEW c, c.size \in Nat, HandleCommand(c)
  PROVE  After(c)
<1>1. TxFree >= ReplyMax /\ TxFree \in Int
  BY Widths DEF LineRoom, TxFree, RoomInv, Types
<1>2. CASE HandleList
  BY <1>2 DEF HandleList, txRing, After, RoomInv, Types, Room, XferType
<1>3. CASE HandleRecv(c)
  BY <1>3, RecvKeeps
<1>4. CASE HandleSend(c)
  BY <1>4, SendKeeps
<1>5. CASE HandleDel(c)
  <2>1. PICK r \in FS!Delete(fs, c.name) : fs' = r.fs /\ Queue(IF r.ok THEN OK ELSE ERR)
    BY <1>5 DEF HandleDel
  <2>2. FsType(fs')
    BY <2>1, DeleteType DEF RoomInv, Types
  <2>3. Replies(tx') /\ txUsed' \in Int
    <3>1. Whole(IF r.ok THEN OK ELSE ERR) /\ Width(IF r.ok THEN OK ELSE ERR) <= TxFree
      BY <1>1, RepliesAre, Widths
    <3>. QED BY <2>1, <3>1, Queued DEF RoomInv
  <2>. QED BY <1>5, <2>2, <2>3 DEF HandleDel, After, RoomInv, Types, Room, XferType
<1>6. CASE Queue(ERR) /\ UNCHANGED <<st, list, xfer, quiet, fs>>
  BY <1>1, <1>6, Queued, RepliesAre, Widths DEF After, RoomInv, Types, Room, XferType
<1>. QED BY <1>2, <1>3, <1>4, <1>5, <1>6 DEF HandleCommand

LEMMA LineStepKeeps ==
  ASSUME RoomInv, LineStep, UNCHANGED host
  PROVE  RoomInv'
<1>1. TxFree >= ReplyMax /\ TxFree \in Int /\ st = "LINE"
  BY Widths DEF LineStep, LineRoom, TxFree, RoomInv, Types
<1>2. /\ RxTake # <<>> /\ rx' = Tail(RxTake) /\ Requests(rx')
      /\ Head(RxTake).k = "unit" \/ Head(RxTake).size \in Nat
  BY TakeType, RequestsRest DEF LineStep, RoomInv
<1>3. CASE UNCHANGED <<st, list, xfer, quiet, fs>> /\ (Queue(ERR) \/ UNCHANGED txRing)
  <2>1. Replies(tx') /\ txUsed' \in Int
    BY <1>1, <1>3, Queued, RepliesAre, Widths DEF txRing, RoomInv, Types
  <2>. QED BY <1>1, <1>2, <1>3, <2>1 DEF RoomInv, Types, Room, XferType, HostType
<1>4. CASE Head(RxTake).k # "unit" /\ HandleCommand(Head(RxTake))
  BY <1>1, <1>2, <1>4, CommandKeeps DEF LineStep, After, RoomInv, Types, HostType
<1>. QED BY <1>3, <1>4 DEF LineStep, txRing

LEMMA ListStepKeeps ==
  ASSUME RoomInv, ListStep, UNCHANGED host
  PROVE  RoomInv'
<1>1. st = "LIST" /\ st' \in {"LIST", "LINE"} /\ UNCHANGED <<fs, rx, xfer>>
  BY DEF ListStep
<1>2. Replies(tx') /\ txUsed' \in Int
  BY Queued, RepliesAre DEF ListStep, RoomInv, Types
<1>. QED BY <1>1, <1>2 DEF RoomInv, Types, Room, XferType, HostType

(* The next chunk of a file fits.                                          *)
LEMMA RecvChunkIs ==
  ASSUME RoomInv, RecvStep, xfer.pos < xfer.size, FS!InArea(fs, xfer.area)
  PROVE  \E n \in Nat \ {0} : \E u :
           /\ n <= xfer.size - xfer.pos /\ n <= TxFree
           /\ IsSeq(u) /\ Len(u) = n /\ Replies(u) /\ \A i \in 1 .. n : u[i].k = "unit"
           /\ tx' = tx \o u /\ txUsed' = txUsed + n
           /\ xfer' = [xfer EXCEPT !.pos = @ + n] /\ UNCHANGED st
<1> DEFINE n == Min({xfer.size - xfer.pos, TxFree, RecvChunk})
           u == [i \in 1 .. n |-> Unit(FS!UnitAt(fs, xfer.off + xfer.pos + i - 1))]
<1>1. /\ TxFree \in Int /\ xfer.size \in Nat /\ xfer.pos \in Nat /\ RecvChunk \in Int
      /\ xfer.size - xfer.pos \in Int
  BY Widths DEF RoomInv, Types, XferType, TxFree
<1>2. n \in Int /\ n <= xfer.size - xfer.pos /\ n <= TxFree
  <2>1. n \in {xfer.size - xfer.pos, TxFree, RecvChunk} /\ n <= xfer.size - xfer.pos /\ n <= TxFree
    BY ONLY <1>1, MinIs
  <2>. QED BY ONLY <1>1, <2>1
<1>3. n > 0 /\ tx' = tx \o u /\ txUsed' = txUsed + n /\ xfer' = [xfer EXCEPT !.pos = @ + n] /\ UNCHANGED st
  <2>1. ~(xfer.pos >= xfer.size)
    BY <1>1
  <2>. QED BY <2>1, Zenon DEF RecvStep
<1> HIDE DEF n
<1>4. \A i \in 1 .. n : u[i].k = "unit"
  BY DEF Unit
<1>5. n \in Nat \ {0} /\ u = [i \in 1 .. n |-> u[i]]
  BY <1>2, <1>3
<1> HIDE DEF u
<1>6. IsSeq(u) /\ Len(u) = n /\ Replies(u)
  BY <1>4, <1>5, UnitsAre
<1>. QED BY <1>2, <1>3, <1>4, <1>5, <1>6

LEMMA RecvStepKeeps ==
  ASSUME RoomInv, RecvStep, UNCHANGED host
  PROVE  RoomInv'
<1>1. st = "RECV" /\ st' \in {"RECV", "LINE"} /\ UNCHANGED <<fs, rx>>
  BY DEF RecvStep
<1>2. CASE Queue(OK) /\ TxFree >= OK.w /\ UNCHANGED xfer
  <2>1. Replies(tx') /\ txUsed' \in Int
    BY <1>2, Queued, RepliesAre DEF RoomInv, Types
  <2>. QED BY <1>1, <1>2, <2>1 DEF RoomInv, Types, Room, XferType, HostType
<1>3. CASE xfer.pos < xfer.size /\ FS!InArea(fs, xfer.area)
  <2>1. PICK n \in Nat \ {0} : \E u :
           /\ IsSeq(u) /\ Len(u) = n /\ Replies(u)
           /\ tx' = tx \o u /\ txUsed' = txUsed + n
           /\ xfer' = [xfer EXCEPT !.pos = @ + n]
    BY <1>3, RecvChunkIs
  <2>2. Replies(tx') /\ txUsed' \in Int
    BY <2>1, RepliesJoin DEF RoomInv, Types
  <2>3. XferType'
    BY <2>1 DEF RoomInv, Types, XferType, NoXfer
  <2>. QED BY <1>1, <2>2, <2>3 DEF RoomInv, Types, Room, HostType
<1>4. CASE UNCHANGED <<xfer, txRing>>
  BY <1>1, <1>4 DEF RoomInv, Types, Room, XferType, HostType, txRing
<1>. QED BY <1>2, <1>3, <1>4 DEF RecvStep

(* SEND takes what has come, at most what is missing and fits the buffer.  *)
LEMMA SendTakeIs ==
  ASSUME RoomInv, SendTake
  PROVE  \E n \in 1 .. Len(RxTake) :
           /\ n <= xfer.size - xfer.pos
           /\ rx' = SubSeq(RxTake, n + 1, Len(RxTake))
           /\ xfer'.pos = xfer.pos + n /\ xfer'.size = xfer.size
           /\ XferType' /\ Len(xfer'.chunk) < Chunk /\ FsType(fs')
<1> DEFINE n == Min({xfer.size - xfer.pos, Chunk - Len(xfer.chunk), Len(RxTake)})
           u == [i \in 1 .. n |-> IF RxTake[i].k = "unit" THEN RxTake[i].v ELSE Text]
           chunk == xfer.chunk \o u
           pos == xfer.pos + n
<1>1. /\ st = "SEND" /\ xfer.pos < xfer.size /\ RxTake # <<>>
      /\ xfer.size \in Nat /\ xfer.pos \in Nat /\ Chunk \in Nat /\ IsSeq(xfer.chunk) /\ IsSeq(RxTake)
      /\ DOMAIN xfer = DOMAIN NoXfer
  BY Widths, TakeType DEF SendTake, RoomInv, Types, XferType, Requests
<1>2. Len(xfer.chunk) \in Nat /\ Len(RxTake) \in Nat \ {0} /\ Len(xfer.chunk) < Chunk
  BY <1>1, SeqKnown, TailIs DEF RoomInv, Room
<1>3. n \in 1 .. Len(RxTake) /\ n <= xfer.size - xfer.pos /\ n <= Chunk - Len(xfer.chunk)
  <2>1. xfer.size - xfer.pos \in Int /\ Chunk - Len(xfer.chunk) \in Int /\ Len(RxTake) \in Int
    BY ONLY <1>1, <1>2
  <2>2. /\ n \in {xfer.size - xfer.pos, Chunk - Len(xfer.chunk), Len(RxTake)}
        /\ n <= xfer.size - xfer.pos /\ n <= Chunk - Len(xfer.chunk) /\ n <= Len(RxTake)
    BY ONLY <2>1, MinIs
  <2>. QED BY ONLY <1>1, <1>2, <2>2
<1>4. /\ rx' = SubSeq(RxTake, n + 1, Len(RxTake))
      /\ \/ /\ \E r \in FS!StreamWrite(fs, chunk) :
                 fs' = r.fs /\ xfer' = [xfer EXCEPT !.pos = pos, !.chunk = <<>>, !.failed = ~r.ok]
         \/ /\ xfer' = [xfer EXCEPT !.pos = pos,
                          !.chunk = IF Len(chunk) = Chunk \/ pos = xfer.size THEN <<>> ELSE chunk]
            /\ fs' = fs
  BY Zenon DEF SendTake
<1> HIDE DEF n
<1>5. u = [i \in 1 .. n |-> u[i]] /\ n \in Nat
  BY <1>2, <1>3
<1> HIDE DEF u
<1>6. IsSeq(chunk) /\ Len(chunk) = Len(xfer.chunk) + n
  <2>1. IsSeq(u) /\ Len(u) = n
    BY ONLY <1>5, FunctionIs
  <2>. QED BY <1>1, <2>1, JoinIs
<1> HIDE DEF chunk, pos
<1>7. pos = xfer.pos + n /\ pos \in Nat
  BY <1>1, <1>2, <1>3 DEF pos
<1>8. FsType(fs')
  <2>1. FsType(fs)
    BY DEF RoomInv, Types
  <2>2. ASSUME NEW r \in FS!StreamWrite(fs, chunk) PROVE FsType(r.fs)
    BY <2>1, StreamWriteType
  <2>3. fs' = fs \/ \E r \in FS!StreamWrite(fs, chunk) : fs' = r.fs
    BY <1>4
  <2>. QED BY <2>1, <2>2, <2>3
<1>9. \E b, d : /\ xfer' = [xfer EXCEPT !.pos = pos, !.chunk = b, !.failed = d]
                /\ IsSeq(b) /\ Len(b) < Chunk
  <2>1. IsSeq(<<>>) /\ Len(<<>>) < Chunk
    BY EmptyIs, Widths
  <2>2. CASE \E r \in FS!StreamWrite(fs, chunk) :
                 fs' = r.fs /\ xfer' = [xfer EXCEPT !.pos = pos, !.chunk = <<>>, !.failed = ~r.ok]
    BY <2>1, <2>2
  <2>3. CASE xfer' = [xfer EXCEPT !.pos = pos,
                        !.chunk = IF Len(chunk) = Chunk \/ pos = xfer.size THEN <<>> ELSE chunk]
    <3> DEFINE b == IF Len(chunk) = Chunk \/ pos = xfer.size THEN <<>> ELSE chunk
    <3>1. IsSeq(b) /\ Len(b) < Chunk
      BY <1>1, <1>2, <1>3, <1>6, <2>1
    <3> HIDE DEF b
    <3>2. xfer' = [xfer EXCEPT !.pos = pos, !.chunk = b]
      BY <2>3 DEF b
    <3>3. xfer' = [xfer EXCEPT !.pos = pos, !.chunk = b, !.failed = xfer.failed]
      BY <1>1, <3>2 DEF NoXfer
    <3>. QED BY <3>1, <3>3
  <2>. QED BY <1>4, <2>2, <2>3
<1>10. XferType' /\ xfer'.pos = pos /\ xfer'.size = xfer.size /\ Len(xfer'.chunk) < Chunk
  <2>1. PICK b, d : xfer' = [xfer EXCEPT !.pos = pos, !.chunk = b, !.failed = d] /\ IsSeq(b) /\ Len(b) < Chunk
    BY <1>9
  <2>. QED BY <1>1, <1>7, <2>1 DEF XferType, NoXfer
<1>. QED BY <1>3, <1>4, <1>7, <1>8, <1>10

LEMMA SendTakeKeeps ==
  ASSUME RoomInv, SendTake, UNCHANGED host
  PROVE  RoomInv'
<1>1. PICK n \in 1 .. Len(RxTake) :
        /\ rx' = SubSeq(RxTake, n + 1, Len(RxTake))
        /\ XferType' /\ Len(xfer'.chunk) < Chunk /\ FsType(fs')
  BY SendTakeIs
<1>2. Requests(rx')
  <2>1. Len(RxTake) \in Nat
    BY TakeType, SeqKnown DEF Requests, RoomInv
  <2>. QED BY <1>1, <2>1, TakeType, RequestsFrom DEF RoomInv
<1>3. UNCHANGED <<tx, txUsed, st>>
  BY DEF SendTake, txRing
<1>. QED BY <1>1, <1>2, <1>3 DEF RoomInv, Types, Room, TxFree, HostType

(* The reply to a time-out, which does not look at the room, has it.       *)
LEMMA SendTimeoutKeeps ==
  ASSUME RoomInv, SendTimeout, UNCHANGED host
  PROVE  RoomInv'
<1>1. /\ fs' = FS!StreamAbort(fs) /\ Queue(ERR) /\ st = "SEND" /\ st' = "LINE" /\ rx' = RxTake
      /\ UNCHANGED xfer
  BY DEF SendTimeout
<1>2. Replies(tx') /\ txUsed' \in Int
  BY <1>1, Queued, RepliesAre DEF RoomInv, Room
<1>3. FsType(fs') /\ Requests(rx')
  BY <1>1, StreamAbortType, TakeType DEF RoomInv, Types
<1>. QED BY <1>1, <1>2, <1>3 DEF RoomInv, Types, Room, XferType, HostType

LEMMA SendFinishKeeps ==
  ASSUME RoomInv, SendFinish, UNCHANGED host
  PROVE  RoomInv'
<1>1. TxFree >= ReplyMax /\ TxFree \in Int /\ st' = "LINE" /\ UNCHANGED <<rx, xfer>>
  BY Widths DEF SendFinish, TxFree, RoomInv, Types
<1>2. PICK t \in {OK, ERR} : Queue(t)
  BY DEF SendFinish
<1>3. Replies(tx') /\ txUsed' \in Int
  BY <1>1, <1>2, Queued, RepliesAre, Widths DEF RoomInv
<1>4. FsType(fs')
  BY StreamAbortType, StreamEndType DEF SendFinish, RoomInv, Types
<1>. QED BY <1>1, <1>3, <1>4 DEF RoomInv, Types, Room, XferType, HostType

LEMMA ProcessEndKeeps ==
  ASSUME RoomInv, ProcessEnd
  PROVE  RoomInv'
<1>1. Requests(rx')
  BY TakeType DEF ProcessEnd, RoomInv, Types
<1>. QED BY <1>1 DEF ProcessEnd, RoomInv, Types, Room, XferType, HostType, TxFree, txRing

LEMMA ContentsSized == \A c \in Contents : Len(c) \in Nat /\ IsSeq(c)
<1>1. ASSUME NEW k \in Sizes, NEW c \in [1 .. k -> Vals] PROVE Len(c) \in Nat /\ IsSeq(c)
  <2>1. k \in Nat /\ c = [i \in 1 .. k |-> c[i]]
    BY PcAssumption
  <2>. QED BY <2>1, FunctionIs
<1>. QED BY <1>1 DEF Contents

(* An app's turn leaves the transfer alone: only its history changes.      *)
LEMMA AppKeepsXfer ==
  ASSUME AppTurn, DOMAIN xfer = DOMAIN NoXfer
  PROVE  /\ DOMAIN xfer' = DOMAIN xfer
         /\ xfer'.size = xfer.size /\ xfer'.pos = xfer.pos /\ xfer'.chunk = xfer.chunk
<1> DEFINE n == IF st = "RECV" /\ fs'.area # fs.area THEN xfer.moves + 1 ELSE xfer.moves
<1>1. xfer' = [xfer EXCEPT !.moves = n]
  BY DEF AppTurn
<1> HIDE DEF n
<1>. QED BY <1>1 DEF NoXfer

LEMMA AppTurnKeeps ==
  ASSUME RoomInv, AppTurn
  PROVE  RoomInv'
<1>1. FsType(fs')
  <2>1. CASE AppEdit
    <3>1. PICK n \in Names :
            \E r \in FS!Delete(fs, n) \cup UNION {FS!Write(fs, n, c) : c \in Contents} : fs' = r.fs
      BY <2>1 DEF AppEdit
    <3>2. \/ \E r \in FS!Delete(fs, n) : fs' = r.fs
          \/ \E c \in Contents : \E r \in FS!Write(fs, n, c) : fs' = r.fs
      BY <3>1
    <3>. QED BY <3>2, DeleteType, WriteType, ContentsSized DEF RoomInv, Types
  <2>2. CASE fs' = [fs EXCEPT !.broke = FALSE]
    BY <2>2, AnswerType DEF RoomInv, Types, FS!Result
  <2>. QED BY <2>1, <2>2 DEF AppTurn
<1>2. XferType' /\ xfer'.size = xfer.size /\ xfer'.pos = xfer.pos /\ xfer'.chunk = xfer.chunk
  BY AppKeepsXfer DEF RoomInv, Types, XferType
<1>. QED BY <1>1, <1>2 DEF AppTurn, RoomInv, Types, Room, HostType, TxFree, txRing

LEMMA LineRequests ==
  ASSUME NEW c, c.size \in Nat
  PROVE  Requests(Line(c))
<1>1. <<c, Unit(Lf)>> \in Seq({c, Unit(Lf)}) /\ <<c>> \in Seq({c})
  OBVIOUS
<1>2. IsSeq(<<c, Unit(Lf)>>) /\ IsSeq(<<c>>)
  BY <1>1, SeqIs
<1>3. CASE c.eol = "cr"
  BY <1>2, <1>3, RepliesAre DEF Requests, Line
<1>4. CASE c.eol # "cr"
  BY <1>2, <1>4 DEF Requests, Line
<1>. QED BY <1>3, <1>4

LEMMA HostKeeps ==
  ASSUME RoomInv, HostCommand \/ HostSend \/ HostReceive \/ HostGiveUp
  PROVE  RoomInv'
<1>1. CASE HostCommand
  <2>1. PICK k \in Commands, eol \in Eols, n \in Names \cup {Text}, data \in Contents :
          host' = [NoHost EXCEPT !.st = "await", !.cmd = k, !.data = data,
                     !.out = host.out \o Line(Command(k, n, Len(data), eol))]
    BY <1>1 DEF HostCommand
  <2>2. Requests(host.out \o Line(Command(k, n, Len(data), eol)))
    BY ContentsSized, LineRequests, RequestsJoin DEF Command, RoomInv, Types, HostType
  <2>3. HostType'
    BY <2>1, <2>2, ContentsSized DEF HostType, NoHost
  <2>. QED BY <1>1, <2>3 DEF HostCommand, RoomInv, Types, Room, XferType, TxFree, txRing, protocol
<1>2. CASE HostSend
  <2>1. Requests(rx') /\ HostType'
    BY <1>2, RequestsRest, RequestsAppend DEF HostSend, RoomInv, Types, HostType, NoHost
  <2>. QED BY <1>2, <2>1 DEF HostSend, RoomInv, Types, Room, XferType, TxFree, txRing, protocol
<1>3. CASE HostReceive
  <2>1. Replies(tx') /\ txUsed' = txUsed - Width(Head(tx)) /\ Width(Head(tx)) \in Nat /\ Whole(Head(tx))
    BY <1>3, RepliesRest DEF HostReceive, RoomInv, Types, Whole
  <2>2. HostType'
    <3>1. CASE host' = host
      BY <3>1 DEF RoomInv, Types, HostType
    <3>2. CASE host.need > 0 /\ \E g : host' = [host EXCEPT !.got = g, !.need = host.need - 1]
      BY <3>2 DEF RoomInv, Types, HostType, NoHost
    <3>3. CASE host' = [host EXCEPT !.out = @ \o [i \in DOMAIN host.data |-> Unit(host.data[i])]]
      <4> DEFINE u == [i \in DOMAIN host.data |-> Unit(host.data[i])]
      <4>1. Len(host.data) \in Nat /\ DOMAIN host.data = 1 .. Len(host.data)
        BY SeqKnown DEF RoomInv, Types, HostType
      <4>2. u = [i \in 1 .. Len(host.data) |-> u[i]] /\ \A i \in 1 .. Len(host.data) : u[i].k = "unit"
        BY <4>1 DEF Unit
      <4> HIDE DEF u
      <4>3. Requests(u)
        BY <4>1, <4>2, UnitsAre
      <4>4. Requests(host.out \o u)
        BY <4>3, RequestsJoin DEF RoomInv, Types, HostType
      <4>5. host' = [host EXCEPT !.out = host.out \o u]
        BY <3>3 DEF u
      <4>. QED BY <4>4, <4>5 DEF RoomInv, Types, HostType, NoHost
    <3>4. CASE Head(tx).k = "DATA" /\ host' = [host EXCEPT !.need = Head(tx).size]
      BY <2>1, <3>4 DEF RoomInv, Types, HostType, NoHost, Whole
    <3>5. CASE host' = [host EXCEPT !.st = "idle"]
      BY <3>5 DEF RoomInv, Types, HostType, NoHost
    <3>6. \/ host' = host
          \/ host.need > 0 /\ \E g : host' = [host EXCEPT !.got = g, !.need = host.need - 1]
          \/ host' = [host EXCEPT !.out = @ \o [i \in DOMAIN host.data |-> Unit(host.data[i])]]
          \/ Head(tx).k = "DATA" /\ host' = [host EXCEPT !.need = Head(tx).size]
          \/ host' = [host EXCEPT !.st = "idle"]
      <4>1. CASE host.st # "idle" /\ host.need > 0
        BY <1>3, <4>1 DEF HostReceive
      <4>2. CASE ~(host.st # "idle" /\ host.need > 0)
        BY <1>3, <4>2, Zenon DEF HostReceive
      <4>. QED BY <4>1, <4>2
    <3>. QED BY <3>1, <3>2, <3>3, <3>4, <3>5, <3>6
  <2>3. TxFree' >= TxFree /\ txUsed' \in Int
    BY <2>1, Widths DEF RoomInv, Types, TxFree
  <2>4. ERR.w = 2 /\ TxFree \in Int /\ TxFree' \in Int
    BY RepliesAre, <2>3, Widths DEF TxFree, RoomInv, Types
  <2>. QED BY <1>3, <2>1, <2>2, <2>3, <2>4 DEF HostReceive, RoomInv, Types, Room, XferType, protocol
<1>4. CASE HostGiveUp
  <2>1. PICK out \in {<<>>, host.out} : host' = [host EXCEPT !.st = "idle", !.out = out, !.need = 0]
    BY <1>4 DEF HostGiveUp
  <2>2. HostType'
    BY <2>1, EmptyIs DEF HostType, RoomInv, Types, NoHost, Requests
  <2>. QED BY <1>4, <2>2 DEF HostGiveUp, RoomInv, Types, Room, XferType, TxFree, txRing, protocol
<1>. QED BY <1>1, <1>2, <1>3, <1>4

LEMMA RoomNext == RoomInv /\ [Next]_vars => RoomInv'
<1> SUFFICES ASSUME RoomInv, [Next]_vars PROVE RoomInv'
  OBVIOUS
<1>1. CASE ProcessStep
  BY <1>1, LineStepKeeps, ListStepKeeps, RecvStepKeeps, SendTakeKeeps, SendTimeoutKeeps, SendFinishKeeps
     DEF ProcessStep, Steps
<1>2. CASE ProcessEnd \/ AppTurn
  BY <1>2, ProcessEndKeeps, AppTurnKeeps
<1>3. CASE Wait \/ UNCHANGED vars
  BY <1>3 DEF Wait, vars, RoomInv, Types, Room, XferType, HostType, TxFree, txRing
<1>4. CASE HostCommand \/ HostSend \/ HostReceive \/ HostGiveUp
  BY <1>4, HostKeeps
<1>. QED BY <1>1, <1>2, <1>3, <1>4 DEF Next, MainLoop

LEMMA RoomAlways == Spec => []RoomInv
BY RoomInit, RoomNext, PTL DEF Spec

(* No reply is ever cut off, whenever the PC gives up and whatever it sends*)
(* then: a SEND only begins with room for two replies, so that the one for *)
(* its time-out, which does not look, fits too.                            *)
THEOREM RepliesFit == Spec => []RepliesWhole
<1>1. RoomInv => RepliesWhole
  BY SeqKnown DEF RoomInv, Types, Replies, Whole, RepliesWhole
<1>. QED BY <1>1, RoomAlways, PTL

-----------------------------------------------------------------------------
(* The conversation with a PC that does not give up.  Wire is all that is  *)
(* on its way to the protocol, Pending the same without the '\n' that will *)
(* be dropped.                                                             *)
Wire == rx \o host.out
Pending == IF skipLf THEN Tail(Wire) ELSE Wire

WireInv == skipLf \in BOOLEAN /\ (skipLf => Wire # <<>> /\ Wire[1] = Unit(Lf))
LineInv == WireInv /\ junk = FALSE /\ quiet = FALSE /\ giveups = 0

(* A command is on its way.                                                *)
Asked ==
  /\ st = "LINE" /\ tx = <<>> /\ host.need = 0 /\ host.cmd \in Commands
  /\ \E n, eol : Pending = Line(Command(host.cmd, n, Len(host.data), eol))

Listing ==
  st = "LIST" /\ Pending = <<>> /\ host.need = 0 /\ \A i \in 1 .. Len(tx) : tx[i].k = "entry"

(* A RECV: what the PC has been promised and has not got, and how much of  *)
(* it is in the ring.                                                      *)
Header == tx # <<>> /\ tx[1].k = "DATA"
Owed == IF Header THEN tx[1].size ELSE host.need
Have == IF Header THEN Len(tx) - 1 ELSE Len(tx)
OneHeader == (Header => host.need = 0) /\ \A i \in 2 .. Len(tx) : tx[i].k # "DATA"

Delivering ==
  /\ st = "RECV" /\ Pending = <<>> /\ OneHeader
  /\ xfer.pos <= xfer.size /\ Owed - Have = xfer.size - xfer.pos

(* A SEND, before and after the PC knows that it may.                      *)
Inviting ==
  /\ st = "SEND" /\ Pending = <<>> /\ host.need = 0
  /\ Len(tx) = 1 /\ tx[1] = READY /\ xfer.pos = 0 /\ xfer.size = Len(host.data)
Taking ==
  /\ st = "SEND" /\ tx = <<>> /\ host.need = 0
  /\ xfer.pos <= xfer.size /\ Len(Pending) = xfer.size - xfer.pos

(* The answer is complete: the last reply is the one the PC waits for; or  *)
(* a RECV broke off and will never be.                                     *)
Final(t) == t.k \in {"OK", "ERR"}
Plain == host.need = 0 /\ tx # <<>> /\ Final(tx[Len(tx)]) /\ \A i \in 1 .. Len(tx) - 1 : tx[i].k = "entry"
Invited == host.need = 0 /\ Len(host.data) = 0 /\ Len(tx) = 2 /\ tx[1] = READY /\ Final(tx[2])
Delivered == OneHeader /\ Have = Owed + 1 /\ Final(tx[Len(tx)])
BrokenOff == OneHeader /\ Have < Owed
Answered == st = "LINE" /\ Pending = <<>> /\ (Plain \/ Invited \/ Delivered \/ BrokenOff)

Idle == st = "LINE" /\ tx = <<>> /\ Pending = <<>>

TalkInv ==
  /\ LineInv
  /\ host.st = "idle" => Idle
  /\ host.st # "idle" => Asked \/ Listing \/ Delivering \/ Inviting \/ Taking \/ Answered

LEMMA WireIs ==
  ASSUME RoomInv, LineInv
  PROVE  /\ IsSeq(Wire) /\ Len(Wire) = Len(rx) + Len(host.out) /\ Len(rx) \in Nat /\ Len(host.out) \in Nat
         /\ IsSeq(rx) /\ IsSeq(host.out)
         /\ \A i \in 1 .. Len(rx) + Len(host.out) :
              Wire[i] = IF i <= Len(rx) THEN rx[i] ELSE host.out[i - Len(rx)]
         /\ IsSeq(Pending) /\ Len(Pending) \in Nat
         /\ skipLf => Len(Wire) = Len(Pending) + 1 /\ \A i \in 1 .. Len(Pending) : Pending[i] = Wire[i + 1]
<1>1. IsSeq(rx) /\ IsSeq(host.out)
  BY DEF RoomInv, Types, HostType, Requests
<1>2. /\ IsSeq(Wire) /\ Len(Wire) = Len(rx) + Len(host.out) /\ Len(rx) \in Nat /\ Len(host.out) \in Nat
      /\ \A i \in 1 .. Len(rx) + Len(host.out) :
              Wire[i] = IF i <= Len(rx) THEN rx[i] ELSE host.out[i - Len(rx)]
  BY <1>1, JoinIs, SeqKnown DEF Wire
<1>3. CASE skipLf
  <2>1. Wire # <<>> /\ Pending = Tail(Wire)
    BY <1>3 DEF LineInv, WireInv, Pending
  <2>. QED BY <1>1, <1>2, <2>1, TailIs
<1>4. CASE ~skipLf
  BY <1>1, <1>2, <1>4 DEF Pending
<1>. QED BY <1>3, <1>4

(* What rx_take() can take is the beginning of what is pending.            *)
LEMMA TakeIs ==
  ASSUME RoomInv, LineInv
  PROVE  /\ IsSeq(RxTake) /\ Len(RxTake) \in Nat /\ Len(RxTake) <= Len(Pending)
         /\ skipLf /\ rx # <<>> => RxTake \o host.out = Pending
         /\ ~skipLf => RxTake = rx
         /\ RxTake # <<>> =>
              /\ Len(Pending) = Len(RxTake) + Len(host.out)
              /\ \A i \in 1 .. Len(Pending) :
                   Pending[i] = IF i <= Len(RxTake) THEN RxTake[i] ELSE host.out[i - Len(RxTake)]
<1>1. CASE ~skipLf
  <2>1. RxTake = rx /\ Pending = Wire
    BY <1>1 DEF RxTake, Pending
  <2>. QED BY <1>1, <2>1, WireIs
<1>2. CASE skipLf /\ rx = <<>>
  <2>1. RxTake = <<>>
    BY <1>2 DEF RxTake
  <2>. QED BY <1>2, <2>1, EmptyIs, WireIs
<1>3. CASE skipLf /\ rx # <<>>
  <2>1. Len(rx) \in Nat \ {0} /\ rx[1] = Unit(Lf)
    <3>1. Len(rx) \in Nat \ {0}
      BY <1>3, WireIs, TailIs
    <3>2. Wire[1] = rx[1]
      BY <3>1, WireIs
    <3>3. Wire[1] = Unit(Lf)
      BY <1>3 DEF LineInv, WireInv
    <3>. QED BY <3>1, <3>2, <3>3
  <2>2. RxTake = Tail(rx)
    BY <1>3, <2>1, WireIs, TailIs DEF RxTake
  <2>3. /\ IsSeq(RxTake) /\ Len(RxTake) = Len(rx) - 1
        /\ \A i \in 1 .. Len(rx) - 1 : RxTake[i] = rx[i + 1]
    BY <1>3, <2>2, WireIs, TailIs
  <2>4. /\ IsSeq(RxTake \o host.out) /\ Len(RxTake \o host.out) = Len(RxTake) + Len(host.out)
        /\ \A i \in 1 .. Len(RxTake) + Len(host.out) :
             (RxTake \o host.out)[i] = IF i <= Len(RxTake) THEN RxTake[i] ELSE host.out[i - Len(RxTake)]
    BY <2>3, WireIs, JoinIs
  <2>5. Len(Pending) = Len(RxTake) + Len(host.out)
    BY <1>3, <2>3, WireIs
  <2>6. ASSUME NEW i \in 1 .. Len(Pending) PROVE Pending[i] = (RxTake \o host.out)[i]
    <3>1. Pending[i] = Wire[i + 1] /\ i + 1 \in 1 .. Len(rx) + Len(host.out)
      BY <1>3, WireIs
    <3>2. Wire[i + 1] = IF i + 1 <= Len(rx) THEN rx[i + 1] ELSE host.out[i + 1 - Len(rx)]
      BY <3>1, WireIs
    <3>3. CASE i + 1 <= Len(rx)
      BY <2>1, <2>3, <2>4, <2>5, <3>1, <3>2, <3>3, WireIs
    <3>4. CASE ~(i + 1 <= Len(rx))
      <4>1. ~(i <= Len(RxTake)) /\ i - Len(RxTake) = i + 1 - Len(rx)
        BY <2>1, <2>3, <3>4
      <4>. QED BY <2>4, <2>5, <3>1, <3>2, <3>4, <4>1
    <3>. QED BY <3>3, <3>4
  <2>7. RxTake \o host.out = Pending
    <3>1. IsSeq(RxTake \o host.out) /\ IsSeq(Pending) /\ Len(Pending) = Len(RxTake \o host.out)
      BY <2>4, <2>5, WireIs
    <3>. QED BY ONLY <2>6, <3>1, SameSeq
  <2>8. Len(RxTake) \in Nat /\ Len(RxTake) <= Len(Pending)
    BY <2>1, <2>3, <2>5, WireIs
  <2>. QED BY <1>3, <2>3, <2>4, <2>5, <2>6, <2>7, <2>8
<1>. QED BY <1>1, <1>2, <1>3

JoinOf(p, r, o) == \A i \in 1 .. Len(p) : p[i] = IF i <= Len(r) THEN r[i] ELSE o[i - Len(r)]
CutIs(s, p, n) == IsSeq(s) /\ Len(s) = Len(p) - n /\ \A i \in 1 .. Len(p) - n : s[i] = p[n + i]
LEMMA CutJoin ==
  ASSUME NEW r, NEW o, NEW p, IsSeq(r), IsSeq(o), NEW n \in 0 .. Len(r), Len(p) = Len(r) + Len(o),
         JoinOf(p, r, o), NEW s, s = SubSeq(r, n + 1, Len(r)) \o o
  PROVE  CutIs(s, p, n)
<1> DEFINE c == SubSeq(r, n + 1, Len(r))
<1>1. Len(r) \in Nat /\ Len(o) \in Nat
  BY SeqKnown
<1>2. IsSeq(c) /\ Len(c) = Len(r) - n /\ \A i \in 1 .. Len(r) - n : c[i] = r[n + i]
  BY SubIs
<1>0. s = c \o o
  OBVIOUS
<1> HIDE DEF c
<1>3. /\ IsSeq(s) /\ Len(s) = Len(c) + Len(o)
      /\ \A i \in 1 .. Len(c) + Len(o) : s[i] = IF i <= Len(c) THEN c[i] ELSE o[i - Len(c)]
  <2>1. /\ IsSeq(c \o o) /\ Len(c \o o) = Len(c) + Len(o)
        /\ \A i \in 1 .. Len(c) + Len(o) : (c \o o)[i] = IF i <= Len(c) THEN c[i] ELSE o[i - Len(c)]
    BY ONLY IsSeq(o), <1>2, JoinIs
  <2>. QED BY ONLY <1>0, <2>1
<1>4. Len(s) = Len(p) - n
  BY <1>1, <1>2, <1>3
<1>5. ASSUME NEW i \in 1 .. Len(p) - n PROVE s[i] = p[n + i]
  <2>1. n + i \in 1 .. Len(p) /\ i \in 1 .. Len(c) + Len(o)
    BY <1>1, <1>2
  <2>2. CASE i <= Len(c)
    BY <1>1, <1>2, <1>3, <2>1, <2>2 DEF JoinOf
  <2>3. CASE ~(i <= Len(c))
    <3>1. ~(n + i <= Len(r)) /\ n + i - Len(r) = i - Len(c)
      BY <1>1, <1>2, <2>3
    <3>2. s[i] = o[i - Len(c)]
      BY <1>3, <2>1, <2>3
    <3>3. p[n + i] = o[n + i - Len(r)]
      BY <2>1, <3>1 DEF JoinOf
    <3>. QED BY <3>1, <3>2, <3>3
  <2>. QED BY <2>2, <2>3
<1>. QED BY <1>3, <1>4, <1>5 DEF CutIs

(* n tokens are taken.                                                     *)
LEMMA Taken ==
  ASSUME RoomInv, LineInv, RxTake # <<>>, NEW n \in 1 .. Len(RxTake),
         rx' = SubSeq(RxTake, n + 1, Len(RxTake)), UNCHANGED host
  PROVE  /\ IsSeq(Wire') /\ Len(Wire') = Len(Pending) - n
         /\ \A i \in 1 .. Len(Pending) - n : Wire'[i] = Pending[n + i]
<1>1. Wire' = SubSeq(RxTake, n + 1, Len(RxTake)) \o host.out
  BY DEF Wire
<1>2. /\ IsSeq(RxTake) /\ IsSeq(host.out) /\ Len(RxTake) \in Nat /\ Len(Pending) = Len(RxTake) + Len(host.out)
      /\ \A i \in 1 .. Len(Pending) :
           Pending[i] = IF i <= Len(RxTake) THEN RxTake[i] ELSE host.out[i - Len(RxTake)]
  BY TakeIs, WireIs
<1>3. n \in 0 .. Len(RxTake)
  BY <1>2
<1>4. JoinOf(Pending, RxTake, host.out)
  BY <1>2 DEF JoinOf
<1>5. CutIs(Wire', Pending, n)
  BY ONLY <1>1, <1>2, <1>3, <1>4, CutJoin
<1>. QED BY <1>5 DEF CutIs

(* Where nothing is pending, nothing is taken.                             *)
LEMMA NothingToTake ==
  ASSUME RoomInv, LineInv, Pending = <<>>
  PROVE  RxTake = <<>>
BY TakeIs, EmptyIs

LEMMA WireKept ==
  ASSUME UNCHANGED <<rx, skipLf, junk, quiet, giveups>>, host'.out = host.out
  PROVE  Wire' = Wire /\ Pending' = Pending /\ (LineInv => LineInv')
BY DEF Wire, Pending, LineInv, WireInv

-----------------------------------------------------------------------------
(* The steps of the protocol keep the conversation.                        *)
LEMMA LineIs ==
  ASSUME NEW c
  PROVE  /\ IsSeq(Line(c)) /\ Line(c)[1] = c /\ Line(c) # <<>>
         /\ c.eol = "cr" => Len(Line(c)) = 2 /\ Line(c)[2] = Unit(Lf)
         /\ c.eol # "cr" => Len(Line(c)) = 1
<1>1. /\ IsSeq(<<c, Unit(Lf)>>) /\ Len(<<c, Unit(Lf)>>) = 2 /\ <<c, Unit(Lf)>>[2] = Unit(Lf)
      /\ <<c, Unit(Lf)>>[1] = c
  <2>1. <<c, Unit(Lf)>> \in Seq({c, Unit(Lf)})
    OBVIOUS
  <2>. QED BY <2>1, SeqIs
<1>2. IsSeq(<<c>>) /\ Len(<<c>>) = 1 /\ <<c>>[1] = c
  <2>1. <<c>> \in Seq({c})
    OBVIOUS
  <2>. QED BY <2>1, SeqIs
<1>3. CASE c.eol = "cr"
  BY <1>1, <1>3, EmptyIs DEF Line
<1>4. CASE c.eol # "cr"
  BY <1>2, <1>4, EmptyIs DEF Line
<1>. QED BY <1>3, <1>4

Talk == Asked \/ Listing \/ Delivering \/ Inviting \/ Taking \/ Answered

(* A line is only taken where one was asked for, and then nothing of it is *)
(* pending any more.                                                       *)
LEMMA LineTaken ==
  ASSUME RoomInv, TalkInv, LineStep, UNCHANGED <<host, giveups>>
  PROVE  /\ host.st # "idle" /\ Asked /\ WireInv' /\ Pending' = <<>> /\ junk' = FALSE
         /\ \E c : c.k = host.cmd /\ c.size = Len(host.data) /\ HandleCommand(c)
<1>1. st = "LINE" /\ RxTake # <<>> /\ rx' = Tail(RxTake) /\ LineInv /\ junk = FALSE
  BY DEF LineStep, TalkInv, LineInv
<1>2. Pending # <<>>
  BY <1>1, NothingToTake
<1>3. host.st # "idle" /\ Asked
  BY <1>1, <1>2 DEF TalkInv, Idle, Listing, Delivering, Inviting, Taking, Answered
<1>4. PICK n, eol : Pending = Line(Command(host.cmd, n, Len(host.data), eol))
  BY <1>3 DEF Asked
<1> DEFINE c == Command(host.cmd, n, Len(host.data), eol)
<1>5. c.k = host.cmd /\ c.size = Len(host.data) /\ c.eol = eol /\ c.k # "unit"
  BY <1>3, PcAssumption DEF Asked, Command
<1> HIDE DEF c
<1>6. Head(RxTake) = c /\ Len(RxTake) >= 1 /\ Len(RxTake) \in Nat /\ IsSeq(RxTake)
  <2>1. Head(RxTake) = RxTake[1] /\ Len(RxTake) \in Nat \ {0} /\ IsSeq(RxTake)
    BY <1>1, TakeIs, TailIs
  <2>2. Pending[1] = RxTake[1]
    BY <1>1, <2>1, TakeIs, WireIs
  <2>3. Pending[1] = c
    BY <1>4, LineIs DEF c
  <2>. QED BY <2>1, <2>2, <2>3
<1>7. skipLf' = (c.eol = "cr") /\ junk' = FALSE /\ HandleCommand(c)
  <2>1. c # Unit(Lf)
    BY <1>5, RepliesAre
  <2>. QED BY <1>1, <1>5, <1>6, <2>1 DEF LineStep
<1>8. rx' = SubSeq(RxTake, 1 + 1, Len(RxTake))
  <2>1. /\ IsSeq(Tail(RxTake)) /\ Len(Tail(RxTake)) = Len(RxTake) - 1
        /\ \A i \in 1 .. Len(RxTake) - 1 : Tail(RxTake)[i] = RxTake[i + 1]
    BY <1>1, <1>6, TailIs
  <2>2. /\ IsSeq(SubSeq(RxTake, 1 + 1, Len(RxTake))) /\ Len(SubSeq(RxTake, 1 + 1, Len(RxTake))) = Len(RxTake) - 1
        /\ \A i \in 1 .. Len(RxTake) - 1 : SubSeq(RxTake, 1 + 1, Len(RxTake))[i] = RxTake[1 + i]
    <3>1. 1 \in 0 .. Len(RxTake)
      BY <1>6
    <3>. QED BY ONLY <1>6, <3>1, SubIs
  <2>3. Tail(RxTake) = SubSeq(RxTake, 1 + 1, Len(RxTake))
    BY <1>6, <2>1, <2>2, SameSeq
  <2>. QED BY <1>1, <2>3
<1>9. /\ IsSeq(Wire') /\ Len(Wire') = Len(Pending) - 1
      /\ \A i \in 1 .. Len(Pending) - 1 : Wire'[i] = Pending[1 + i]
  <2>1. 1 \in 1 .. Len(RxTake)
    BY <1>6
  <2>. QED BY <1>1, <1>8, <2>1, Taken
<1>10. CASE eol = "cr"
  <2>1. Len(Pending) = 2 /\ Pending[2] = Unit(Lf)
    BY <1>4, <1>5, <1>10, LineIs DEF c
  <2>2. Len(Wire') = 1 /\ Wire'[1] = Unit(Lf) /\ Wire' # <<>>
    BY <1>9, <2>1, EmptyIs
  <2>3. Tail(Wire') = <<>>
    <3>1. ASSUME NEW w, IsSeq(w), Len(w) = 1 PROVE Tail(w) = <<>>
      <4>1. w # <<>>
        BY <3>1, EmptyIs
      <4>2. IsSeq(Tail(w)) /\ Len(Tail(w)) = 0
        BY <3>1, <4>1, TailIs
      <4>. QED BY <4>2, EmptyIs
    <3>. QED BY ONLY <1>9, <2>2, <3>1
  <2>. QED BY <1>3, <1>5, <1>7, <1>10, <2>2, <2>3 DEF WireInv, Pending
<1>11. CASE eol # "cr"
  <2>1. Len(Pending) = 1
    BY <1>4, <1>5, <1>11, LineIs DEF c
  <2>2. Wire' = <<>>
    BY <1>9, <2>1, EmptyIs
  <2>. QED BY <1>3, <1>5, <1>7, <1>11, <2>2 DEF WireInv, Pending
<1>. QED BY <1>3, <1>5, <1>7, <1>10, <1>11

(* One reply queued in an empty ring.                                      *)
LEMMA OneReply ==
  ASSUME RoomInv, tx = <<>>, NEW t, Whole(t), Width(t) <= TxFree, Queue(t)
  PROVE  Len(tx') = 1 /\ tx'[1] = t /\ tx' # <<>>
<1>1. tx' = Append(<<>>, t)
  BY Queued DEF RoomInv
<1>. QED BY <1>1, AppendIs, EmptyIs

LEMMA LineTalks ==
  ASSUME RoomInv, TalkInv, LineStep, UNCHANGED <<host, giveups>>
  PROVE  TalkInv'
<1>1. /\ host.st # "idle" /\ Asked /\ WireInv' /\ Pending' = <<>> /\ junk' = FALSE
      /\ tx = <<>> /\ host.need = 0 /\ st = "LINE"
  BY LineTaken DEF Asked
<1>2. PICK c : c.k = host.cmd /\ c.size = Len(host.data) /\ HandleCommand(c)
  BY LineTaken
<1>3. TxFree >= ReplyMax /\ TxFree \in Int /\ quiet = FALSE /\ giveups = 0 /\ UNCHANGED <<host, giveups>>
  BY Widths DEF LineStep, LineRoom, TxFree, RoomInv, Types, TalkInv, LineInv
<1>4. ASSUME NEW t, t \in {OK, ERR}, Queue(t), UNCHANGED <<st, quiet>> PROVE LineInv' /\ Answered'
  <2>1. Whole(t) /\ Width(t) <= TxFree /\ Final(t)
    BY <1>3, <1>4, RepliesAre, Widths DEF Final
  <2>2. Len(tx') = 1 /\ tx'[1] = t /\ tx' # <<>>
    BY <1>1, <1>4, <2>1, OneReply
  <2>. QED BY <1>1, <1>3, <1>4, <2>1, <2>2 DEF LineInv, Answered, Plain
<1>5. CASE HandleList
  BY <1>1, <1>3, <1>5, EmptyIs DEF HandleList, txRing, Listing, LineInv, TalkInv
<1>6. CASE HandleRecv(c)
  <2>1. CASE ~FS!Has(fs, c.name)
    BY <1>1, <1>3, <1>4, <1>6, <2>1 DEF HandleRecv, TalkInv
  <2>2. CASE FS!Has(fs, c.name)
    <3> DEFINE size == fs.dir[c.name].size
    <3>1. size \in Nat
      BY <2>2 DEF RoomInv, Types, FsType, FS!Has
    <3>2. /\ xfer' = [NoXfer EXCEPT !.name = c.name, !.area = fs.area,
                                    !.off = fs.dir[c.name].off, !.size = size,
                                    !.was = FS!Body(fs, c.name)]
          /\ Queue(DATA(size)) /\ st' = "RECV" /\ UNCHANGED quiet
      BY <1>6, <2>2 DEF HandleRecv
    <3> HIDE DEF size
    <3>3. Len(tx') = 1 /\ tx'[1] = DATA(size) /\ tx' # <<>> /\ tx'[1].k = "DATA" /\ tx'[1].size = size
      BY <1>1, <1>3, <3>1, <3>2, OneReply, RepliesAre, Widths
    <3>4. xfer'.size = size /\ xfer'.pos = 0
      BY <3>2 DEF NoXfer
    <3>5. Delivering'
      BY <1>1, <1>3, <3>1, <3>2, <3>3, <3>4 DEF Delivering, Owed, Have, OneHeader, Header
    <3>. QED BY <1>1, <1>3, <3>2, <3>5 DEF LineInv, TalkInv
  <2>. QED BY <2>1, <2>2
<1>7. CASE HandleSend(c)
  <2>1. PICK r \in BeginResults(c) :
          IF r.ok
          THEN /\ xfer' = [NoXfer EXCEPT !.name = c.name, !.size = c.size]
               /\ quiet' = FALSE /\ st' = "SEND" /\ Queue(READY) /\ UNCHANGED list
          ELSE Queue(ERR) /\ UNCHANGED <<st, list, xfer, quiet>>
    BY <1>7 DEF HandleSend
  <2>2. CASE r.ok
    <3>1. Len(tx') = 1 /\ tx'[1] = READY
      BY <1>1, <1>3, <2>1, <2>2, OneReply, RepliesAre, Widths
    <3>2. xfer'.size = Len(host.data) /\ xfer'.pos = 0
      BY <1>2, <2>1, <2>2 DEF NoXfer
    <3>. QED BY <1>1, <1>3, <2>1, <2>2, <3>1, <3>2 DEF Inviting, LineInv, TalkInv
  <2>3. CASE ~r.ok
    BY <1>1, <1>3, <1>4, <2>1, <2>3 DEF TalkInv
  <2>. QED BY <2>2, <2>3
<1>8. CASE HandleDel(c)
  <2>1. PICK r : Queue(IF r.ok THEN OK ELSE ERR) /\ UNCHANGED <<st, quiet>>
    BY <1>8 DEF HandleDel
  <2>2. (IF r.ok THEN OK ELSE ERR) \in {OK, ERR}
    OBVIOUS
  <2>. QED BY <1>1, <1>3, <1>4, <2>1, <2>2 DEF TalkInv
<1>9. CASE Queue(ERR) /\ UNCHANGED <<st, list, xfer, quiet, fs>>
  BY <1>1, <1>3, <1>4, <1>9 DEF TalkInv
<1>. QED BY <1>2, <1>5, <1>6, <1>7, <1>8, <1>9 DEF HandleCommand

(* A step that leaves what is pending as it is.                            *)
LEMMA Quietly ==
  ASSUME TalkInv, UNCHANGED <<rx, skipLf, junk, quiet, giveups>>, host'.out = host.out
  PROVE  LineInv' /\ Pending' = Pending
BY WireKept DEF TalkInv

LEMMA Appended ==
  ASSUME RoomInv, NEW t, Whole(t), Width(t) <= TxFree, Queue(t)
  PROVE  /\ Len(tx) \in Nat /\ Len(tx') = Len(tx) + 1 /\ tx' # <<>> /\ tx'[Len(tx) + 1] = t
         /\ \A i \in 1 .. Len(tx) : tx'[i] = tx[i]
<1>1. tx' = Append(tx, t) /\ IsSeq(tx) /\ Len(tx) \in Nat
  BY Queued, SeqKnown DEF RoomInv, Types, Replies
<1>2. /\ IsSeq(Append(tx, t)) /\ Len(Append(tx, t)) = Len(tx) + 1
      /\ \A i \in 1 .. Len(tx) : Append(tx, t)[i] = tx[i]
      /\ Append(tx, t)[Len(tx) + 1] = t
  BY <1>1, AppendIs
<1>3. Append(tx, t) # <<>>
  BY <1>1, <1>2, EmptyIs
<1>. QED BY <1>1, <1>2, <1>3

LEMMA ListTalks ==
  ASSUME RoomInv, TalkInv, ListStep, UNCHANGED <<host, giveups>>
  PROVE  TalkInv'
<1>1. host.st # "idle" /\ Listing
  BY DEF ListStep, TalkInv, Idle, Asked, Delivering, Inviting, Taking, Answered
<1>2. LineInv' /\ Pending' = <<>> /\ UNCHANGED host
  BY <1>1, Quietly DEF ListStep, Listing
<1>3. CASE list = <<>>
  <2>1. Queue(OK) /\ Width(OK) <= TxFree /\ st' = "LINE"
    BY <1>3, RepliesAre DEF ListStep
  <2>2. /\ Len(tx) \in Nat /\ Len(tx') = Len(tx) + 1 /\ tx' # <<>> /\ tx'[Len(tx) + 1] = OK
        /\ \A i \in 1 .. Len(tx) : tx'[i] = tx[i]
    BY <2>1, Appended, RepliesAre
  <2>3. Plain'
    BY <1>1, <1>2, <2>2, RepliesAre DEF Plain, Final, Listing
  <2>. QED BY <1>1, <1>2, <2>1, <2>3 DEF Answered, TalkInv
<1>4. CASE list # <<>>
  <2> DEFINE e == Entry(Head(list))
  <2>1. Queue(e) /\ Width(e) <= TxFree /\ st' = st
    BY <1>4 DEF ListStep
  <2>2. Whole(e) /\ e.k = "entry"
    BY RepliesAre
  <2> HIDE DEF e
  <2>3. /\ Len(tx) \in Nat /\ Len(tx') = Len(tx) + 1 /\ tx'[Len(tx) + 1] = e
        /\ \A i \in 1 .. Len(tx) : tx'[i] = tx[i]
    BY <2>1, <2>2, Appended
  <2>4. \A i \in 1 .. Len(tx') : tx'[i].k = "entry"
    BY <1>1, <2>2, <2>3 DEF Listing
  <2>. QED BY <1>1, <1>2, <2>1, <2>4 DEF Listing, TalkInv
<1>. QED BY <1>3, <1>4

LEMMA RecvTalks ==
  ASSUME RoomInv, TalkInv, RecvStep, UNCHANGED <<host, giveups>>
  PROVE  TalkInv'
<1>1. /\ host.st # "idle" /\ Delivering
      /\ xfer.pos \in Nat /\ xfer.size \in Nat /\ host.need \in Nat
  BY DEF RecvStep, TalkInv, Idle, Asked, Listing, Inviting, Taking, Answered,
         RoomInv, Types, XferType, HostType
<1>2. LineInv' /\ Pending' = <<>> /\ UNCHANGED host
  BY <1>1, Quietly DEF RecvStep, Delivering
<1>3. IsSeq(tx) /\ Len(tx) \in Nat /\ (tx = <<>> <=> Len(tx) = 0)
  BY SeqKnown, EmptyIs DEF RoomInv, Types, Replies
<1>4. Header => tx[1].size \in Nat /\ Len(tx) >= 1
  BY <1>3 DEF Header, RoomInv, Types, Replies, Whole
<1>5. CASE xfer.pos >= xfer.size /\ TxFree >= OK.w /\ Queue(OK) /\ st' = "LINE"
  <2>1. /\ Len(tx') = Len(tx) + 1 /\ tx' # <<>> /\ tx'[Len(tx) + 1] = OK
        /\ \A i \in 1 .. Len(tx) : tx'[i] = tx[i]
    BY <1>5, Appended, RepliesAre
  <2>2. Header' <=> Header
    BY <1>3, <2>1, RepliesAre DEF Header
  <2>3. Owed' = Owed /\ Have' = Have + 1
    BY <1>2, <1>3, <1>4, <2>1, <2>2 DEF Owed, Have, Header
  <2>4. OneHeader'
    <3>1. Header' => host'.need = 0
      BY <1>1, <1>2, <2>2 DEF OneHeader, Delivering
    <3>2. ASSUME NEW i \in 2 .. Len(tx') PROVE tx'[i].k # "DATA"
      <4>1. CASE i = Len(tx) + 1
        BY <2>1, <4>1, RepliesAre
      <4>2. CASE i # Len(tx) + 1
        BY <1>1, <1>3, <2>1, <4>2 DEF OneHeader, Delivering
      <4>. QED BY <4>1, <4>2
    <3>. QED BY <3>1, <3>2 DEF OneHeader
  <2>5. Owed \in Int /\ Have \in Int
    BY <1>1, <1>3, <1>4 DEF Owed, Have
  <2>6. Have = Owed
    BY <1>1, <1>5, <2>5 DEF Delivering
  <2>7. Delivered'
    BY <2>1, <2>3, <2>4, <2>5, <2>6, RepliesAre DEF Delivered, Final
  <2>. QED BY <1>1, <1>2, <1>5, <2>7 DEF Answered, TalkInv
<1>6. CASE xfer.pos < xfer.size /\ FS!InArea(fs, xfer.area)
  <2>1. PICK n \in Nat \ {0} : \E u :
           /\ n <= xfer.size - xfer.pos
           /\ IsSeq(u) /\ Len(u) = n /\ \A i \in 1 .. n : u[i].k = "unit"
           /\ tx' = tx \o u /\ xfer' = [xfer EXCEPT !.pos = @ + n] /\ UNCHANGED st
    BY <1>6, RecvChunkIs
  <2>2. PICK u :
           /\ IsSeq(u) /\ Len(u) = n /\ \A i \in 1 .. n : u[i].k = "unit"
           /\ tx' = tx \o u
    BY <2>1
  <2>3. xfer'.pos = xfer.pos + n /\ xfer'.size = xfer.size /\ st' = st /\ n <= xfer.size - xfer.pos
    BY <2>1 DEF NoXfer, RoomInv, Types, XferType
  <2>4. /\ IsSeq(tx') /\ Len(tx') = Len(tx) + n
        /\ \A i \in 1 .. Len(tx) + n : tx'[i] = IF i <= Len(tx) THEN tx[i] ELSE u[i - Len(tx)]
    <3>1. IsSeq(tx) /\ IsSeq(u) /\ Len(u) = n /\ tx' = tx \o u
      BY <1>3, <2>2
    <3>2. /\ IsSeq(tx \o u) /\ Len(tx \o u) = Len(tx) + Len(u)
          /\ \A i \in 1 .. Len(tx) + Len(u) : (tx \o u)[i] = IF i <= Len(tx) THEN tx[i] ELSE u[i - Len(tx)]
      BY ONLY <3>1, JoinIs
    <3>. QED BY ONLY <3>1, <3>2
  <2>5. /\ \A i \in 1 .. Len(tx) : tx'[i] = tx[i]
        /\ \A i \in Len(tx) + 1 .. Len(tx) + n : tx'[i].k = "unit"
        /\ tx' # <<>>
    <3>1. \A i \in 1 .. Len(tx) : tx'[i] = tx[i]
      BY <1>3, <2>4
    <3>2. ASSUME NEW i \in Len(tx) + 1 .. Len(tx) + n PROVE tx'[i].k = "unit"
      <4>1. i \in 1 .. Len(tx) + n /\ ~(i <= Len(tx)) /\ i - Len(tx) \in 1 .. n
        BY <1>3
      <4>. QED BY <2>2, <2>4, <4>1
    <3>3. tx' # <<>>
      <4>1. Len(tx') # 0
        BY <1>3, <2>4
      <4>. QED BY <4>1, EmptyIs
    <3>. QED BY <3>1, <3>2, <3>3
  <2>6. Header' <=> Header
    <3>1. CASE tx = <<>>
      <4>1. 1 \in Len(tx) + 1 .. Len(tx) + n
        BY <1>3, <3>1
      <4>. QED BY <2>5, <3>1, <4>1 DEF Header
    <3>2. CASE tx # <<>>
      <4>1. 1 \in 1 .. Len(tx)
        BY <1>3, <3>2
      <4>. QED BY <2>5, <3>2, <4>1 DEF Header
    <3>. QED BY <3>1, <3>2
  <2>7. Owed' = Owed /\ Have' = Have + n
    BY <1>2, <1>3, <1>4, <2>4, <2>5, <2>6 DEF Owed, Have, Header
  <2>8. OneHeader'
    <3>1. ASSUME NEW i \in 2 .. Len(tx) + n PROVE tx'[i].k # "DATA"
      <4>1. i \in 2 .. Len(tx) \/ i \in Len(tx) + 1 .. Len(tx) + n
        BY <1>3
      <4>. QED BY <1>1, <1>3, <2>5, <4>1 DEF Delivering, OneHeader
    <3>. QED BY <1>1, <1>2, <2>4, <2>6, <3>1 DEF OneHeader, Delivering
  <2>9. Owed \in Int /\ Have \in Int
    BY <1>1, <1>3, <1>4 DEF Owed, Have
  <2>10. Owed - Have = xfer.size - xfer.pos
    BY <1>1 DEF Delivering
  <2>11. Owed' - Have' = xfer'.size - xfer'.pos /\ xfer'.pos <= xfer'.size
    BY <1>1, <2>3, <2>7, <2>9, <2>10
  <2>. QED BY <1>1, <1>2, <2>3, <2>8, <2>11 DEF Delivering, TalkInv
<1>7. CASE xfer.pos < xfer.size /\ st' = "LINE" /\ UNCHANGED txRing
  <2>1. Owed \in Int /\ Have \in Int /\ Have < Owed
    BY <1>1, <1>3, <1>4, <1>7 DEF Owed, Have, Delivering
  <2>2. BrokenOff'
    BY <1>1, <1>2, <1>7, <2>1 DEF BrokenOff, Delivering, txRing, OneHeader, Header, Owed, Have
  <2>. QED BY <1>1, <1>2, <1>7, <2>2 DEF Answered, TalkInv
<1>. QED BY <1>5, <1>6, <1>7 DEF RecvStep

LEMMA TakeTalks ==
  ASSUME RoomInv, TalkInv, SendTake, UNCHANGED <<host, giveups>>
  PROVE  TalkInv'
<1>1. /\ st = "SEND" /\ RxTake # <<>> /\ LineInv /\ skipLf' = FALSE /\ quiet' = FALSE
      /\ UNCHANGED <<tx, st, junk, host, giveups>>
  BY DEF SendTake, TalkInv, txRing
<1>2. Pending # <<>>
  BY <1>1, NothingToTake
<1>3. host.st # "idle" /\ Taking
  BY <1>1, <1>2 DEF TalkInv, Idle, Asked, Listing, Delivering, Inviting, Answered
<1>4. PICK n \in 1 .. Len(RxTake) :
        /\ n <= xfer.size - xfer.pos /\ rx' = SubSeq(RxTake, n + 1, Len(RxTake))
        /\ xfer'.pos = xfer.pos + n /\ xfer'.size = xfer.size
  BY SendTakeIs
<1>5. IsSeq(Wire') /\ Len(Wire') = Len(Pending) - n
  BY <1>1, <1>4, Taken
<1>6. Pending' = Wire' /\ WireInv'
  BY <1>1 DEF Pending, WireInv
<1>7. n \in Nat /\ xfer.pos \in Nat /\ xfer.size \in Nat /\ Len(Pending) = xfer.size - xfer.pos
  BY <1>1, <1>3, TakeIs DEF RoomInv, Types, XferType, Taking
<1>8. xfer'.pos <= xfer'.size /\ Len(Pending') = xfer'.size - xfer'.pos
  BY <1>4, <1>5, <1>6, <1>7
<1>9. Taking'
  BY <1>1, <1>3, <1>8 DEF Taking
<1>. QED BY <1>1, <1>3, <1>6, <1>9 DEF TalkInv, LineInv

LEMMA FinishTalks ==
  ASSUME RoomInv, TalkInv, SendFinish, UNCHANGED <<host, giveups>>
  PROVE  TalkInv'
<1>1. /\ st = "SEND" /\ st' = "LINE" /\ xfer.pos >= xfer.size /\ xfer.pos \in Nat /\ xfer.size \in Nat
      /\ TxFree >= ReplyMax /\ TxFree \in Int
  BY Widths DEF SendFinish, TxFree, RoomInv, Types, XferType
<1>2. PICK t \in {OK, ERR} : Queue(t)
  BY DEF SendFinish
<1>3. Whole(t) /\ Width(t) <= TxFree /\ Final(t)
  BY <1>1, RepliesAre, Widths DEF Final
<1>4. /\ Len(tx) \in Nat /\ Len(tx') = Len(tx) + 1 /\ tx' # <<>> /\ tx'[Len(tx) + 1] = t
      /\ \A i \in 1 .. Len(tx) : tx'[i] = tx[i]
  BY <1>2, <1>3, Appended
<1>5. host.st # "idle" /\ (Inviting \/ Taking)
  BY <1>1 DEF TalkInv, Idle, Asked, Listing, Delivering, Answered
<1>6. LineInv' /\ Pending' = Pending /\ UNCHANGED host
  BY Quietly DEF SendFinish
<1>7. CASE Inviting
  BY <1>1, <1>3, <1>4, <1>5, <1>6, <1>7 DEF Inviting, Invited, Answered, TalkInv
<1>8. CASE Taking
  <2>1. Len(Pending) = 0 /\ IsSeq(Pending) /\ Len(tx) = 0
    BY <1>1, <1>8, WireIs, EmptyIs DEF Taking, TalkInv
  <2>2. Pending' = <<>>
    BY <1>6, <2>1, EmptyIs
  <2>3. Plain'
    BY <1>3, <1>4, <1>6, <1>8, <2>1 DEF Plain, Taking
  <2>. QED BY <1>1, <1>5, <1>6, <2>2, <2>3 DEF Answered, TalkInv
<1>. QED BY <1>5, <1>7, <1>8

LEMMA ProcessEndTalks ==
  ASSUME RoomInv, TalkInv, ProcessEnd
  PROVE  TalkInv'
<1>1. /\ UNCHANGED <<tx, st, xfer, junk, quiet, host, giveups>> /\ LineInv
      /\ \/ rx' = RxTake /\ skipLf' = SkipStill
         \/ UNCHANGED <<rx, skipLf>>
  BY DEF ProcessEnd, txRing, TalkInv
<1>2. WireInv' /\ Pending' = Pending
  <2>1. CASE UNCHANGED <<rx, skipLf>>
    BY <1>1, <2>1 DEF LineInv, WireInv, Pending, Wire
  <2>2. CASE rx' = RxTake /\ skipLf' = SkipStill /\ skipLf /\ rx # <<>>
    <3>1. Wire' = Pending /\ skipLf' = FALSE
      BY <1>1, <2>2, TakeIs DEF SkipStill, Wire
    <3>. QED BY <3>1 DEF Pending, WireInv
  <2>3. CASE rx' = RxTake /\ skipLf' = SkipStill /\ ~(skipLf /\ rx # <<>>)
    <3>1. UNCHANGED <<rx, skipLf>>
      BY <1>1, <2>3 DEF SkipStill, RxTake, LineInv, WireInv
    <3>. QED BY <2>1, <3>1
  <2>. QED BY <1>1, <2>1, <2>2, <2>3
<1>3. LineInv'
  BY <1>1, <1>2 DEF LineInv
<1>. QED BY <1>1, <1>2, <1>3
     DEF TalkInv, Idle, Asked, Listing, Delivering, Inviting, Taking, Answered, Plain, Invited,
         Delivered, BrokenOff, OneHeader, Have, Owed, Header

(* Nothing of it changes.                                                  *)
LEMMA SameTalk ==
  ASSUME TalkInv, UNCHANGED <<rx, tx, st, junk, skipLf, quiet, host, giveups>>,
         xfer'.size = xfer.size, xfer'.pos = xfer.pos
  PROVE  TalkInv'
<1>1. LineInv' /\ Pending' = Pending
  BY Quietly
<1>. QED BY <1>1
     DEF TalkInv, Idle, Asked, Listing, Delivering, Inviting, Taking, Answered, Plain, Invited,
         Delivered, BrokenOff, OneHeader, Have, Owed, Header

-----------------------------------------------------------------------------
(* The steps of the PC.                                                    *)

LEMMA JoinAssoc ==
  ASSUME NEW s, NEW t, NEW u, IsSeq(s), IsSeq(t), IsSeq(u)
  PROVE  s \o (t \o u) = (s \o t) \o u
<1>1. PICK S : s \in Seq(S) /\ t \in Seq(S)
  BY BothIn
<1>2. PICK T : t \in Seq(T) /\ u \in Seq(T)
  BY BothIn
<1> DEFINE B == S \cup T
<1>3. S \subseteq B /\ T \subseteq B
  OBVIOUS
<1> HIDE DEF B
<1>4. s \in Seq(B) /\ t \in Seq(B)
  BY ONLY <1>1, <1>3, SeqMonotonic
<1>5. u \in Seq(B)
  BY ONLY <1>2, <1>3, SeqMonotonic
<1>. QED BY <1>4, <1>5, ConcatAssociative

LEMMA JoinEmpty ==
  ASSUME NEW t, IsSeq(t)
  PROVE  <<>> \o t = t
<1>1. PICK S : t \in Seq(S)
  BY SeqKnown
<1>. QED BY <1>1

(* A token that goes from the front of one to the end of the other.        *)
LEMMA PassOn ==
  ASSUME NEW r, NEW o, IsSeq(r), IsSeq(o), o # <<>>
  PROVE  Append(r, Head(o)) \o Tail(o) = r \o o
<1> DEFINE h == <<Head(o)>>
           b == Tail(o)
<1>1. PICK S : r \in Seq(S) /\ o \in Seq(S)
  BY BothIn
<1>2. Head(o) \in S /\ b \in Seq(S) /\ h \in Seq(S)
  BY <1>1, HeadTailProperties
<1>3. Append(r, Head(o)) = r \o h
  BY <1>1, <1>2, AppendIsConcat
<1>4. h \o b = o
  BY <1>1
<1>5. (r \o h) \o b = r \o (h \o b)
  BY ONLY <1>1, <1>2, ConcatAssociative
<1>. QED BY <1>3, <1>4, <1>5

(* What the PC sends comes after what is on its way already.               *)
LEMMA WireGrows ==
  ASSUME RoomInv, LineInv, UNCHANGED <<rx, skipLf, junk, quiet, giveups>>,
         NEW t, IsSeq(t), host'.out = host.out \o t
  PROVE  /\ LineInv' /\ IsSeq(Pending') /\ Len(Pending') = Len(Pending) + Len(t)
         /\ Pending = <<>> => Pending' = t
<1>1. Wire' = rx \o (host.out \o t)
  BY DEF Wire
<1>2. IsSeq(rx) /\ IsSeq(host.out) /\ Len(rx) \in Nat /\ Len(host.out) \in Nat /\ Len(t) \in Nat
  BY WireIs, SeqKnown
<1>3. rx \o (host.out \o t) = Wire \o t
  <2>1. rx \o (host.out \o t) = (rx \o host.out) \o t
    <3>1. ASSUME NEW a, NEW b, IsSeq(a), IsSeq(b) PROVE a \o (b \o t) = (a \o b) \o t
      BY <3>1, JoinAssoc
    <3>. QED BY ONLY <1>2, <3>1
  <2>. QED BY <2>1 DEF Wire
<1>4. IsSeq(Wire) /\ Len(Wire) \in Nat /\ IsSeq(Pending) /\ Len(Pending) \in Nat
  BY <1>2, WireIs
<1>5. ASSUME NEW w, IsSeq(w), Len(w) \in Nat, w # <<>>
      PROVE  /\ (w \o t)[1] = w[1] /\ w \o t # <<>> /\ IsSeq(Tail(w \o t))
             /\ Len(Tail(w \o t)) = Len(Tail(w)) + Len(t) /\ (Tail(w) = <<>> => Tail(w \o t) = t)
  <2>1. PICK S : w \in Seq(S) /\ t \in Seq(S)
    BY <1>2, <1>5, BothIn
  <2>2. Tail(w \o t) = Tail(w) \o t /\ (w \o t)[1] = w[1] /\ w \o t # <<>>
    BY <1>5, <2>1
  <2>3. IsSeq(Tail(w))
    BY <1>5, TailIs
  <2>4. IsSeq(Tail(w) \o t) /\ Len(Tail(w) \o t) = Len(Tail(w)) + Len(t)
    BY <1>2, <2>3, JoinIs
  <2>. QED BY <1>2, <2>2, <2>4, JoinEmpty
<1>6. CASE skipLf
  <2>1. Wire # <<>> /\ Wire[1] = Unit(Lf) /\ Pending = Tail(Wire) /\ skipLf' = TRUE
    BY <1>6 DEF LineInv, WireInv, Pending
  <2>2. /\ (Wire \o t)[1] = Wire[1] /\ Wire \o t # <<>> /\ IsSeq(Tail(Wire \o t))
        /\ Len(Tail(Wire \o t)) = Len(Tail(Wire)) + Len(t) /\ (Tail(Wire) = <<>> => Tail(Wire \o t) = t)
    BY ONLY <1>4, <1>5, <2>1
  <2>3. Wire' = Wire \o t /\ Pending' = Tail(Wire \o t)
    BY <1>1, <1>3, <2>1 DEF Pending
  <2>. QED BY <2>1, <2>2, <2>3 DEF LineInv, WireInv
<1>7. CASE ~skipLf
  <2>1. Pending = Wire /\ skipLf' = FALSE /\ Pending' = Wire'
    BY <1>7 DEF LineInv, WireInv, Pending
  <2>2. /\ IsSeq(Wire \o t) /\ Len(Wire \o t) = Len(Wire) + Len(t)
        /\ \A i \in 1 .. Len(Wire) + Len(t) : (Wire \o t)[i] = IF i <= Len(Wire) THEN Wire[i] ELSE t[i - Len(Wire)]
    BY <1>4, JoinIs
  <2>3. ASSUME Wire = <<>> PROVE Wire \o t = t
    BY <1>2, <1>4, <2>2, <2>3, EmptyIs, SameSeq
  <2>. QED BY <1>1, <1>3, <2>1, <2>2, <2>3 DEF LineInv, WireInv
<1>. QED BY <1>6, <1>7

LEMMA CommandTalks ==
  ASSUME RoomInv, TalkInv, HostCommand
  PROVE  TalkInv'
<1>1. /\ Idle /\ LineInv /\ UNCHANGED <<rx, tx, st, xfer, junk, skipLf, quiet, giveups>>
  BY DEF HostCommand, TalkInv, txRing, protocol
<1>2. PICK k \in Commands, eol \in Eols, n \in Names \cup {Text}, data \in Contents :
        host' = [NoHost EXCEPT !.st = "await", !.cmd = k, !.data = data,
                   !.out = host.out \o Line(Command(k, n, Len(data), eol))]
  BY DEF HostCommand
<1> DEFINE c == Command(k, n, Len(data), eol)
<1>3. /\ host'.st = "await" /\ host'.cmd = k /\ host'.data = data /\ host'.need = 0
      /\ host'.out = host.out \o Line(c)
  BY <1>2 DEF NoHost
<1>4. LineInv' /\ (Pending = <<>> => Pending' = Line(c))
  BY <1>1, <1>3, LineIs, WireGrows
<1>5. Pending' = Line(Command(host'.cmd, n, Len(host'.data), eol))
  BY <1>1, <1>3, <1>4 DEF Idle
<1>6. Asked'
  BY <1>1, <1>3, <1>5 DEF Idle, Asked
<1>. QED BY <1>3, <1>4, <1>6 DEF TalkInv

LEMMA SendTalks ==
  ASSUME RoomInv, TalkInv, HostSend
  PROVE  TalkInv'
<1>1. /\ LineInv /\ UNCHANGED <<tx, st, xfer, junk, skipLf, quiet, giveups>>
      /\ host.out # <<>> /\ rx' = Append(rx, Head(host.out)) /\ host' = [host EXCEPT !.out = Tail(@)]
  BY DEF HostSend, TalkInv, txRing, protocol
<1>2. host'.out = Tail(host.out) /\ UNCHANGED <<host.st, host.cmd, host.data, host.need>>
  BY <1>1 DEF RoomInv, Types, HostType, NoHost
<1>3. Wire' = Wire
  <2>1. IsSeq(rx) /\ IsSeq(host.out) /\ Len(rx) \in Nat /\ Len(host.out) \in Nat
    BY <1>1, WireIs
  <2>. QED BY <1>1, <1>2, <2>1, PassOn DEF Wire
<1>4. LineInv' /\ Pending' = Pending
  BY <1>1, <1>3 DEF LineInv, WireInv, Pending
<1>. QED BY <1>1, <1>2, <1>4
     DEF TalkInv, Idle, Asked, Listing, Delivering, Inviting, Taking, Answered, Plain, Invited,
         Delivered, BrokenOff, OneHeader, Have, Owed, Header

(* What the PC makes of the replies.                                       *)
LEMMA RestIs ==
  ASSUME RoomInv, tx # <<>>, tx' = Tail(tx)
  PROVE  /\ Head(tx) = tx[1] /\ Whole(tx[1]) /\ Len(tx) \in Nat \ {0} /\ Len(tx') = Len(tx) - 1
         /\ (tx' = <<>> <=> Len(tx) = 1) /\ \A i \in 1 .. Len(tx) - 1 : tx'[i] = tx[i + 1]
<1>1. /\ IsSeq(Tail(tx)) /\ Len(Tail(tx)) = Len(tx) - 1 /\ Len(tx) \in Nat \ {0} /\ Head(tx) = tx[1]
      /\ \A i \in 1 .. Len(tx) - 1 : Tail(tx)[i] = tx[i + 1]
  BY TailIs DEF RoomInv, Types, Replies
<1>2. Tail(tx) = <<>> <=> Len(tx) = 1
  BY <1>1, EmptyIs
<1>. QED BY <1>1, <1>2 DEF RoomInv, Types, Replies

(* A unit of a download; the size of one; the start of an upload; one of   *)
(* a list; or the end.                                                     *)
Got == host.need > 0 /\ \E g : host' = [host EXCEPT !.got = g, !.need = host.need - 1]
Promised == host.need = 0 /\ tx[1].k = "DATA" /\ host' = [host EXCEPT !.need = tx[1].size]
Invitation ==
  /\ host.need = 0 /\ tx[1].k = "READY"
  /\ host' = [host EXCEPT !.out = @ \o [i \in DOMAIN host.data |-> Unit(host.data[i])]]
Listed == host.need = 0 /\ tx[1].k = "entry" /\ host' = host
Ended == host.need = 0 /\ tx[1].k \notin {"DATA", "READY", "entry"} /\ host' = [host EXCEPT !.st = "idle"]

LEMMA ReceiveIs ==
  ASSUME RoomInv, HostReceive, host.st # "idle"
  PROVE  Got \/ Promised \/ Invitation \/ Listed \/ Ended
<1>1. Head(tx) = tx[1] /\ host.need \in Nat
  BY RestIs DEF HostReceive, RoomInv, Types, HostType
<1>2. CASE host.need > 0
  BY <1>2 DEF HostReceive, Got
<1>3. CASE host.need = 0
  <2>1. ~(host.need > 0)
    BY <1>3
  <2>2. host' =
           IF Head(tx).k = "READY"
           THEN [host EXCEPT !.out = @ \o [i \in DOMAIN host.data |-> Unit(host.data[i])]]
           ELSE IF Head(tx).k = "DATA" THEN [host EXCEPT !.need = Head(tx).size]
           ELSE IF Head(tx).k = "entry" THEN host
           ELSE [host EXCEPT !.st = "idle"]
    BY <2>1, Zenon DEF HostReceive
  <2>3. CASE Head(tx).k = "READY"
    BY <1>1, <1>3, <2>2, <2>3 DEF Invitation
  <2>4. CASE Head(tx).k = "DATA"
    BY <1>1, <1>3, <2>2, <2>4 DEF Promised
  <2>5. CASE Head(tx).k = "entry"
    BY <1>1, <1>3, <2>2, <2>5 DEF Listed
  <2>6. CASE Head(tx).k \notin {"READY", "DATA", "entry"}
    BY <1>1, <1>3, <2>2, <2>6 DEF Ended
  <2>. QED BY <2>3, <2>4, <2>5, <2>6
<1>. QED BY <1>1, <1>2, <1>3

LEMMA ReceiveTalks ==
  ASSUME RoomInv, TalkInv, HostReceive
  PROVE  TalkInv'
<1>1. /\ tx # <<>> /\ tx' = Tail(tx) /\ LineInv
      /\ UNCHANGED <<rx, st, list, xfer, junk, skipLf, quiet, giveups>>
  BY DEF HostReceive, TalkInv, protocol
<1>2. host.st # "idle"
  BY <1>1 DEF TalkInv, Idle
<1>3. Listing \/ Delivering \/ Inviting \/ Answered
  BY <1>1, <1>2 DEF TalkInv, Asked, Taking
<1>4. /\ Whole(tx[1]) /\ Len(tx) \in Nat \ {0} /\ Len(tx') = Len(tx) - 1
      /\ (tx' = <<>> <=> Len(tx) = 1) /\ \A i \in 1 .. Len(tx) - 1 : tx'[i] = tx[i + 1]
  BY <1>1, RestIs
<1>5. /\ DOMAIN host = DOMAIN NoHost /\ host.need \in Nat /\ xfer.size \in Nat /\ xfer.pos \in Nat
      /\ tx[1].k = "DATA" => tx[1].size \in Nat
  BY <1>4 DEF RoomInv, Types, HostType, XferType, Whole
<1>6. Pending = <<>>
  BY <1>3 DEF Listing, Delivering, Inviting, Answered
<1>7. ASSUME host'.out = host.out PROVE LineInv' /\ Pending' = <<>>
  BY <1>1, <1>6, <1>7, Quietly
<1>8. CASE Got
  <2>1. PICK g : host' = [host EXCEPT !.got = g, !.need = host.need - 1]
    BY <1>8 DEF Got
  <2>2. /\ host'.need = host.need - 1 /\ host.need > 0 /\ host'.out = host.out /\ host'.st = host.st
    BY <1>5, <1>8, <2>1 DEF Got, NoHost
  <2>3. LineInv' /\ Pending' = <<>>
    BY <1>7, <2>2
  <2>4. Delivering \/ (Answered /\ (Delivered \/ BrokenOff))
    BY <1>3, <2>2 DEF Listing, Inviting, Answered, Plain, Invited
  <2>5. OneHeader
    BY <2>4 DEF Delivering, Delivered, BrokenOff
  <2>6. ~Header /\ ~Header'
    BY <1>1, <1>4, <2>2, <2>5 DEF OneHeader, Header
  <2>7. OneHeader'
    BY <1>4, <2>5, <2>6 DEF OneHeader
  <2>8. Owed' = Owed - 1 /\ Have' = Have - 1 /\ Owed = host.need /\ Have = Len(tx)
    BY <1>4, <1>5, <2>2, <2>6 DEF Owed, Have
  <2>9. CASE Delivering
    BY <1>1, <1>2, <1>4, <1>5, <2>2, <2>3, <2>7, <2>8, <2>9 DEF Delivering, TalkInv
  <2>10. CASE Answered /\ Delivered
    <3>1. Len(tx) >= 2
      BY <1>4, <1>5, <2>2, <2>8, <2>10 DEF Delivered
    <3>2. tx'[Len(tx')] = tx[Len(tx)]
      BY <1>4, <3>1
    <3>3. Have' = Owed' + 1
      BY <1>4, <1>5, <2>8, <2>10 DEF Delivered
    <3>4. Delivered'
      BY <2>7, <2>10, <3>2, <3>3 DEF Delivered, Final
    <3>. QED BY <1>1, <1>2, <2>2, <2>3, <2>10, <3>4 DEF Answered, TalkInv
  <2>11. CASE Answered /\ BrokenOff
    <3>1. BrokenOff'
      BY <1>4, <1>5, <2>7, <2>8, <2>11 DEF BrokenOff
    <3>. QED BY <1>1, <1>2, <2>2, <2>3, <2>11, <3>1 DEF Answered, TalkInv
  <2>. QED BY <2>4, <2>9, <2>10, <2>11
<1>9. CASE Promised
  <2>1. /\ host.need = 0 /\ host'.need = tx[1].size /\ Header /\ host'.out = host.out /\ host'.st = host.st
    BY <1>1, <1>5, <1>9 DEF Promised, Header, NoHost
  <2>2. LineInv' /\ Pending' = <<>>
    BY <1>7, <2>1
  <2>3. Delivering \/ (Answered /\ (Delivered \/ BrokenOff))
    <3>1. ~Listing /\ ~Inviting /\ ~Invited
      BY <1>4, <1>9, RepliesAre DEF Promised, Listing, Inviting, Invited
    <3>2. ~Plain
      BY <1>4, <1>9 DEF Promised, Plain, Final
    <3>. QED BY <1>3, <3>1, <3>2 DEF Answered
  <2>4. OneHeader
    BY <2>3 DEF Delivering, Delivered, BrokenOff
  <2>5. ~Header'
    BY <1>4, <2>4 DEF OneHeader, Header
  <2>6. OneHeader'
    BY <1>4, <2>4, <2>5 DEF OneHeader
  <2>7. Owed' = Owed /\ Have' = Have /\ Owed \in Nat /\ Have = Len(tx) - 1
    BY <1>4, <1>5, <1>9, <2>1, <2>5 DEF Owed, Have, Promised
  <2>8. CASE Delivering
    BY <1>1, <1>2, <1>4, <1>5, <2>1, <2>2, <2>6, <2>7, <2>8 DEF Delivering, TalkInv
  <2>9. CASE Answered /\ Delivered
    <3>1. Len(tx) >= 2
      BY <1>4, <2>7, <2>9 DEF Delivered
    <3>2. tx'[Len(tx')] = tx[Len(tx)]
      BY <1>4, <3>1
    <3>3. Delivered'
      BY <1>4, <1>5, <2>6, <2>7, <2>9, <3>2 DEF Delivered, Final
    <3>. QED BY <1>1, <1>2, <2>1, <2>2, <2>9, <3>3 DEF Answered, TalkInv
  <2>10. CASE Answered /\ BrokenOff
    <3>1. BrokenOff'
      BY <1>4, <1>5, <2>6, <2>7, <2>10 DEF BrokenOff
    <3>. QED BY <1>1, <1>2, <2>1, <2>2, <2>10, <3>1 DEF Answered, TalkInv
  <2>. QED BY <2>3, <2>8, <2>9, <2>10
<1>10. CASE Invitation
  <2> DEFINE u == [i \in DOMAIN host.data |-> Unit(host.data[i])]
  <2>1. Len(host.data) \in Nat /\ DOMAIN host.data = 1 .. Len(host.data)
    BY SeqKnown DEF RoomInv, Types, HostType
  <2>2. u = [i \in 1 .. Len(host.data) |-> u[i]]
    BY <2>1
  <2>3. IsSeq(u) /\ Len(u) = Len(host.data)
    BY <2>1, <2>2, FunctionIs
  <2>4. host' = [host EXCEPT !.out = host.out \o u]
    BY <1>10 DEF Invitation
  <2> HIDE DEF u
  <2>5. /\ host'.out = host.out \o u /\ host'.st = host.st /\ host'.need = 0 /\ host.need = 0
        /\ host'.data = host.data /\ host'.cmd = host.cmd
    BY <1>5, <1>10, <2>4 DEF NoHost, Invitation
  <2>6. LineInv' /\ Pending' = u
    BY <1>1, <1>6, <2>3, <2>5, WireGrows
  <2>7. Inviting \/ (Answered /\ Invited)
    <3>1. ~Listing
      BY <1>4, <1>10 DEF Invitation, Listing
    <3>2. ~Delivering /\ ~Delivered /\ ~BrokenOff
      <4>1. ~Header /\ Owed = 0 /\ Have = Len(tx)
        BY <1>10 DEF Invitation, Header, Owed, Have
      <4>2. ~Delivering /\ ~BrokenOff
        BY <1>4, <1>5, <4>1 DEF Delivering, BrokenOff
      <4>3. ~Delivered
        BY <1>4, <1>10, <4>1 DEF Delivered, Final, Invitation
      <4>. QED BY <4>2, <4>3
    <3>3. ~Plain
      BY <1>4, <1>10 DEF Invitation, Plain, Final
    <3>. QED BY <1>3, <3>1, <3>2, <3>3 DEF Answered
  <2>8. CASE Inviting
    BY <1>1, <1>2, <1>4, <1>5, <2>1, <2>3, <2>5, <2>6, <2>8 DEF Inviting, Taking, TalkInv
  <2>9. CASE Answered /\ Invited
    <3>1. Len(tx) = 2 /\ Len(tx') = 1 /\ tx'[1] = tx[2] /\ tx' # <<>>
      BY <1>4, <2>9 DEF Invited
    <3>2. Plain'
      BY <2>5, <2>9, <3>1 DEF Plain, Invited, Final
    <3>3. u = <<>>
      BY <2>3, <2>9, EmptyIs DEF Invited
    <3>. QED BY <1>1, <1>2, <2>5, <2>6, <2>9, <3>2, <3>3 DEF Answered, TalkInv
  <2>. QED BY <2>7, <2>8, <2>9
<1>11. CASE Listed
  <2>1. host' = host /\ host.need = 0 /\ tx[1].k = "entry"
    BY <1>11 DEF Listed
  <2>2. LineInv' /\ Pending' = <<>>
    BY <1>7, <2>1
  <2>3. Listing \/ (Answered /\ Plain)
    <3>1. ~Inviting /\ ~Invited
      BY <2>1, RepliesAre DEF Inviting, Invited
    <3>2. ~Delivering /\ ~Delivered /\ ~BrokenOff
      <4>1. ~Header /\ Owed = 0 /\ Have = Len(tx)
        BY <2>1 DEF Header, Owed, Have
      <4>2. ~Delivering /\ ~BrokenOff
        BY <1>4, <1>5, <4>1 DEF Delivering, BrokenOff
      <4>3. ~Delivered
        BY <1>4, <2>1, <4>1 DEF Delivered, Final
      <4>. QED BY <4>2, <4>3
    <3>. QED BY <1>3, <3>1, <3>2 DEF Answered
  <2>4. CASE Listing
    BY <1>1, <1>2, <1>4, <2>1, <2>2, <2>4 DEF Listing, TalkInv
  <2>5. CASE Answered /\ Plain
    <3>1. Len(tx) >= 2
      BY <1>4, <2>1, <2>5 DEF Plain, Final
    <3>2. tx'[Len(tx')] = tx[Len(tx)] /\ tx' # <<>>
      BY <1>4, <3>1
    <3>3. \A i \in 1 .. Len(tx') - 1 : tx'[i].k = "entry"
      BY <1>4, <2>5 DEF Plain
    <3>4. Plain'
      BY <2>1, <2>5, <3>2, <3>3 DEF Plain, Final
    <3>. QED BY <1>1, <1>2, <2>1, <2>2, <2>5, <3>4 DEF Answered, TalkInv
  <2>. QED BY <2>3, <2>4, <2>5
<1>12. CASE Ended
  <2>1. /\ host'.st = "idle" /\ host'.out = host.out /\ host.need = 0
        /\ tx[1].k \notin {"DATA", "READY", "entry"}
    BY <1>5, <1>12 DEF Ended, NoHost
  <2>2. LineInv' /\ Pending' = <<>>
    BY <1>7, <2>1
  <2>3. ~Header /\ Owed = 0 /\ Have = Len(tx)
    BY <2>1 DEF Header, Owed, Have
  <2>4. Answered /\ (Plain \/ Delivered)
    <3>1. ~Inviting /\ ~Invited
      BY <2>1, RepliesAre DEF Inviting, Invited
    <3>2. ~Delivering /\ ~BrokenOff
      BY <1>4, <1>5, <2>3 DEF Delivering, BrokenOff
    <3>3. ~Listing
      BY <1>4, <2>1 DEF Listing
    <3>. QED BY <1>3, <3>1, <3>2, <3>3 DEF Answered
  <2>5. Len(tx) = 1
    <3>1. CASE Plain
      <4>1. ~(1 \in 1 .. Len(tx) - 1)
        BY <2>1, <3>1 DEF Plain
      <4>. QED BY <1>4, <4>1
    <3>2. CASE Delivered
      BY <2>3, <3>2 DEF Delivered
    <3>. QED BY <2>4, <3>1, <3>2
  <2>6. Idle'
    BY <1>1, <1>4, <2>2, <2>4, <2>5 DEF Idle, Answered
  <2>. QED BY <2>1, <2>2, <2>6 DEF TalkInv
<1>. QED BY <1>2, <1>8, <1>9, <1>10, <1>11, <1>12, ReceiveIs

-----------------------------------------------------------------------------
LEMMA TalkInit == Init => TalkInv
<1> SUFFICES ASSUME Init PROVE TalkInv
  OBVIOUS
<1>1. Wire = <<>> /\ Pending = <<>>
  BY EmptyIs, JoinEmpty DEF Init, NoHost, Wire, Pending
<1>. QED BY <1>1 DEF Init, NoHost, TalkInv, LineInv, WireInv, Idle

LEMMA TalkNext ==
  ASSUME MaxGiveUps = 0
  PROVE  RoomInv /\ TalkInv /\ [Next]_vars => TalkInv'
<1> SUFFICES ASSUME RoomInv, TalkInv, [Next]_vars PROVE TalkInv'
  OBVIOUS
<1>1. CASE ProcessStep
  <2>1. ~SendTimeout
    BY DEF SendTimeout, TalkInv, LineInv
  <2>. QED BY <1>1, <2>1, LineTalks, ListTalks, RecvTalks, TakeTalks, FinishTalks
           DEF ProcessStep, Steps
<1>2. CASE ProcessEnd
  BY <1>2, ProcessEndTalks
<1>3. CASE AppTurn
  <2>1. xfer'.size = xfer.size /\ xfer'.pos = xfer.pos
    BY <1>3, AppKeepsXfer DEF RoomInv, Types, XferType
  <2>. QED BY <1>3, <2>1, SameTalk DEF AppTurn, txRing
<1>4. CASE HostCommand \/ HostSend \/ HostReceive
  BY <1>4, CommandTalks, SendTalks, ReceiveTalks
<1>5. ~Wait /\ ~HostGiveUp
  BY DEF Wait, HostGiveUp, TalkInv, LineInv
<1>6. CASE UNCHANGED vars
  BY <1>6, SameTalk DEF vars
<1>. QED BY <1>1, <1>2, <1>3, <1>4, <1>5, <1>6 DEF Next, MainLoop

(* With a PC that waits for its answers, protocol and PC stay in step: when*)
(* it takes a command to be over, the protocol is back at the command line *)
(* with nothing of the conversation under way, but for the '\n' of a       *)
(* "\r\n", which will be dropped.                                          *)
THEOREM OneCommandOneAnswer ==
  ASSUME MaxGiveUps = 0
  PROVE  Spec => []InSync
<1>1. RoomInv /\ TalkInv => InSync
  <2> SUFFICES ASSUME RoomInv, TalkInv, host.st = "idle"
               PROVE  /\ st = "LINE" /\ tx = <<>> /\ ~junk
                      /\ Wire = <<>> \/ (skipLf /\ Wire = <<Unit(Lf)>>)
    BY DEF InSync, Wire
  <2>1. LineInv /\ Idle
    BY DEF TalkInv
  <2>2. CASE skipLf
    <3>1. Wire[1] = Unit(Lf) /\ Len(Wire) = 1 /\ IsSeq(Wire)
      <4>1. Len(Pending) = 0
        BY <2>1, EmptyIs DEF Idle
      <4>2. Wire[1] = Unit(Lf)
        BY <2>1, <2>2 DEF LineInv, WireInv
      <4>3. Len(Wire) = Len(Pending) + 1 /\ IsSeq(Wire)
        BY <2>1, <2>2, WireIs
      <4>. QED BY ONLY <4>1, <4>2, <4>3
    <3>2. <<Unit(Lf)>> \in Seq({Unit(Lf)})
      OBVIOUS
    <3>3. IsSeq(<<Unit(Lf)>>) /\ Len(<<Unit(Lf)>>) = 1 /\ <<Unit(Lf)>>[1] = Unit(Lf)
      BY <3>2, SeqIs
    <3>4. Wire = <<Unit(Lf)>>
      <4>1. \A i \in 1 .. Len(Wire) : Wire[i] = <<Unit(Lf)>>[i]
        BY <3>1, <3>3
      <4>. QED BY <3>1, <3>3, <4>1, SameSeq
    <3>. QED BY <2>1, <2>2, <3>4 DEF LineInv, Idle
  <2>3. CASE ~skipLf
    BY <2>1, <2>3 DEF LineInv, Idle, Pending
  <2>. QED BY <2>2, <2>3
<1>. QED BY <1>1, RoomInit, RoomNext, TalkInit, TalkNext, PTL DEF Spec
=============================================================================

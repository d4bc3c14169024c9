----------------------------- MODULE UsbTransfer -----------------------------
(***************************************************************************)
(* The file transfer protocol, usb/usb_cdc.c: the receive and transmit     *)
(* rings, the command line, and the steps of LIST, RECV and SEND, run by   *)
(* usb_cdc_process() from the app task.  Around it: the PC side            *)
(* (tools/upload.py), the USB stack that moves bytes at any time, and the  *)
(* apps, which use the filesystem between two calls of usb_cdc_process().  *)
(*                                                                         *)
(* A token of a ring is a whole command line up to its first end-of-line   *)
(* character, a whole reply line, or one unit of file data.                *)
(***************************************************************************)
EXTENDS Integers, Sequences, FiniteSets, FiniteSetsExt, SequencesExt

CONSTANTS
  Names,          \* file names
  Vals,           \* units of file data
  Lf,             \* the unit '\n', which is also a line ending
  Text,           \* a command line taken for file data
  Blank, Pool, MaxFiles, FlashFails,             \* see FileArea
  CompactInRecv,  \* TRUE: an app may compact the filesystem during a RECV
  RxSize, TxSize, \* what the rings hold
  ReplyMax,       \* REPLY_MAX
  Chunk,          \* units of s_chunk
  RecvChunk,      \* units of recv_step()'s chunk
  Sizes,          \* the sizes of files
  Commands, Eols, \* what the PC may ask, and how its lines end
  Guard,          \* steps in one call of usb_cdc_process()
  MaxEdits,       \* bound: file operations of the apps
  MaxGiveUps      \* bound: times the PC gives up on a command

VARIABLES
  fs,             \* the filesystem, as in FileArea
  rx, tx,         \* the rings
  txUsed,         \* s_tx_tail - s_tx_head: how full tx is
  st,             \* s_st
  list,           \* LIST: what is left of the snapshot
  xfer,           \* RECV / SEND: the transfer
  junk,           \* s_len > 0: a line is being collected
  skipLf,         \* s_skip_lf
  quiet,          \* more than SEND_TIMEOUT_MS since s_last_rx_ms
  turn, guard,    \* who runs in the main loop; steps done in this call
  host,           \* the PC
  edits, giveups  \* bounds

protocol == <<st, list, xfer, junk, skipLf, quiet>>
txRing == <<tx, txUsed>>
vars == <<fs, rx, tx, txUsed, st, list, xfer, junk, skipLf, quiet, turn, guard, host, edits, giveups>>

FS == INSTANCE FileArea

Contents == UNION {[1 .. k -> Vals] : k \in Sizes}

-----------------------------------------------------------------------------
(* Tokens *)

Unit(v) == [k |-> "unit", v |-> v]
Command(k, n, size, eol) == [k |-> k, name |-> n, size |-> size, eol |-> eol]
Reply(k, w) == [k |-> k, w |-> w]

OK == Reply("OK", 1)
READY == Reply("READY", 1)
ERR == Reply("ERR", 2)
DATA(size) == [k |-> "DATA", size |-> size, w |-> 2]
Entry(n) == [k |-> "entry", name |-> n, w |-> 2]

ASSUME ReplyRoom ==    \* the lengths above, against REPLY_MAX
  /\ {RxSize, TxSize, ReplyMax, Chunk, RecvChunk, Guard} \subseteq Nat \ {0}
  /\ OK.w <= ReplyMax /\ ERR.w + READY.w <= ReplyMax /\ DATA(0).w <= ReplyMax
  /\ ReplyMax <= TxSize

ASSUME PcAssumption ==
  Sizes \subseteq Nat /\ Commands \subseteq {"LIST", "RECV", "SEND", "DEL", "BAD"}

Width(t) == IF t.k = "unit" THEN 1 ELSE t.w
TxFree == TxSize - txUsed

(* usb_cdc_write(): what does not fit is cut off.                          *)
Queue(t) ==
  LET q == IF Width(t) <= TxFree THEN t ELSE [k |-> "cut", w |-> TxFree]
  IN  tx' = Append(tx, q) /\ txUsed' = txUsed + Width(q)

-----------------------------------------------------------------------------
(* Receiving *)

RxTakeKeepsLf == rx     \* mutant: the '\n' of a "\r\n" is not dropped

(* rx_take() first drops the '\n' of a "\r\n".                             *)
RxTake == IF skipLf /\ rx # <<>> /\ Head(rx) = Unit(Lf) THEN Tail(rx) ELSE rx
SkipStill == skipLf /\ rx = <<>>

(* History: what the file was when a RECV began, and how often a           *)
(* compaction moved the files since.                                       *)
NoXfer == [name |-> Text, area |-> 0, off |-> 0, size |-> 0, pos |-> 0,
           chunk |-> <<>>, failed |-> FALSE, was |-> <<>>, moves |-> 0]

-----------------------------------------------------------------------------
(* Commands: handle_command().  Each leaves st, list, xfer, quiet, fs, tx. *)

HandleList ==
  /\ \E order \in SetToSeqs(DOMAIN fs.dir) : list' = order
  /\ st' = "LIST" /\ UNCHANGED <<xfer, quiet, fs, txRing>>

\* mutant: no return after the error
HandleRecvGoesOn(c) ==
  IF ~FS!Has(fs, c.name) THEN Queue(ERR) /\ st' = "RECV" /\ UNCHANGED <<list, xfer, quiet, fs>>
  ELSE /\ xfer' = [NoXfer EXCEPT !.name = c.name, !.area = fs.area,
                                 !.off = fs.dir[c.name].off, !.size = fs.dir[c.name].size,
                                 !.was = FS!Body(fs, c.name)]
       /\ Queue(DATA(fs.dir[c.name].size))
       /\ st' = "RECV" /\ UNCHANGED <<list, quiet, fs>>

HandleRecv(c) ==
  IF ~FS!Has(fs, c.name) THEN Queue(ERR) /\ UNCHANGED <<st, list, xfer, quiet, fs>>
  ELSE /\ xfer' = [NoXfer EXCEPT !.name = c.name, !.area = fs.area,
                                 !.off = fs.dir[c.name].off, !.size = fs.dir[c.name].size,
                                 !.was = FS!Body(fs, c.name)]
       /\ Queue(DATA(fs.dir[c.name].size))
       /\ st' = "RECV" /\ UNCHANGED <<list, quiet, fs>>

\* mutant: the old file always goes first
BeginResultsDeleteFirst(c) ==
  UNION {FS!StreamBegin(d.fs, c.name, c.size) : d \in FS!Delete(fs, c.name)}

(* The old file stays until the new one is complete, unless the stream     *)
(* cannot begin: then it is deleted first, and the stream begun again.     *)
BeginResults(c) ==
  UNION {IF r.ok THEN {r}
         ELSE IF r.fs.stream.active \/ ~FS!Has(r.fs, c.name) THEN {r}
         ELSE {[ok |-> x.ok, fs |-> [x.fs EXCEPT !.broke = @ \/ r.fs.broke]] :
                 x \in UNION {IF d.ok THEN FS!StreamBegin(d.fs, c.name, c.size) ELSE {d} :
                               d \in FS!Delete(r.fs, c.name)}} :
           r \in FS!StreamBegin(fs, c.name, c.size)}

HandleSend(c) ==
  \E r \in BeginResults(c) :
    /\ fs' = r.fs
    /\ IF r.ok
       THEN /\ xfer' = [NoXfer EXCEPT !.name = c.name, !.size = c.size]
            /\ quiet' = FALSE /\ st' = "SEND" /\ Queue(READY) /\ UNCHANGED list
       ELSE Queue(ERR) /\ UNCHANGED <<st, list, xfer, quiet>>

\* mutant: no reply when there is no such file
HandleDelSilent(c) ==
  /\ \E r \in FS!Delete(fs, c.name) : fs' = r.fs /\ IF r.ok THEN Queue(OK) ELSE UNCHANGED txRing
  /\ UNCHANGED <<st, list, xfer, quiet>>

HandleDel(c) ==
  /\ \E r \in FS!Delete(fs, c.name) : fs' = r.fs /\ Queue(IF r.ok THEN OK ELSE ERR)
  /\ UNCHANGED <<st, list, xfer, quiet>>

HandleCommand(c) ==
  \/ c.k = "LIST" /\ HandleList
  \/ c.k = "RECV" /\ HandleRecv(c)
  \/ c.k = "SEND" /\ HandleSend(c)
  \/ c.k = "DEL" /\ HandleDel(c)
  \/ c.k = "BAD" /\ Queue(ERR) /\ UNCHANGED <<st, list, xfer, quiet, fs>>

-----------------------------------------------------------------------------
(* One step of usb_cdc_process(); each is a step only if it progresses.    *)

LineRoomForOne == TxFree >= OK.w       \* mutant: room for the shortest reply
LineRoom == TxFree >= ReplyMax

(* line_step(): take a token; at the end of a line, carry it out.          *)
LineStep ==
  /\ st = "LINE" /\ LineRoom /\ RxTake # <<>>
  /\ rx' = Tail(RxTake)
  /\ LET t == Head(RxTake)
     IN  \/ /\ t = Unit(Lf)
            /\ skipLf' = FALSE /\ junk' = FALSE
            /\ IF junk THEN Queue(ERR) ELSE UNCHANGED txRing
            /\ UNCHANGED <<st, list, xfer, quiet, fs>>
         \/ /\ t.k = "unit" /\ t.v # Lf
            /\ skipLf' = FALSE /\ junk' = TRUE
            /\ UNCHANGED <<st, list, xfer, quiet, fs, txRing>>
         \/ /\ t.k # "unit"
            /\ skipLf' = (t.eol = "cr") /\ junk' = FALSE
            /\ IF junk THEN Queue(ERR) /\ UNCHANGED <<st, list, xfer, quiet, fs>>
               ELSE HandleCommand(t)

(* list_step(): one entry, or the OK after the last.                       *)
ListStep ==
  /\ st = "LIST"
  /\ IF list = <<>>
     THEN TxFree >= OK.w /\ Queue(OK) /\ st' = "LINE" /\ UNCHANGED list
     ELSE /\ TxFree >= Width(Entry(Head(list)))
          /\ Queue(Entry(Head(list))) /\ list' = Tail(list) /\ UNCHANGED st
  /\ UNCHANGED <<fs, rx, xfer, junk, skipLf, quiet>>

\* mutant: whatever area the offset belongs to
RecvStepAnyArea ==
  LET n == Min({xfer.size - xfer.pos, TxFree, RecvChunk})
  IN  /\ st = "RECV"
      /\ \/ /\ xfer.pos >= xfer.size /\ TxFree >= OK.w
            /\ Queue(OK) /\ st' = "LINE" /\ UNCHANGED xfer
         \/ /\ xfer.pos < xfer.size /\ n > 0
            /\ tx' = tx \o [i \in 1 .. n |-> Unit(FS!UnitAt(fs, xfer.off + xfer.pos + i - 1))]
            /\ txUsed' = txUsed + n
            /\ xfer' = [xfer EXCEPT !.pos = @ + n]
            /\ UNCHANGED st
      /\ UNCHANGED <<fs, rx, list, junk, skipLf, quiet>>

(* recv_step(): the next chunk, or the OK after the last.  The offset is   *)
(* the one open_read returned, however long ago.                           *)
RecvStep ==
  LET n == Min({xfer.size - xfer.pos, TxFree, RecvChunk})
  IN  /\ st = "RECV"
      /\ \/ /\ xfer.pos >= xfer.size /\ TxFree >= OK.w
            /\ Queue(OK) /\ st' = "LINE" /\ UNCHANGED xfer
         \/ /\ xfer.pos < xfer.size /\ n > 0 /\ FS!InArea(fs, xfer.area)
            /\ tx' = tx \o [i \in 1 .. n |-> Unit(FS!UnitAt(fs, xfer.off + xfer.pos + i - 1))]
            /\ txUsed' = txUsed + n
            /\ xfer' = [xfer EXCEPT !.pos = @ + n]
            /\ UNCHANGED st
         \/ /\ xfer.pos < xfer.size /\ n > 0 /\ ~FS!InArea(fs, xfer.area)
            /\ st' = "LINE" /\ UNCHANGED <<xfer, txRing>>
      /\ UNCHANGED <<fs, rx, list, junk, skipLf, quiet>>

(* send_step(), data still missing: what has arrived goes into the buffer; *)
(* a full buffer, or the last of the data, is flushed to the stream.       *)
SendTake ==
  LET n == Min({xfer.size - xfer.pos, Chunk - Len(xfer.chunk), Len(RxTake)})
      chunk == xfer.chunk \o [i \in 1 .. n |-> IF RxTake[i].k = "unit" THEN RxTake[i].v ELSE Text]
      pos == xfer.pos + n
  IN  /\ st = "SEND" /\ xfer.pos < xfer.size /\ RxTake # <<>>
      /\ rx' = SubSeq(RxTake, n + 1, Len(RxTake))
      /\ skipLf' = FALSE /\ quiet' = FALSE
      /\ IF (Len(chunk) = Chunk \/ pos = xfer.size) /\ ~xfer.failed
         THEN \E r \in FS!StreamWrite(fs, chunk) :
                /\ fs' = r.fs
                /\ xfer' = [xfer EXCEPT !.pos = pos, !.chunk = <<>>, !.failed = ~r.ok]
         ELSE /\ xfer' = [xfer EXCEPT !.pos = pos,
                            !.chunk = IF Len(chunk) = Chunk \/ pos = xfer.size THEN <<>> ELSE chunk]
              /\ UNCHANGED fs
      /\ UNCHANGED <<txRing, st, list, junk>>

(* The data stopped coming.  Nothing looks at the room for this reply.     *)
SendTimeout ==
  /\ st = "SEND" /\ xfer.pos < xfer.size /\ RxTake = <<>> /\ quiet
  /\ fs' = FS!StreamAbort(fs) /\ Queue(ERR) /\ st' = "LINE"
  /\ rx' = RxTake /\ skipLf' = SkipStill
  /\ UNCHANGED <<list, xfer, junk, quiet>>

\* mutant: what the filesystem says is not looked at
SendFinishIgnoresFailure ==
  /\ st = "SEND" /\ xfer.pos >= xfer.size /\ TxFree >= ReplyMax
  /\ \E r \in FS!StreamEnd(fs) : fs' = r.fs /\ Queue(OK)
  /\ st' = "LINE" /\ UNCHANGED <<rx, list, xfer, junk, skipLf, quiet>>

(* All the data is there: it becomes the file.                             *)
SendFinish ==
  /\ st = "SEND" /\ xfer.pos >= xfer.size /\ TxFree >= ReplyMax
  /\ \/ xfer.failed /\ fs' = FS!StreamAbort(fs) /\ Queue(ERR)
     \/ ~xfer.failed /\ \E r \in FS!StreamEnd(fs) : fs' = r.fs /\ Queue(IF r.ok THEN OK ELSE ERR)
  /\ st' = "LINE" /\ UNCHANGED <<rx, list, xfer, junk, skipLf, quiet>>

-----------------------------------------------------------------------------
(* The main loop: a call of usb_cdc_process(), then the apps.              *)

Steps == LineStep \/ ListStep \/ RecvStep \/ SendTake \/ SendTimeout \/ SendFinish

ProcessStep ==
  /\ turn = "usb" /\ guard < Guard /\ Steps
  /\ guard' = guard + 1
  /\ UNCHANGED <<turn, host, edits, giveups>>

TakesInput == (st = "LINE" /\ LineRoom) \/ (st = "SEND" /\ xfer.pos < xfer.size)
Progresses ==
  \/ TakesInput /\ (RxTake # <<>> \/ (st = "SEND" /\ quiet))
  \/ st = "LIST" /\ TxFree >= IF list = <<>> THEN OK.w ELSE Width(Entry(Head(list)))
  \/ st = "RECV" /\ TxFree > 0
  \/ st = "SEND" /\ xfer.pos >= xfer.size /\ TxFree >= ReplyMax

(* The call ends: nothing to do, or it has done enough.                    *)
ProcessEnd ==
  /\ turn = "usb" /\ (guard = Guard \/ ~Progresses)
  /\ turn' = "app" /\ guard' = 0
  /\ IF guard < Guard /\ TakesInput
     THEN rx' = RxTake /\ skipLf' = SkipStill ELSE UNCHANGED <<rx, skipLf>>
  /\ UNCHANGED <<fs, txRing, st, list, xfer, junk, quiet, host, edits, giveups>>

(* The apps' turn, in which they may write or delete a file.               *)
AppEdit ==
  /\ edits < MaxEdits /\ edits' = edits + 1
  /\ \E n \in Names :
       \E r \in FS!Delete(fs, n) \cup UNION {FS!Write(fs, n, c) : c \in Contents} :
         /\ r.ok /\ fs' = r.fs
         /\ CompactInRecv \/ st # "RECV" \/ r.fs.area = fs.area

AppTurn ==
  /\ turn = "app" /\ turn' = "usb"
  /\ AppEdit \/ (fs' = [fs EXCEPT !.broke = FALSE] /\ UNCHANGED edits)
  /\ xfer' = [xfer EXCEPT !.moves = IF st = "RECV" /\ fs'.area # fs.area THEN @ + 1 ELSE @]
  /\ UNCHANGED <<rx, txRing, st, list, junk, skipLf, quiet, guard, host, giveups>>

(* More than SEND_TIMEOUT_MS without data: the PC has stalled, or has      *)
(* given up (only in the runs where it may).                               *)
Wait ==
  /\ st = "SEND" /\ xfer.pos < xfer.size /\ ~quiet /\ quiet' = TRUE
  /\ MaxGiveUps > 0
  /\ UNCHANGED <<fs, rx, txRing, st, list, xfer, junk, skipLf, turn, guard, host, edits, giveups>>

-----------------------------------------------------------------------------
(* The PC, tools/upload.py: one command, then its replies.                 *)

NoHost == [st |-> "idle", cmd |-> "BAD", out |-> <<>>, data |-> <<>>,
           got |-> <<>>, need |-> 0]

Line(c) == IF c.eol = "cr" THEN <<c, Unit(Lf)>> ELSE <<c>>

(* The next command, once the last is on its way but for its '\n'.         *)
HostCommand ==
  /\ host.st = "idle" /\ Len(host.out) <= 1
  /\ \E k \in Commands, eol \in Eols,
       n \in Names \cup {Text}, data \in Contents :
       /\ k # "SEND" => data = <<>>
       /\ n = Text <=> k \in {"LIST", "BAD"}
       /\ host' = [NoHost EXCEPT !.st = "await", !.cmd = k, !.data = data,
                     !.out = host.out \o Line(Command(k, n, Len(data), eol))]
  /\ UNCHANGED <<fs, rx, txRing, protocol, turn, guard, edits, giveups>>

(* A packet arrives; the USB stack only takes it if there is room.         *)
HostSend ==
  /\ host.out # <<>> /\ Len(rx) < RxSize
  /\ rx' = Append(rx, Head(host.out)) /\ host' = [host EXCEPT !.out = Tail(@)]
  /\ UNCHANGED <<fs, txRing, protocol, turn, guard, edits, giveups>>

HostReceive ==
  LET t == Head(tx)
      size == host.need
  IN  /\ tx # <<>> /\ tx' = Tail(tx) /\ txUsed' = txUsed - Width(t)
      /\ host' =
           IF host.st = "idle" THEN host
           ELSE IF size > 0
           THEN [host EXCEPT !.got = Append(@, IF t.k = "unit" THEN t.v ELSE Text), !.need = size - 1]
           ELSE IF t.k = "READY"
           THEN [host EXCEPT !.out = @ \o [i \in DOMAIN host.data |-> Unit(host.data[i])]]
           ELSE IF t.k = "DATA" THEN [host EXCEPT !.need = t.size]
           ELSE IF t.k = "entry" THEN host
           ELSE [host EXCEPT !.st = "idle"]
      /\ UNCHANGED <<fs, rx, protocol, turn, guard, edits, giveups>>

(* No reply for TIMEOUT seconds, or the user stops the program.            *)
HostGiveUp ==
  /\ host.st # "idle" /\ giveups < MaxGiveUps
  /\ giveups' = giveups + 1
  /\ \E out \in {<<>>, host.out} : host' = [host EXCEPT !.st = "idle", !.out = out, !.need = 0]
  /\ UNCHANGED <<fs, rx, txRing, protocol, turn, guard, edits>>

-----------------------------------------------------------------------------
Init ==
  /\ fs = FS!EmptyArea /\ rx = <<>> /\ tx = <<>> /\ txUsed = 0
  /\ st = "LINE" /\ list = <<>> /\ xfer = NoXfer
  /\ junk = FALSE /\ skipLf = FALSE /\ quiet = FALSE
  /\ turn = "app" /\ guard = 0 /\ host = NoHost /\ edits = 0 /\ giveups = 0

MainLoop == ProcessStep \/ ProcessEnd \/ AppTurn
Next == MainLoop \/ Wait \/ HostCommand \/ HostSend \/ HostReceive \/ HostGiveUp

Spec == Init /\ [][Next]_vars

(* The main loop and the clock go on, and the PC's USB controller moves    *)
(* bytes both ways as long as there are any and the rings take them.       *)
Fairness ==
  /\ WF_vars(MainLoop) /\ WF_vars(Wait)
  /\ WF_vars(HostSend) /\ WF_vars(HostReceive)
FairSpec == Spec /\ Fairness

-----------------------------------------------------------------------------
(* Properties *)

(* No reply is ever cut off for lack of room in the transmit ring - not    *)
(* even the one for a timeout, which does not look.                        *)
RepliesWhole == \A i \in DOMAIN tx : tx[i].k # "cut"

(* One command, one answer: when the PC takes a command to be over, the    *)
(* protocol waits for the next one and nothing else is on its way.         *)
InSync ==
  host.st = "idle" =>
    /\ st = "LINE" /\ tx = <<>> /\ ~junk
    /\ rx \o host.out = <<>> \/ (skipLf /\ rx \o host.out = <<Unit(Lf)>>)

(* "OK" to a SEND means that the file now holds what the PC sent, whatever *)
(* the apps wrote meanwhile and however the line ended.                    *)
UploadStored ==
  st = "SEND" /\ st' = "LINE" /\ Len(tx') > Len(tx) /\ Last(tx') = OK =>
    FS!Has(fs', xfer.name) /\ FS!Body(fs', xfer.name) = host.data

(* "The old file stays until the new one is complete.  If both don't fit,  *)
(* replace it": a call changes no file but the one of a DEL or of a SEND   *)
(* that is complete; and a SEND that begins leaves the old file where it   *)
(* is, unless old and new (and all others) are more than an area holds, or *)
(* the flash failed in that very command: the code does not tell the two   *)
(* apart.                                                                  *)
CommandNow == Head(RxTake)
SameFile(n) ==
  IF FS!Has(fs, n) THEN FS!Has(fs', n) /\ FS!Body(fs', n) = FS!Body(fs, n) ELSE ~FS!Has(fs', n)
BothFit(size) == FS!Size(FS!Bodies(fs)) + size <= Pool
OldGoesFirst(n) ==
  /\ st = "LINE" /\ CommandNow.k = "SEND" /\ CommandNow.name = n
  /\ ~FS!Has(fs', n) /\ (BothFit(CommandNow.size) => fs'.broke)
ProtocolKeepsFiles ==
  [][turn = "usb" =>
       \A n \in Names :
         \/ SameFile(n)
         \/ st = "LINE" /\ CommandNow.k = "DEL" /\ CommandNow.name = n
         \/ OldGoesFirst(n)
         \/ st = "SEND" /\ st' = "LINE" /\ Last(tx') = OK /\ xfer.name = n]_vars

(* What the PC has when a RECV is confirmed is the file as it was when the *)
(* command was handled, although an app may have replaced, deleted or      *)
(* moved it since - but for two compactions, after which the offset is in  *)
(* the active area again.                                                  *)
DownloadRight ==
  host.st = "await" /\ host'.st = "idle" /\ host.cmd = "RECV" /\ tx # <<>> /\ Head(tx) = OK =>
    host.got = xfer.was \/ xfer.moves > 1

(* What a transfer reports as done is what was transferred.                *)
TransfersFaithful == [][UploadStored /\ DownloadRight]_vars

(* Every command comes to an end, but for a RECV whose file a compaction   *)
(* moved to the other area meanwhile.                                      *)
CommandsEnd ==
  host.st = "await" /\ giveups = 0 ~> host.st = "idle" \/ (host.cmd = "RECV" /\ xfer.moves > 0)

(* The PC is never left waiting: every command comes to an end.            *)
EveryCommandEnds == host.st = "await" ~> host.st = "idle"

(* A SEND ends even if the PC has gone: the protocol comes back to the     *)
(* command line.                                                           *)
ReturnsToLine == st # "LINE" ~> st = "LINE"

(* Neither side waits for the other for ever.                              *)
AlwaysEnds == CommandsEnd /\ ReturnsToLine
=============================================================================

----------------------------- MODULE UsbControl -----------------------------
(***************************************************************************)
(* Endpoint 0 of usb/usb_device.c: requests, replies in several packets,   *)
(* and a host that may give a request up for the next one.  The interrupt  *)
(* handler finds whatever has happened since it ran last.  A request has a *)
(* kind, the length of its reply and wLength; a byte of a reply is its     *)
(* request's kind with the byte's place.                                   *)
(***************************************************************************)
EXTENDS Integers, Sequences

CONSTANTS
  MPS,
  Requests,       \* kind, len, wlength: kinds "set", "line", "bad", or a descriptor's name
  Codings,        \* what SET_LINE_CODING may send
  LongMasks       \* interrupts may be off (a flash erase) for a whole request

ASSUME ControlSizes == MPS \in Nat \ {0} /\ LongMasks \in BOOLEAN
ASSUME RequestSizes == \A r \in Requests : r.len \in Nat /\ r.wlength \in Nat

VARIABLES
  ep0,            \* the driver's and the core's side of endpoint 0, below
  host0           \* external: the PC: its request, its stage, what it has got

control == <<ep0, host0>>
Nothing == [kind |-> "none", len |-> 0, wlength |-> 0]

(* The driver: s_setup; s_ep0_tx as a place, s_ep0_left, s_ep0_zlp;        *)
(* s_ep0_out_req, s_ctrl_buf, s_line_coding.  The core: the transmit FIFO  *)
(* and the size in DIEPTSIZ (-1: no packet), NAK, XFRC of IN; the receive  *)
(* FIFO, STUP and XFRC of OUT, OUT armed, STALL; a bus reset.              *)
Ep0Init(coding) ==
  [setup |-> Nothing, tx |-> 0, left |-> 0, zlp |-> FALSE, outReq |-> FALSE, buf |-> coding, line |-> coding,
   fifo |-> <<>>, size |-> -1, nak |-> TRUE, sent |-> FALSE,
   rx |-> <<>>, stup |-> FALSE, got |-> FALSE, armed |-> FALSE, stall |-> FALSE, reset |-> FALSE]

-----------------------------------------------------------------------------
Least(a, b) == IF a < b THEN a ELSE b

(* ep0_send_next() *)
SendNext(d) ==
  LET n == Least(d.left, MPS)
  IN  [d EXCEPT !.size = n, !.nak = FALSE, !.tx = @ + n, !.left = @ - n,
                !.fifo = @ \o [i \in 1 .. n |-> <<d.setup.kind, d.tx + i>>]]

\* mutant: a reply shorter than asked for that fills its last packet just ends
SendNoZlp(d) ==
  SendNext([d EXCEPT !.tx = 0, !.left = Least(d.setup.len, d.setup.wlength), !.zlp = FALSE])

(* ep0_send(): at most wLength bytes; is an empty packet to end it?        *)
Ep0Send(d) ==
  LET n == Least(d.setup.len, d.setup.wlength)
  IN  SendNext([d EXCEPT !.tx = 0, !.left = n, !.zlp = n < d.setup.wlength /\ n % MPS = 0 /\ n > 0])

(* ep0_status_in() *)
StatusIn(d) == [d EXCEPT !.left = 0, !.zlp = FALSE, !.size = 0, !.nak = FALSE]

(* handle_setup() *)
HandleSetup(d0) ==
  LET d == [d0 EXCEPT !.outReq = FALSE]
  IN  CASE d.setup.kind = "bad" -> [d EXCEPT !.stall = TRUE]
        [] d.setup.kind = "line" -> [d EXCEPT !.outReq = TRUE]
        [] d.setup.kind = "set" -> StatusIn(d)
        [] OTHER -> Ep0Send(d)

\* mutant: what was being sent goes on
OnRxGoesOn(d, e) ==
  IF e.is = "setup" THEN [d EXCEPT !.setup = e.req, !.stup = TRUE]
  ELSE [d EXCEPT !.got = TRUE, !.buf = IF d.outReq /\ e.is = "data" THEN e.coding ELSE @]

(* on_rx(): a SETUP cancels what was being sent; a packet of data is read  *)
(* if a request waits for it.                                              *)
OnRx(d, e) ==
  IF e.is = "setup"
  THEN LET c == [d EXCEPT !.setup = e.req, !.left = 0, !.zlp = FALSE, !.stup = TRUE]
       IN  IF d.size >= 0 THEN [c EXCEPT !.nak = TRUE, !.fifo = <<>>, !.size = -1] ELSE c
  ELSE [d EXCEPT !.got = TRUE, !.buf = IF d.outReq /\ e.is = "data" THEN e.coding ELSE @]

(* on_out_ep(): the data stage's end, before a SETUP that came after it.   *)
OnOut(d) ==
  LET a == IF d.got /\ d.outReq THEN StatusIn([d EXCEPT !.line = d.buf, !.outReq = FALSE]) ELSE d
      b == IF d.stup THEN HandleSetup(a) ELSE a
  IN  [b EXCEPT !.armed = d.armed \/ d.got \/ d.stup, !.got = FALSE, !.stup = FALSE]

(* on_in_ep(): the packet has gone.                                        *)
OnIn(d) ==
  LET a == [d EXCEPT !.sent = FALSE]
  IN  IF ~d.sent THEN d ELSE IF d.left > 0 THEN SendNext(a) ELSE IF d.zlp THEN StatusIn(a) ELSE a

(* on_reset() *)
OnReset(d) ==
  IF ~d.reset THEN d
  ELSE [d EXCEPT !.left = 0, !.zlp = FALSE, !.outReq = FALSE, !.armed = TRUE, !.reset = FALSE,
                 !.fifo = <<>>, !.size = -1, !.nak = TRUE, !.sent = FALSE, !.stup = FALSE, !.got = FALSE]

(* The packets that came, in order.                                        *)
AllRead(d, rx) ==
  LET read[n \in 0 .. Len(rx)] == IF n = 0 THEN d ELSE OnRx(read[n - 1], rx[n]) IN read[Len(rx)]

(* usb_device_irq() *)
Pending0 == ep0.reset \/ ep0.rx # <<>> \/ ep0.stup \/ ep0.got \/ ep0.sent
Irq0 ==
  /\ Pending0 /\ UNCHANGED host0
  /\ LET d == OnReset(ep0) IN ep0' = OnIn(OnOut([AllRead(d, d.rx) EXCEPT !.rx = <<>>]))

-----------------------------------------------------------------------------
(* The host.                                                               *)

\* TRUE while what comes next waits for the interrupt handler.
Waits == Pending0 /\ ~LongMasks

(* A request, also while the last one goes on.                             *)
HostSetup ==
  /\ ~Waits /\ ~ep0.reset /\ Len(ep0.rx) < 2
  /\ \E r \in Requests, c \in Codings :
       /\ (r.kind # "line" => c = ep0.line)
       /\ host0' = [req |-> r, got |-> <<>>, coding |-> c,
                    stage |-> IF r.kind \in {"set", "bad"} THEN "status in" ELSE IF r.kind = "line" THEN "out" ELSE "in"]
       /\ ep0' = [ep0 EXCEPT !.rx = Append(@, [is |-> "setup", req |-> r, coding |-> c]), !.nak = TRUE, !.stall = FALSE]

(* An IN packet: of the reply, which ends with a short one or with the     *)
(* last byte asked for, or of the status stage.                            *)
HostTakes ==
  /\ host0.stage \in {"in", "status in"} /\ ~ep0.nak /\ ep0.size >= 0 /\ ~ep0.stall /\ ~ep0.reset
  /\ LET n == Least(ep0.size, Len(ep0.fifo))
         all == host0.got \o SubSeq(ep0.fifo, 1, n)
     IN  /\ ep0' = [ep0 EXCEPT !.fifo = SubSeq(@, n + 1, Len(@)), !.size = -1, !.nak = TRUE, !.sent = TRUE]
         /\ host0' = [host0 EXCEPT !.got = all,
                        !.stage = IF @ = "status in" THEN "done"
                                  ELSE IF n < MPS \/ Len(all) >= host0.req.wlength THEN "status out" ELSE "in"]

(* OUT: the line coding, or the status stage after a reply.                *)
HostGives ==
  /\ host0.stage \in {"out", "status out"} /\ ep0.armed /\ ~ep0.reset /\ ~ep0.stall
  /\ \A i \in DOMAIN ep0.rx : ep0.rx[i].is # "setup"
  /\ ep0' = [ep0 EXCEPT !.armed = FALSE,
                        !.rx = Append(@, [is |-> IF host0.stage = "out" THEN "data" ELSE "empty",
                                          req |-> Nothing, coding |-> host0.coding])]
  /\ host0' = [host0 EXCEPT !.stage = IF @ = "out" THEN "status in" ELSE "done"]

HostStalled ==
  /\ host0.stage \in {"in", "out", "status in", "status out"} /\ ep0.stall /\ host0' = [host0 EXCEPT !.stage = "refused"]
  /\ UNCHANGED ep0

HostReset ==
  /\ ~Pending0 /\ ep0' = [ep0 EXCEPT !.reset = TRUE] /\ host0' = [host0 EXCEPT !.stage = "idle", !.req = Nothing, !.got = <<>>]

ControlInit ==
  \E c \in Codings :
    /\ ep0 = [Ep0Init(c) EXCEPT !.armed = TRUE]
    /\ host0 = [req |-> Nothing, got |-> <<>>, coding |-> c, stage |-> "idle"]

ControlStep == Irq0 \/ HostSetup \/ HostTakes \/ HostGives \/ HostStalled \/ HostReset

-----------------------------------------------------------------------------
(* "at most what the host asked for": a reply that is over is the first    *)
(* wLength bytes of what was asked for, or all of it, nothing of a request *)
(* that was given up; a request that was accepted had its effect, and only *)
(* one that is not supported is refused.                                   *)
RepliesExact ==
  /\ host0.stage = "status out" \/ (host0.stage = "done" /\ host0.req.kind \notin {"set", "line"}) =>
       host0.got = [i \in 1 .. Least(host0.req.len, host0.req.wlength) |-> <<host0.req.kind, i>>]
  /\ host0.stage = "done" /\ host0.req.kind = "line" => ep0.line = host0.coding
  /\ host0.stage = "done" => host0.req.kind # "bad"
  /\ host0.stage = "refused" => host0.req.kind = "bad"

(* A host that does not give up gets an end: "a reply shorter than *)
(* that which ends on a full packet needs a ZLP to end the stage".         *)
RequestsEnd ==
  []<>(\/ host0.stage \in {"idle", "done", "refused"}
       \/ \E i \in DOMAIN ep0.rx : ep0.rx[i].is = "setup")
=============================================================================

------------------------------ MODULE UsbDevice ------------------------------
(***************************************************************************)
(* The data path of usb/usb_device.c and the rings of usb/usb_cdc.c: the   *)
(* interrupt handler between any two statements of the main loop, the      *)
(* OTG_FS core, and a PC that plugs, resets, configures and moves packets. *)
(*                                                                         *)
(* The bytes of each direction are numbered (modulo a count), so that a byte *)
(* lost, repeated or out of order shows.  Endpoint 0 is reduced to         *)
(* SET_CONFIGURATION, the one request that touches the data path.          *)
(***************************************************************************)
EXTENDS Integers, Sequences, FiniteSets

CONSTANTS
  RxSize, TxSize,    \* USB_RX_BUFSIZE, USB_TX_BUFSIZE
  Mps,               \* MPS
  RxCount, TxCount   \* bytes are numbered modulo these

ASSUME Sizes ==
  /\ RxSize \in Nat /\ TxSize \in Nat \ {0} /\ Mps \in Nat \ {0}
  /\ Mps < RxSize /\ RxCount \in Nat /\ TxCount \in Nat
  /\ RxSize <= RxCount          \* more than the ring and the FIFO hold together
  /\ TxSize + Mps <= TxCount    \* more than the ring and the packet in flight

VARIABLES
  rxbuf, rxHead, rxTail,     \* s_rxbuf, s_rx_head, s_rx_tail
  txbuf, txHead, txTail,     \* s_txbuf, s_tx_head, s_tx_tail
  config, txBusy, txZlp, rxArmed, connected,    \* s_config, s_tx_busy, ...
  vbus, reset, sedet, setup, mask,    \* the core: what is pending, DAINTMSK
  out, fifo, outDone,        \* EP1 OUT: accepts a packet; receive FIFO; XFRC
  in, inDone,                \* EP1 IN: the packet in its FIFO; XFRC
  pc, local, seen,           \* the main loop; the byte and the VBUS it read
  rxNext, txNext,            \* the next byte the main loop takes, and gives
  host                       \* the PC

ring == <<rxbuf, rxHead, rxTail, txbuf, txHead, txTail>>
device == <<config, txBusy, txZlp, rxArmed, connected>>
core == <<vbus, reset, sedet, setup, mask, out, fifo, outDone, in, inDone>>
main == <<pc, local, seen, rxNext, txNext>>
vars == <<rxbuf, rxHead, rxTail, txbuf, txHead, txTail, config, txBusy, txZlp, rxArmed,
          connected, vbus, reset, sedet, setup, mask, out, fifo, outDone, in, inDone,
          pc, local, seen, rxNext, txNext, host>>

-----------------------------------------------------------------------------
(* The rings: one slot stays empty *)

RxFree == (rxHead - rxTail - 1 + RxSize) % RxSize
Available == (rxTail - rxHead + RxSize) % RxSize
TxUsed == (txTail - txHead + TxSize) % TxSize

RxContent == [i \in 1 .. Available |-> rxbuf[(rxHead + i - 1) % RxSize]]
TxContent == [i \in 1 .. TxUsed |-> txbuf[(txHead + i - 1) % TxSize]]

Smaller(m, n) == IF m < n THEN m ELSE n

(* usb_cdc_rx_push(): what does not fit is dropped.                        *)
RxPush(pkt) ==
  LET n == Smaller(Len(pkt), RxFree)
  IN  /\ rxbuf' = [s \in DOMAIN rxbuf |->
                     LET i == (s - rxTail + RxSize) % RxSize
                     IN  IF i < n THEN pkt[i + 1] ELSE rxbuf[s]]
      /\ rxTail' = (rxTail + n) % RxSize

-----------------------------------------------------------------------------
(* The data endpoints: cfg, armed, accepts, busy and zlp are what the      *)
(* caller has made of config, rxArmed, out, txBusy and txZlp before.       *)

RxRoomAny == RxFree > 0       \* mutant: room for a byte
RxRoom == RxFree >= Mps

(* rx_maybe_arm() *)
RxMaybeArm(cfg, armed, accepts) ==
  IF cfg /\ ~armed /\ RxRoom THEN rxArmed' = TRUE /\ out' = TRUE
  ELSE rxArmed' = armed /\ out' = accepts

\* mutant: a full packet is not remembered
TxMaybeSendNoZlp(cfg, busy, zlp) ==
  LET n == Smaller(TxUsed, Mps)
  IN  IF ~cfg \/ busy \/ n = 0 THEN txBusy' = busy /\ txZlp' = zlp /\ UNCHANGED <<in, txHead>>
      ELSE /\ txBusy' = TRUE /\ txZlp' = FALSE
           /\ in' = <<SubSeq(TxContent, 1, n)>> /\ txHead' = (txHead + n) % TxSize
\* mutant: whether a packet is in flight is not looked at
TxMaybeSendTwice(cfg, busy, zlp) ==
  LET n == Smaller(TxUsed, Mps)
  IN  IF ~cfg \/ (n = 0 /\ ~zlp)
      THEN txBusy' = busy /\ txZlp' = zlp /\ UNCHANGED <<in, txHead>>
      ELSE /\ txBusy' = TRUE /\ txZlp' = (n = Mps)
           /\ in' = <<SubSeq(TxContent, 1, n)>> /\ txHead' = (txHead + n) % TxSize

(* tx_maybe_send(): the next packet, or an empty one after a full one.     *)
TxMaybeSend(cfg, busy, zlp) ==
  LET n == Smaller(TxUsed, Mps)
  IN  IF ~cfg \/ busy \/ (n = 0 /\ ~zlp)
      THEN txBusy' = busy /\ txZlp' = zlp /\ UNCHANGED <<in, txHead>>
      ELSE /\ txBusy' = TRUE /\ txZlp' = (n = Mps)
           /\ in' = <<SubSeq(TxContent, 1, n)>> /\ txHead' = (txHead + n) % TxSize

(* deconfigure() flushes the transmit FIFO, and the packet in it.          *)
Deconfigure ==
  /\ config' = FALSE /\ txBusy' = FALSE /\ txZlp' = FALSE /\ rxArmed' = FALSE
  /\ IF config THEN in' = <<>> /\ out' = FALSE ELSE UNCHANGED <<in, out>>

-----------------------------------------------------------------------------
(* usb_device_irq(), one cause at a time *)

Pending ==
  \/ reset \/ sedet \/ setup # "none" \/ fifo # <<>>
  \/ mask /\ (outDone \/ inDone)

IrqReset ==
  /\ reset /\ reset' = FALSE
  /\ Deconfigure
  /\ outDone' = FALSE /\ inDone' = FALSE /\ mask' = FALSE
  /\ UNCHANGED <<ring, connected, vbus, sedet, setup, fifo, main, host>>

IrqRx ==
  /\ fifo # <<>> /\ RxPush(Head(fifo))
  /\ fifo' = Tail(fifo) /\ outDone' = TRUE
  /\ UNCHANGED <<rxHead, txbuf, txHead, txTail, device, vbus, reset, sedet, setup, mask, out,
                 in, inDone, main, host>>

(* SET_CONFIGURATION: deconfigure(), then configure() if it is 1.  The     *)
(* receive FIFO keeps the packets in order: what came before is read.      *)
IrqSetup ==
  /\ setup # "none" /\ fifo = <<>> /\ setup' = "none"
  /\ config' = (setup = "on") /\ txBusy' = FALSE /\ txZlp' = FALSE
  /\ in' = (IF config THEN <<>> ELSE in) /\ mask' = (mask \/ setup = "on")
  /\ RxMaybeArm(setup = "on", FALSE, FALSE)
  /\ host' = [host EXCEPT !.asked = setup, !.open = FALSE]
  /\ UNCHANGED <<ring, connected, vbus, reset, sedet, fifo, outDone, inDone, main>>

(* EP1 OUT: the packet is in the ring.                                     *)
IrqOut ==
  /\ outDone /\ mask /\ fifo = <<>> /\ outDone' = FALSE
  /\ RxMaybeArm(config, FALSE, out)
  /\ UNCHANGED <<ring, config, txBusy, txZlp, connected, vbus, reset, sedet, setup, mask, fifo,
                 in, inDone, main, host>>

(* EP1 IN: the PC has the packet.                                          *)
IrqIn ==
  /\ inDone /\ mask /\ inDone' = FALSE
  /\ TxMaybeSend(config, FALSE, txZlp)
  /\ UNCHANGED <<rxbuf, rxHead, rxTail, txbuf, txTail, config, rxArmed, connected, vbus, reset,
                 sedet, setup, mask, out, fifo, outDone, main, host>>

(* VBUS gone *)
IrqSessionEnd ==
  /\ sedet /\ sedet' = FALSE
  /\ Deconfigure
  /\ UNCHANGED <<ring, connected, vbus, reset, setup, mask, fifo, outDone, inDone, main, host>>

Irq == IrqReset \/ IrqRx \/ IrqSetup \/ IrqOut \/ IrqIn \/ IrqSessionEnd

-----------------------------------------------------------------------------
(* The main loop: usb_device_poll() and the protocol's use of the rings.   *)
(* A pending interrupt is taken before the next step; the steps of poll    *)
(* run with interrupts off, so that one that comes meanwhile waits.        *)

MainUnchanged == UNCHANGED <<local, rxNext, txNext, vbus, reset, sedet, setup, mask, host>>

PollVbus ==
  /\ pc = "poll" /\ ~Pending /\ seen' = vbus /\ pc' = "connect"
  /\ UNCHANGED <<ring, device, out, fifo, outDone, in, inDone>> /\ MainUnchanged

PollConnect ==
  /\ pc = "connect" /\ ~Pending /\ pc' = "arm" /\ connected' = seen /\ seen' = FALSE
  /\ IF connected /\ ~seen THEN Deconfigure
     ELSE UNCHANGED <<config, txBusy, txZlp, rxArmed, in, out>>
  /\ UNCHANGED <<ring, fifo, outDone, inDone>> /\ MainUnchanged

\* mutant: only the interrupt handler arms
PollArmTxOnly ==
  /\ pc = "arm" /\ ~Pending /\ pc' = "read" /\ UNCHANGED seen
  /\ UNCHANGED <<rxArmed, out>> /\ TxMaybeSend(config, txBusy, txZlp)
  /\ UNCHANGED <<rxbuf, rxHead, rxTail, txbuf, txTail, config, connected, fifo, outDone, inDone>>
  /\ MainUnchanged

(* Resume receiving, and send what was queued.                             *)
PollArm ==
  /\ pc = "arm" /\ ~Pending /\ pc' = "read" /\ UNCHANGED seen
  /\ RxMaybeArm(config, rxArmed, out) /\ TxMaybeSend(config, txBusy, txZlp)
  /\ UNCHANGED <<rxbuf, rxHead, rxTail, txbuf, txTail, config, connected, fifo, outDone, inDone>>
  /\ MainUnchanged

(* usb_cdc_read(): the byte, then the index.                               *)
ReadByte ==
  /\ pc = "read" /\ ~Pending /\ Available > 0
  /\ local' = rxbuf[rxHead] /\ pc' = "taken"
  /\ UNCHANGED <<ring, device, core, seen, rxNext, txNext, host>>

ReadDone ==
  /\ pc = "taken" /\ ~Pending
  /\ rxHead' = (rxHead + 1) % RxSize /\ rxNext' = (local + 1) % RxCount
  /\ pc' = "write" /\ local' = 0
  /\ UNCHANGED <<rxbuf, rxTail, txbuf, txHead, txTail, device, core, seen, txNext, host>>

ReadNothing ==
  /\ pc = "read" /\ ~Pending /\ pc' = "write"
  /\ UNCHANGED <<ring, device, core, local, seen, rxNext, txNext, host>>

(* usb_cdc_write(): the byte, then the index.                              *)
WriteByte ==
  /\ pc = "write" /\ ~Pending /\ (txTail + 1) % TxSize # txHead
  /\ txbuf' = [txbuf EXCEPT ![txTail] = txNext] /\ pc' = "given"
  /\ UNCHANGED <<rxbuf, rxHead, rxTail, txHead, txTail, device, core, local, seen, rxNext, txNext, host>>

WriteDone ==
  /\ pc = "given" /\ ~Pending
  /\ txTail' = (txTail + 1) % TxSize /\ txNext' = (txNext + 1) % TxCount
  /\ pc' = "poll"
  /\ UNCHANGED <<rxbuf, rxHead, rxTail, txbuf, txHead, device, core, local, seen, rxNext, host>>

WriteNothing ==
  /\ pc = "write" /\ ~Pending /\ pc' = "poll"
  /\ UNCHANGED <<ring, device, core, local, seen, rxNext, txNext, host>>

Reading == ReadByte \/ ReadDone
Main ==
  \/ PollVbus \/ PollConnect \/ PollArm \/ Reading \/ ReadNothing
  \/ WriteByte \/ WriteDone \/ WriteNothing

-----------------------------------------------------------------------------
(* The PC and its controller.  Bus events take milliseconds: the interrupt *)
(* handler, and a poll that has begun, are over before the next stage of   *)
(* an enumeration.                                                         *)

HostUnchanged == UNCHANGED <<ring, device, main>>

Plug ==
  /\ ~vbus /\ pc # "connect" /\ ~Pending /\ vbus' = TRUE
  /\ UNCHANGED <<reset, sedet, setup, mask, out, fifo, outDone, in, inDone, host>> /\ HostUnchanged

Unplug ==
  /\ vbus /\ vbus' = FALSE /\ sedet' = TRUE /\ setup' = "none"
  /\ host' = [host EXCEPT !.configured = FALSE, !.asked = "none", !.open = FALSE, !.expects = 0]
  /\ UNCHANGED <<reset, mask, out, fifo, outDone, in, inDone>> /\ HostUnchanged

BusReset ==
  /\ vbus /\ connected /\ ~Pending /\ pc # "connect" /\ reset' = TRUE
  /\ host' = [host EXCEPT !.configured = FALSE, !.asked = "none", !.open = FALSE, !.expects = 0]
  /\ UNCHANGED <<vbus, sedet, setup, mask, out, fifo, outDone, in, inDone>> /\ HostUnchanged

(* SET_CONFIGURATION: of a device just reset, or once more.                *)
Configure ==
  /\ vbus /\ connected /\ ~reset /\ setup = "none" /\ host.asked = "none"
  /\ \E value \in {"on", "off"} : setup' = value
  /\ host' = [host EXCEPT !.configured = FALSE, !.open = FALSE, !.expects = 0]
  /\ UNCHANGED <<vbus, reset, sedet, mask, out, fifo, outDone, in, inDone>> /\ HostUnchanged

InFlight == IF in = <<>> THEN <<>> ELSE in[1]
TxPipe == InFlight \o TxContent

(* The status stage of SET_CONFIGURATION.                                  *)
Configured ==
  /\ host.asked # "none" /\ ~Pending
  /\ host' = [host EXCEPT !.asked = "none", !.configured = (host.asked = "on"), !.open = FALSE,
                          !.expects = IF host.asked = "on" THEN (txNext - Len(TxPipe) + TxCount) % TxCount ELSE 0]
  /\ UNCHANGED core /\ HostUnchanged

(* A packet to the calculator, which takes it if EP1 OUT is armed.         *)
HostOut ==
  /\ host.configured /\ ~reset /\ out
  /\ \E n \in 1 .. Mps :
       /\ fifo' = Append(fifo, [i \in 1 .. n |-> (host.sent + i - 1) % RxCount])
       /\ host' = [host EXCEPT !.sent = (@ + n) % RxCount]
  /\ out' = FALSE
  /\ UNCHANGED <<vbus, reset, sedet, setup, mask, outDone, in, inDone>> /\ HostUnchanged

(* A packet from the calculator, if it has one.                            *)
HostIn ==
  /\ host.configured /\ ~reset /\ in # <<>>
  /\ in' = <<>> /\ inDone' = TRUE
  /\ host' = [host EXCEPT !.open = (Len(in[1]) = Mps), !.expects = (@ + Len(in[1])) % TxCount]
  /\ UNCHANGED <<vbus, reset, sedet, setup, mask, out, fifo, outDone>> /\ HostUnchanged

Host == Plug \/ Unplug \/ BusReset \/ Configure \/ Configured \/ HostOut \/ HostIn

-----------------------------------------------------------------------------
(* usb_device_init() has run; VBUS is not there yet.                       *)
Init ==
  /\ rxbuf = [s \in 0 .. RxSize - 1 |-> 0] /\ rxHead = 0 /\ rxTail = 0
  /\ txbuf = [s \in 0 .. TxSize - 1 |-> 0] /\ txHead = 0 /\ txTail = 0
  /\ config = FALSE /\ txBusy = FALSE /\ txZlp = FALSE /\ rxArmed = FALSE /\ connected = FALSE
  /\ vbus = FALSE /\ reset = FALSE /\ sedet = FALSE /\ setup = "none" /\ mask = FALSE
  /\ out = FALSE /\ fifo = <<>> /\ outDone = FALSE /\ in = <<>> /\ inDone = FALSE
  /\ pc = "poll" /\ local = 0 /\ seen = FALSE /\ rxNext = 0 /\ txNext = 0
  /\ host = [configured |-> FALSE, asked |-> "none", sent |-> 0, expects |-> 0, open |-> FALSE]

Next == Irq \/ Main \/ Host
Spec == Init /\ [][Next]_vars

-----------------------------------------------------------------------------
(* Properties *)

Numbers(first, next, count) ==
  [i \in 1 .. (next - first + count) % count |-> (first + i - 1) % count]

(* "a fast PC is NAKed instead of losing data": every byte the core has    *)
(* taken is in the FIFO or the ring, once and in order, until the main     *)
(* loop has it, through resets and new configurations.                     *)
RxInOrder ==
  /\ RxContent \o (IF fifo = <<>> THEN <<>> ELSE fifo[1]) = Numbers(rxNext, host.sent, RxCount)
  /\ pc = "taken" => local = rxNext

(* Every byte queued is in the ring or in flight, once and in order, until *)
(* the PC has it; only a reset or a new configuration drops the packet in  *)
(* flight.                                                                 *)
TxInOrder ==
  /\ TxPipe = Numbers((txNext - Len(TxPipe) + TxCount) % TxCount, txNext, TxCount)
  /\ host.configured => Len(TxPipe) = (txNext - host.expects + TxCount) % TxCount

(* Receiving never stalls: the endpoint is armed again once there is room, *)
(* whoever notices it first.                                               *)
RxResumes == []<>(host.configured => out)

(* "A transfer to the PC that ends on a full packet is closed with a       *)
(* zero-length packet": the PC is never left waiting for the end of one.   *)
TransferEnds == []<>(host.configured /\ host.open => TxUsed > 0)

(* Both directions keep every byte, once and in order, and both go on.     *)
BytesInOrder == RxInOrder /\ TxInOrder
TransfersGoOn == RxResumes /\ TransferEnds
=============================================================================

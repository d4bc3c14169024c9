---------------------------- MODULE UsbDeviceProofs ----------------------------
(***************************************************************************)
(* Proofs about UsbDevice: no byte is lost, repeated or out of order, for  *)
(* rings and packets of any size, wherever the interrupt handler comes in  *)
(* between, and whatever the PC does to the bus.                           *)
(***************************************************************************)
EXTENDS UsbDevice, SequenceTheorems, TLAPS

(* How far b is ahead of a around a ring of n.                             *)
Ahead(a, b, n) == (b - a + n) % n

(* What is in the receive FIFO, which never holds more than one packet.    *)
InFifo == IF fifo = <<>> THEN <<>> ELSE fifo[1]

(***************************************************************************)
(* The inductive invariant, by its parts.  A slot of a ring that is in use *)
(* holds the number that its distance from the head gives it, and so does  *)
(* each byte of the packet that is in the FIFO before or behind the ring.  *)
(***************************************************************************)
RxTypes ==
  /\ rxHead \in 0 .. RxSize - 1 /\ rxTail \in 0 .. RxSize - 1
  /\ rxNext \in 0 .. RxCount - 1 /\ DOMAIN rxbuf = 0 .. RxSize - 1

RxSlots ==
  \A s \in 0 .. RxSize - 1 :
    Ahead(rxHead, s, RxSize) < Available => rxbuf[s] = (rxNext + Ahead(rxHead, s, RxSize)) % RxCount

(* The endpoint only accepts a packet that the ring has room for, and      *)
(* keeps its room until it is there.                                       *)
RxPacket ==
  /\ out => fifo = <<>> /\ RxRoom
  /\ fifo \in Seq(Seq(0 .. RxCount - 1)) /\ Len(fifo) <= 1
  /\ Len(InFifo) <= RxFree
  /\ \A i \in 1 .. Len(InFifo) : InFifo[i] = (rxNext + Available + i - 1) % RxCount
  /\ host.sent = (rxNext + Available + Len(InFifo)) % RxCount

RxRead == pc = "taken" => Available > 0 /\ local = rxNext

TxTypes ==
  /\ txHead \in 0 .. TxSize - 1 /\ txTail \in 0 .. TxSize - 1
  /\ txNext \in 0 .. TxCount - 1 /\ DOMAIN txbuf = 0 .. TxSize - 1
  /\ in \in Seq(Seq(0 .. TxCount - 1)) /\ Len(in) <= 1
  /\ Len(InFlight) <= Mps

TxSlots ==
  \A s \in 0 .. TxSize - 1 :
    Ahead(txHead, s, TxSize) < TxUsed => txbuf[s] = (txNext - TxUsed + Ahead(txHead, s, TxSize) + TxCount) % TxCount

TxPacket ==
  \A i \in 1 .. Len(InFlight) :
    InFlight[i] = (txNext - TxUsed - Len(InFlight) + i - 1 + TxCount) % TxCount

TxBytes == TxTypes /\ TxSlots /\ TxPacket

TxWrite == pc = "given" => TxUsed < TxSize - 1 /\ txbuf[txTail] = txNext

(* A packet is only in the FIFO of a configured device that knows of it;   *)
(* the interrupt that says it is gone comes before the next one is there.  *)
TxOne ==
  /\ config => mask
  /\ in # <<>> => config /\ txBusy /\ ~inDone

(* What will drop the packet in flight is not there while the PC reads.    *)
Linked ==
  /\ host \in [configured : BOOLEAN, asked : {"none", "on", "off"}, sent : 0 .. RxCount - 1,
               expects : 0 .. TxCount - 1, open : BOOLEAN]
  /\ vbus \in BOOLEAN /\ seen \in BOOLEAN /\ setup \in {"none", "on", "off"}
  /\ host.configured => vbus /\ ~reset /\ ~sedet /\ setup = "none"
  /\ setup # "none" \/ host.asked # "none" => vbus
  /\ pc = "connect" /\ ~seen => ~vbus
TxExpected ==
  host.configured => TxUsed + Len(InFlight) = Ahead(host.expects, txNext, TxCount)

RxInv == RxTypes /\ RxSlots /\ RxPacket /\ RxRead
TxInv == TxBytes /\ TxWrite /\ TxOne /\ TxExpected
DataInv == RxInv /\ Linked /\ TxInv

-----------------------------------------------------------------------------
(* Around a ring *)

(* The distance around a ring, without the remainder.                      *)
LEMMA AheadIs ==
  ASSUME NEW n \in Nat \ {0}, NEW a \in 0 .. n - 1, NEW b \in 0 .. n - 1
  PROVE  /\ Ahead(a, b, n) = IF a <= b THEN b - a ELSE b - a + n
         /\ Ahead(a, b, n) \in 0 .. n - 1
BY DEF Ahead

(* Where a slot lies when the head is moved on.                            *)
LEMMA HeadMoved ==
  ASSUME NEW n \in Nat \ {0}, NEW a \in 0 .. n - 1, NEW k \in 0 .. n - 1, NEW s \in 0 .. n - 1
  PROVE  Ahead((a + k) % n, s, n) =
           IF Ahead(a, s, n) < k THEN Ahead(a, s, n) - k + n ELSE Ahead(a, s, n) - k
<1>1. (a + k) % n = IF a + k < n THEN a + k ELSE a + k - n
  OBVIOUS
<1>2. PICK m \in 0 .. n - 1 : m = (a + k) % n
  BY <1>1
<1>3. /\ Ahead(m, s, n) = IF m <= s THEN s - m ELSE s - m + n
      /\ Ahead(a, s, n) = IF a <= s THEN s - a ELSE s - a + n
  BY AheadIs
<1>. QED BY <1>1, <1>2, <1>3

(* How much lies before the tail when the tail is moved on.                *)
LEMMA TailMoved ==
  ASSUME NEW n \in Nat \ {0}, NEW a \in 0 .. n - 1, NEW k \in 0 .. n - 1, NEW s \in 0 .. n - 1
  PROVE  Ahead(s, (a + k) % n, n) =
           IF Ahead(s, a, n) + k < n THEN Ahead(s, a, n) + k ELSE Ahead(s, a, n) + k - n
<1>1. (a + k) % n = IF a + k < n THEN a + k ELSE a + k - n
  OBVIOUS
<1>2. PICK m \in 0 .. n - 1 : m = (a + k) % n
  BY <1>1
<1>3. /\ Ahead(s, m, n) = IF s <= m THEN m - s ELSE m - s + n
      /\ Ahead(s, a, n) = IF s <= a THEN a - s ELSE a - s + n
  BY AheadIs
<1>. QED BY <1>1, <1>2, <1>3

(* From the head to a slot by way of the tail.                             *)
LEMMA AheadVia ==
  ASSUME NEW n \in Nat \ {0}, NEW a \in 0 .. n - 1, NEW t \in 0 .. n - 1, NEW s \in 0 .. n - 1
  PROVE  /\ Ahead(a, s, n) \in 0 .. n - 1
         /\ Ahead(a, s, n) = IF Ahead(a, t, n) + Ahead(t, s, n) < n THEN Ahead(a, t, n) + Ahead(t, s, n)
                             ELSE Ahead(a, t, n) + Ahead(t, s, n) - n
<1>1. /\ Ahead(a, s, n) = IF a <= s THEN s - a ELSE s - a + n
      /\ Ahead(a, t, n) = IF a <= t THEN t - a ELSE t - a + n
      /\ Ahead(t, s, n) = IF t <= s THEN s - t ELSE s - t + n
  BY AheadIs
<1>. QED BY <1>1

(* Numbers counted on by two amounts are counted on by their sum.          *)
LEMMA CountedOn ==
  ASSUME NEW n \in Nat \ {0}, NEW x \in 0 .. n - 1, NEW j \in 0 .. n - 1, NEW k \in Nat, j + k < n
  PROVE  (((x + j) % n) + k) % n = (x + j + k) % n
<1>1. x + j \in 0 .. n + n - 1 /\ x + j + k \in 0 .. n + n - 1
  OBVIOUS
<1>2. /\ (x + j) % n = IF x + j < n THEN x + j ELSE x + j - n
      /\ (x + j + k) % n = IF x + j + k < n THEN x + j + k ELSE x + j + k - n
  BY <1>1
<1>3. PICK y \in 0 .. n - 1 : y = (x + j) % n
  BY <1>1, <1>2
<1>4. y + k \in 0 .. n + n - 1
  BY <1>2, <1>3
<1>5. (y + k) % n = IF y + k < n THEN y + k ELSE y + k - n
  BY <1>4
<1>. QED BY <1>2, <1>3, <1>5

-----------------------------------------------------------------------------
(* The receive ring *)

LEMMA RxRing ==
  ASSUME RxTypes
  PROVE  /\ RxSize \in Nat \ {0} /\ RxCount \in Nat \ {0} /\ Mps \in Nat \ {0} /\ Mps < RxSize /\ RxSize <= RxCount
         /\ Available = Ahead(rxHead, rxTail, RxSize)
         /\ Available \in 0 .. RxSize - 1
         /\ RxFree = RxSize - 1 - Available
<1>1. RxSize \in Nat \ {0} /\ RxCount \in Nat \ {0} /\ Mps \in Nat \ {0} /\ Mps < RxSize /\ RxSize <= RxCount
  BY Sizes
<1>2. Available = Ahead(rxHead, rxTail, RxSize)
  BY DEF Available, Ahead
<1>3. Available = IF rxHead <= rxTail THEN rxTail - rxHead ELSE rxTail - rxHead + RxSize
  BY <1>1, <1>2, AheadIs DEF RxTypes
<1>4. rxHead - rxTail - 1 + RxSize \in 0 .. RxSize + RxSize - 1
  BY <1>1 DEF RxTypes
<1>5. RxFree = IF rxHead - rxTail - 1 + RxSize < RxSize THEN rxHead - rxTail - 1 + RxSize
                ELSE rxHead - rxTail - 1 + RxSize - RxSize
  BY <1>1, <1>4 DEF RxFree, RxTypes
<1>. QED BY <1>1, <1>2, <1>3, <1>5 DEF RxTypes

(* What the core has given the handler is one packet at most.              *)
LEMMA OnePacket ==
  ASSUME NEW S, NEW q \in Seq(Seq(S)), Len(q) <= 1, q # <<>>
  PROVE  /\ q[1] \in Seq(S) /\ Head(q) = q[1] /\ Tail(q) = <<>>
<1>1. Len(q) = 1
  <2>1. Len(q) \in Nat \ {0}
    BY EmptySeq, Zenon
  <2>2. \A n \in Nat \ {0} : n <= 1 => n = 1
    OBVIOUS
  <2>. QED BY <2>1, <2>2, Zenon
<1>2. q[1] \in Seq(S)
  BY <1>1, ElementOfSeq
<1>3. Len(Tail(q)) = 0 /\ Tail(q) \in Seq(Seq(S)) /\ Head(q) = q[1]
  BY <1>1, HeadTailProperties
<1>4. Tail(q) = <<>>
  BY <1>3, EmptySeq, Zenon
<1>. QED BY <1>2, <1>3, <1>4

(* Steps that neither give the ring bytes nor take some from it.           *)
LEMMA RxKept ==
  ASSUME RxInv, UNCHANGED <<rxbuf, rxHead, rxTail, rxNext, fifo>>, host'.sent = host.sent,
         out' => out \/ (fifo = <<>> /\ RxRoom), RxRead'
  PROVE  RxInv'
<1>1. Available' = Available /\ RxFree' = RxFree /\ InFifo' = InFifo /\ (RxRoom' <=> RxRoom)
  BY DEF Available, RxFree, InFifo, RxRoom
<1>2. RxTypes'
  BY DEF RxInv, RxTypes
<1>3. RxSlots'
  BY <1>1 DEF RxInv, RxSlots
<1>4. RxPacket'
  BY <1>1 DEF RxInv, RxPacket
<1>. QED BY <1>2, <1>3, <1>4 DEF RxInv

(* A packet that fits goes behind what the ring holds.                     *)
LEMMA RxPushed ==
  ASSUME RxInv, IrqRx
  PROVE  RxInv'
<1>. USE RxRing DEF RxInv
<1> DEFINE pkt == Head(fifo)  k == Len(pkt)
<1>1. /\ fifo # <<>> /\ pkt = InFifo /\ pkt \in Seq(0 .. RxCount - 1) /\ k \in Nat /\ k <= RxFree
      /\ fifo' = <<>> /\ InFifo' = <<>> /\ ~out
  BY OnePacket DEF IrqRx, RxPacket, InFifo
<1>2. Smaller(k, RxFree) = k
  BY <1>1 DEF Smaller
<1>3. rxTail' = (rxTail + k) % RxSize
  BY <1>2 DEF IrqRx, RxPush
<1>4. \A s \in 0 .. RxSize - 1 :
        rxbuf'[s] = IF Ahead(rxTail, s, RxSize) < k THEN pkt[Ahead(rxTail, s, RxSize) + 1] ELSE rxbuf[s]
  BY <1>2 DEF IrqRx, RxPush, RxTypes, Ahead
<1>5. DOMAIN rxbuf' = 0 .. RxSize - 1
  BY DEF IrqRx, RxPush, RxTypes
<1>6. UNCHANGED <<rxHead, rxNext, host, out, pc, local>>
  BY DEF IrqRx, main
<1>. HIDE DEF pkt, k
<1>7. k \in 0 .. RxSize - 1 /\ Available + k < RxSize
  BY <1>1
<1>8. rxTail' \in 0 .. RxSize - 1 /\ Ahead(rxHead, rxTail', RxSize) = Available + k
  <2>1. RxSize \in Nat \ {0} /\ rxTail \in 0 .. RxSize - 1 /\ rxHead \in 0 .. RxSize - 1
    BY DEF RxTypes
  <2>2. Ahead(rxHead, (rxTail + k) % RxSize, RxSize) =
          IF Ahead(rxHead, rxTail, RxSize) + k < RxSize THEN Ahead(rxHead, rxTail, RxSize) + k
          ELSE Ahead(rxHead, rxTail, RxSize) + k - RxSize
    BY <1>7, <2>1, TailMoved, Zenon
  <2>3. Available = Ahead(rxHead, rxTail, RxSize) /\ (rxTail + k) % RxSize \in 0 .. RxSize - 1
    BY <1>7, <2>1
  <2>. QED BY <1>3, <1>7, <2>2, <2>3
<1>9. RxTypes'
  BY <1>5, <1>6, <1>8 DEF RxTypes
<1>10. Available' = Available + k
  BY <1>6, <1>8 DEF Available, Ahead
<1>11. RxSlots'
  <2> SUFFICES ASSUME NEW s \in 0 .. RxSize - 1, Ahead(rxHead, s, RxSize) < Available + k
               PROVE  rxbuf'[s] = (rxNext + Ahead(rxHead, s, RxSize)) % RxCount
    BY <1>6, <1>10 DEF RxSlots
  <2> DEFINE i == Ahead(rxTail, s, RxSize)  d == Ahead(rxHead, s, RxSize)
  <2>1. i \in 0 .. RxSize - 1 /\ d \in 0 .. RxSize - 1
        /\ d = IF Available + i < RxSize THEN Available + i ELSE Available + i - RxSize
    <3>1. RxSize \in Nat \ {0} /\ rxTail \in 0 .. RxSize - 1 /\ rxHead \in 0 .. RxSize - 1
      BY DEF RxTypes
    <3>2. d \in 0 .. RxSize - 1 /\ i \in 0 .. RxSize - 1
      BY <3>1, AheadIs, Zenon
    <3>3. d = IF Ahead(rxHead, rxTail, RxSize) + i < RxSize THEN Ahead(rxHead, rxTail, RxSize) + i
              ELSE Ahead(rxHead, rxTail, RxSize) + i - RxSize
      BY <3>1, AheadVia, Zenon
    <3>. QED BY <3>2, <3>3
  <2>. HIDE DEF i, d
  <2>2. CASE i < k
    <3>1. d = Available + i /\ i + 1 \in 1 .. k
      BY <1>7, <2>1, <2>2
    <3>2. pkt[i + 1] = (rxNext + Available + (i + 1) - 1) % RxCount
      BY <1>1, <3>1 DEF RxPacket, k
    <3>3. rxNext + Available + (i + 1) - 1 = rxNext + d
      BY <2>1, <3>1 DEF RxTypes
    <3>. QED BY <1>4, <2>2, <3>2, <3>3 DEF i, d
  <2>3. CASE ~(i < k)
    <3>1. d < Available
      BY <1>7, <2>1, <2>3 DEF d
    <3>. QED BY <1>4, <2>3, <3>1 DEF i, d, RxSlots
  <2>. QED BY <2>2, <2>3
<1>12. RxPacket'
  <2>1. rxNext + Available' + Len(<<>>) = rxNext + Available + k
    BY <1>7, <1>10 DEF RxTypes
  <2>2. host.sent = (rxNext + Available + k) % RxCount
    BY <1>1 DEF RxPacket, k
  <2>3. RxFree' >= 0
    <3>1. RxTypes' => (RxFree = RxSize - 1 - Available)'
      BY RxRing, PTL
    <3>. QED BY <1>7, <1>9, <1>10, <3>1
  <2>. QED BY <1>1, <1>6, <2>1, <2>2, <2>3 DEF RxPacket
<1>13. RxRead'
  BY <1>6, <1>7, <1>10 DEF RxRead
<1>. QED BY <1>9, <1>11, <1>12, <1>13

(* The main loop's step past the byte it has read.                         *)
LEMMA RxTaken ==
  ASSUME RxInv, ReadDone
  PROVE  RxInv'
<1>. USE RxRing DEF RxInv
<1>1. /\ RxSize \in Nat \ {0} /\ RxCount \in Nat \ {0} /\ RxSize <= RxCount /\ 1 \in 0 .. RxSize - 1
      /\ rxHead \in 0 .. RxSize - 1 /\ rxTail \in 0 .. RxSize - 1 /\ rxNext \in 0 .. RxCount - 1
      /\ Available \in 0 .. RxSize - 1 /\ Available = Ahead(rxHead, rxTail, RxSize)
  BY DEF RxTypes
<1>2. Available > 0 /\ local = rxNext
  BY DEF ReadDone, RxRead
<1>3. /\ rxHead' = (rxHead + 1) % RxSize /\ rxNext' = (rxNext + 1) % RxCount /\ pc' = "write"
      /\ UNCHANGED <<rxbuf, rxTail, fifo, out, host>>
  BY <1>2 DEF ReadDone, core
<1>4. /\ rxHead' \in 0 .. RxSize - 1
      /\ \A s \in 0 .. RxSize - 1 :
           Ahead(rxHead', s, RxSize) =
             IF Ahead(rxHead, s, RxSize) < 1 THEN Ahead(rxHead, s, RxSize) - 1 + RxSize
             ELSE Ahead(rxHead, s, RxSize) - 1
  <2>1. /\ (rxHead + 1) % RxSize \in 0 .. RxSize - 1
        /\ \A s \in 0 .. RxSize - 1 :
             Ahead((rxHead + 1) % RxSize, s, RxSize) =
               IF Ahead(rxHead, s, RxSize) < 1 THEN Ahead(rxHead, s, RxSize) - 1 + RxSize
               ELSE Ahead(rxHead, s, RxSize) - 1
    <3>1. (rxHead + 1) % RxSize \in 0 .. RxSize - 1
      BY <1>1
    <3>2. ASSUME NEW s \in 0 .. RxSize - 1
          PROVE  Ahead((rxHead + 1) % RxSize, s, RxSize) =
                   IF Ahead(rxHead, s, RxSize) < 1 THEN Ahead(rxHead, s, RxSize) - 1 + RxSize
                   ELSE Ahead(rxHead, s, RxSize) - 1
      BY ONLY <1>1, HeadMoved, s \in 0 .. RxSize - 1
    <3>. QED BY <3>1, <3>2
  <2>2. rxHead' = (rxHead + 1) % RxSize
    BY <1>3
  <2>. QED BY ONLY <2>1, <2>2
<1>5. rxNext' \in 0 .. RxCount - 1
  BY <1>1, <1>3
<1>6. RxTypes'
  BY <1>3, <1>4, <1>5 DEF RxTypes
<1>7. Available' = Available - 1
  <2>1. Available' = Ahead(rxHead', rxTail, RxSize)
    BY <1>3 DEF Available, Ahead
  <2>2. Ahead(rxHead', rxTail, RxSize) =
          IF Ahead(rxHead, rxTail, RxSize) < 1 THEN Ahead(rxHead, rxTail, RxSize) - 1 + RxSize
          ELSE Ahead(rxHead, rxTail, RxSize) - 1
    BY <1>1, <1>4, Zenon
  <2>. QED BY <1>1, <1>2, <2>1, <2>2
<1>8. RxFree' = RxFree + 1
  <2>1. RxTypes' => (RxFree = RxSize - 1 - Available)'
    BY RxRing, PTL
  <2>. QED BY <1>1, <1>6, <1>7, <2>1
(* What is k behind the next byte now was k + 1 behind it before.          *)
<1>9. \A k \in Nat : 1 + k < RxCount => (rxNext' + k) % RxCount = (rxNext + 1 + k) % RxCount
  <2>1. 1 \in 0 .. RxCount - 1
    BY <1>1
  <2>. QED BY <1>1, <1>3, <2>1, CountedOn, Zenon
<1>10. RxSlots'
  <2> SUFFICES ASSUME NEW s \in 0 .. RxSize - 1, Ahead(rxHead', s, RxSize) < Available - 1
               PROVE  rxbuf[s] = (rxNext' + Ahead(rxHead', s, RxSize)) % RxCount
    BY <1>3, <1>7 DEF RxSlots
  <2> DEFINE d == Ahead(rxHead, s, RxSize)
  <2>1. d \in 0 .. RxSize - 1
    BY <1>1, AheadIs, Zenon
  <2>2. Ahead(rxHead', s, RxSize) = IF d < 1 THEN d - 1 + RxSize ELSE d - 1
    BY <1>4, Zenon
  <2>3. rxbuf[s] = (rxNext + d) % RxCount \/ ~(d < Available)
    BY DEF RxSlots
  <2>. HIDE DEF d
  <2>4. Ahead(rxHead', s, RxSize) = d - 1 /\ d < Available /\ d - 1 \in Nat /\ 1 + (d - 1) < RxCount
    BY <1>1, <2>1, <2>2
  <2>5. (rxNext' + (d - 1)) % RxCount = (rxNext + 1 + (d - 1)) % RxCount
    BY <1>9, <2>4
  <2>6. rxNext + 1 + (d - 1) = rxNext + d
    BY <1>1, <2>1
  <2>. QED BY <2>3, <2>4, <2>5, <2>6
<1>11. RxPacket'
  <2> DEFINE q == InFifo
  <2>1. InFifo' = q
    BY <1>3 DEF InFifo
  <2>2. /\ fifo' \in Seq(Seq(0 .. RxCount - 1)) /\ Len(fifo') <= 1
        /\ out' => fifo' = <<>> /\ RxRoom
    BY <1>3 DEF RxPacket
  <2>3. Len(q) \in Nat
    <3>1. CASE fifo = <<>>
      BY <3>1 DEF InFifo
    <3>2. CASE fifo # <<>>
      BY <3>2, OnePacket DEF InFifo, RxPacket
    <3>. QED BY <3>1, <3>2
  <2>4. /\ Len(q) <= RxFree /\ host.sent = (rxNext + Available + Len(q)) % RxCount
        /\ \A i \in 1 .. Len(q) : q[i] = (rxNext + Available + i - 1) % RxCount
    BY DEF RxPacket
  <2>5. PICK m \in Nat : m = Len(q)
    BY <2>3
  <2>6. m <= RxSize - 1 - Available /\ RxFree = RxSize - 1 - Available
    BY <2>4, <2>5, RxRing
  <2>. HIDE RxRing DEF q
  <2>7. ASSUME NEW i \in 1 .. m
        PROVE  q[i] = (rxNext' + Available' + i - 1) % RxCount
    <3> DEFINE k == Available - 1 + i - 1
    <3>1. k \in Nat /\ 1 + k < RxCount
      BY <1>1, <1>2, <2>6
    <3>2. (rxNext' + k) % RxCount = (rxNext + 1 + k) % RxCount
      BY <1>9, <3>1
    <3>3. rxNext + 1 + k = rxNext + Available + i - 1 /\ rxNext' + k = rxNext' + Available' + i - 1
      BY <1>1, <1>5, <1>7
    <3>. QED BY <2>4, <2>5, <3>2, <3>3
  <2>8. host.sent = (rxNext' + Available' + m) % RxCount
    <3> DEFINE k == Available - 1 + m
    <3>1. k \in Nat /\ 1 + k < RxCount
      BY <1>1, <1>2, <2>6
    <3>2. (rxNext' + k) % RxCount = (rxNext + 1 + k) % RxCount
      BY <1>9, <3>1
    <3>3. rxNext + 1 + k = rxNext + Available + m /\ rxNext' + k = rxNext' + Available' + m
      BY <1>1, <1>5, <1>7
    <3>. QED BY <2>4, <2>5, <3>2, <3>3
  <2>9. m <= RxFree' /\ (RxRoom => RxRoom')
    BY <1>1, <1>8, <2>6, Sizes DEF RxRoom
  <2>. QED BY <1>3, <2>1, <2>2, <2>5, <2>7, <2>8, <2>9 DEF RxPacket
<1>. QED BY <1>3, <1>6, <1>10, <1>11 DEF RxRead

(* A packet from the PC, which the endpoint has accepted.                  *)
LEMMA RxSent ==
  ASSUME RxInv, HostOut, Linked
  PROVE  RxInv' /\ host'.sent \in 0 .. RxCount - 1 /\ host' = [host EXCEPT !.sent = host'.sent]
<1>1. /\ RxSize \in Nat \ {0} /\ RxCount \in Nat \ {0} /\ RxSize <= RxCount /\ Mps \in Nat
      /\ rxNext \in 0 .. RxCount - 1 /\ Available \in 0 .. RxSize - 1 /\ RxFree = RxSize - 1 - Available
  BY RxRing DEF RxInv, RxTypes
<1>2. /\ UNCHANGED <<rxbuf, rxHead, rxTail, rxNext, pc, local>> /\ out /\ ~out'
  BY DEF HostOut, HostUnchanged, ring, main
<1>3. fifo = <<>> /\ RxFree >= Mps /\ InFifo = <<>>
  BY <1>2 DEF RxInv, RxPacket, RxRoom, InFifo
<1>4. Available' = Available /\ RxFree' = RxFree
  BY <1>2 DEF Available, RxFree
<1>5. host.sent = (rxNext + Available) % RxCount
  <2>1. rxNext + Available + Len(<<>>) = rxNext + Available
    BY <1>1
  <2>. QED BY <1>3, <2>1 DEF RxInv, RxPacket
<1>6. PICK n \in 1 .. Mps :
         /\ fifo' = Append(fifo, [i \in 1 .. n |-> (host.sent + i - 1) % RxCount])
         /\ host' = [host EXCEPT !.sent = (@ + n) % RxCount]
  BY DEF HostOut
<1> DEFINE pkt == [i \in 1 .. n |-> (host.sent + i - 1) % RxCount]
(* The numbers go on from those in the ring.                               *)
<1>7. \A k \in Nat : Available + k < RxCount => (host.sent + k) % RxCount = (rxNext + Available + k) % RxCount
  <2>1. Available \in 0 .. RxCount - 1
    BY <1>1
  <2>2. \A k \in Nat : Available + k < RxCount =>
          (((rxNext + Available) % RxCount) + k) % RxCount = (rxNext + Available + k) % RxCount
    BY <1>1, <2>1, CountedOn, Zenon
  <2>. QED BY ONLY <1>5, <2>2
<1>8. host.sent \in 0 .. RxCount - 1
  BY <1>1, <1>5
<1>9. pkt \in Seq(0 .. RxCount - 1) /\ Len(pkt) = n
  <2>1. \A i \in 1 .. n : (host.sent + i - 1) % RxCount \in 0 .. RxCount - 1
    BY <1>1, <1>8
  <2>2. pkt \in [1 .. n -> 0 .. RxCount - 1]
    BY <2>1
  <2>. QED BY <1>1, <2>2
<1>10. fifo' = <<pkt>> /\ InFifo' = pkt
  <2>1. fifo' = <<pkt>>
    BY <1>3, <1>6
  <2>. QED BY <2>1 DEF InFifo
<1>11. \A i \in 1 .. n : pkt[i] = (rxNext + Available + i - 1) % RxCount
  <2> SUFFICES ASSUME NEW i \in 1 .. n
               PROVE  (host.sent + i - 1) % RxCount = (rxNext + Available + i - 1) % RxCount
    OBVIOUS
  <2>1. i - 1 \in Nat /\ Available + (i - 1) < RxCount
    BY <1>1, <1>3
  <2>2. host.sent + (i - 1) = host.sent + i - 1 /\ rxNext + Available + (i - 1) = rxNext + Available + i - 1
    BY <1>1, <1>8
  <2>. QED BY <1>7, <2>1, <2>2
<1>12. host'.sent = (rxNext + Available + n) % RxCount /\ host'.sent \in 0 .. RxCount - 1
  <2>1. host'.sent = (host.sent + n) % RxCount
    BY <1>6 DEF Linked
  <2>2. n \in Nat /\ Available + n < RxCount
    BY <1>1, <1>3
  <2>3. host'.sent \in 0 .. RxCount - 1
    BY <1>1, <1>8, <2>1
  <2>. QED BY <1>7, <2>1, <2>2, <2>3
<1>. HIDE DEF pkt
<1>13. RxTypes' /\ RxSlots' /\ RxRead'
  BY <1>2, <1>4 DEF RxInv, RxTypes, RxSlots, RxRead
<1>14. RxPacket'
  <2>1. fifo' \in Seq(Seq(0 .. RxCount - 1)) /\ Len(fifo') <= 1
    BY <1>9, <1>10
  <2>2. n <= RxFree
    BY <1>1, <1>3
  <2>. QED BY <1>2, <1>4, <1>9, <1>10, <1>11, <1>12, <2>1, <2>2 DEF RxPacket
<1>15. host' = [host EXCEPT !.sent = host'.sent]
  BY <1>6 DEF Linked
<1>. QED BY <1>12, <1>13, <1>14, <1>15 DEF RxInv

LEMMA RxNext ==
  ASSUME RxInv, Linked, [Next]_vars
  PROVE  RxInv'
<1>. USE DEF RxMaybeArm
<1>1. CASE IrqReset
  BY <1>1, RxKept DEF IrqReset, Deconfigure, ring, main, RxInv, RxRead, Available
<1>2. CASE IrqRx
  BY <1>2, RxPushed
<1>3. CASE IrqSetup
  <2>1. UNCHANGED <<ring, fifo, main>> /\ host'.sent = host.sent /\ (out' => fifo = <<>> /\ RxRoom)
    BY <1>3 DEF IrqSetup, Linked
  <2>. QED BY <2>1, RxKept DEF ring, main, RxInv, RxRead, Available
<1>4. CASE IrqOut
  BY <1>4, RxKept DEF IrqOut, ring, main, RxInv, RxRead, Available
<1>5. CASE IrqIn
  BY <1>5, RxKept DEF IrqIn, main, RxInv, RxRead, Available
<1>6. CASE IrqSessionEnd
  BY <1>6, RxKept DEF IrqSessionEnd, Deconfigure, ring, main, RxInv, RxRead, Available
<1>7. CASE PollVbus \/ PollConnect
  BY <1>7, RxKept DEF PollVbus, PollConnect, Deconfigure, MainUnchanged, ring, device, RxInv, RxRead
<1>8. CASE PollArm
  <2>1. fifo = <<>> /\ pc' = "read"
    BY <1>8 DEF PollArm, Pending
  <2>. QED BY <1>8, <2>1, RxKept DEF PollArm, MainUnchanged, RxRead
<1>9. CASE ReadByte
  <2>1. local' = rxNext /\ Available > 0
    <3>1. Available > 0 /\ local' = rxbuf[rxHead]
      BY <1>9 DEF ReadByte
    <3>2. Ahead(rxHead, rxHead, RxSize) = 0 /\ rxHead \in 0 .. RxSize - 1
      BY RxRing, AheadIs DEF RxInv, RxTypes
    <3>3. rxbuf[rxHead] = (rxNext + 0) % RxCount
      BY <3>1, <3>2 DEF RxInv, RxSlots
    <3>4. (rxNext + 0) % RxCount = rxNext
      BY RxRing DEF RxInv, RxTypes
    <3>. QED BY <3>1, <3>3, <3>4
  <2>. QED BY <1>9, <2>1, RxKept DEF ReadByte, ring, device, core, RxRead, Available
<1>10. CASE ReadDone
  BY <1>10, RxTaken
<1>11. CASE ReadNothing \/ WriteByte \/ WriteDone \/ WriteNothing
  BY <1>11, RxKept DEF ReadNothing, WriteByte, WriteDone, WriteNothing, ring, device, core, RxRead
<1>12. CASE Plug \/ Unplug \/ BusReset \/ Configure \/ Configured \/ HostIn
  <2>1. UNCHANGED <<ring, main, fifo, out>> /\ host'.sent = host.sent
    BY <1>12 DEF Plug, Unplug, BusReset, Configure, Configured, HostIn, HostUnchanged, core, Linked
  <2>. QED BY <2>1, RxKept DEF ring, main, RxInv, RxRead, Available
<1>13. CASE HostOut
  BY <1>13, RxSent
<1>14. CASE UNCHANGED vars
  BY <1>14, RxKept DEF vars, RxInv, RxRead, Available
<1>. QED BY <1>1, <1>2, <1>3, <1>4, <1>5, <1>6, <1>7, <1>8, <1>9, <1>10, <1>11, <1>12, <1>13, <1>14
  DEF Next, Irq, Main, Host, Reading

-----------------------------------------------------------------------------
(* The transmit ring and the packet in flight *)

LEMMA TxRing ==
  ASSUME TxTypes
  PROVE  /\ TxSize \in Nat \ {0} /\ TxCount \in Nat \ {0} /\ Mps \in Nat \ {0} /\ TxSize + Mps <= TxCount
         /\ TxUsed = Ahead(txHead, txTail, TxSize) /\ TxUsed \in 0 .. TxSize - 1
         /\ InFlight \in Seq(0 .. TxCount - 1) /\ Len(InFlight) \in 0 .. Mps
<1>1. TxSize \in Nat \ {0} /\ TxCount \in Nat \ {0} /\ Mps \in Nat \ {0} /\ TxSize + Mps <= TxCount
  BY Sizes
<1>2. TxUsed = Ahead(txHead, txTail, TxSize)
  BY DEF TxUsed, Ahead
<1>3. TxUsed \in 0 .. TxSize - 1
  BY <1>1, <1>2, AheadIs DEF TxTypes
<1>4. InFlight \in Seq(0 .. TxCount - 1)
  <2>1. CASE in = <<>>
    BY <2>1 DEF InFlight
  <2>2. CASE in # <<>>
    BY <2>2, OnePacket DEF InFlight, TxTypes
  <2>. QED BY <2>1, <2>2
<1>5. Len(InFlight) \in Nat
  BY <1>4
<1>6. Len(InFlight) <= Mps
  BY DEF TxTypes
<1>. QED BY <1>1, <1>2, <1>3, <1>4, <1>5, <1>6

(* A slot counted from the head is as far ahead as it was counted.         *)
LEMMA AheadCounted ==
  ASSUME NEW n \in Nat \ {0}, NEW a \in 0 .. n - 1, NEW k \in 0 .. n - 1
  PROVE  (a + k) % n \in 0 .. n - 1 /\ Ahead(a, (a + k) % n, n) = k
<1>1. (a + k) % n \in 0 .. n - 1
  OBVIOUS
<1>2. Ahead(a, (a + k) % n, n) = IF Ahead(a, a, n) + k < n THEN Ahead(a, a, n) + k ELSE Ahead(a, a, n) + k - n
  BY TailMoved
<1>3. Ahead(a, a, n) = 0
  BY AheadIs
<1>. QED BY <1>1, <1>2, <1>3

(* What the ring holds, byte by byte.                                      *)
LEMMA TxContentIs ==
  ASSUME TxTypes, TxSlots
  PROVE  /\ TxContent \in Seq(0 .. TxCount - 1) /\ Len(TxContent) = TxUsed
         /\ \A i \in 1 .. TxUsed : TxContent[i] = (txNext - TxUsed + (i - 1) + TxCount) % TxCount
<1>1. /\ TxSize \in Nat \ {0} /\ TxCount \in Nat \ {0} /\ TxUsed \in 0 .. TxSize - 1
      /\ txHead \in 0 .. TxSize - 1 /\ txNext \in 0 .. TxCount - 1
  BY TxRing DEF TxTypes
<1>2. ASSUME NEW i \in 1 .. TxUsed
      PROVE  /\ TxContent[i] = (txNext - TxUsed + (i - 1) + TxCount) % TxCount
             /\ TxContent[i] \in 0 .. TxCount - 1
  <2>1. i - 1 \in 0 .. TxSize - 1 /\ i - 1 < TxUsed
    BY <1>1
  <2>2. (txHead + (i - 1)) % TxSize \in 0 .. TxSize - 1 /\ Ahead(txHead, (txHead + (i - 1)) % TxSize, TxSize) = i - 1
    BY <1>1, <2>1, AheadCounted, Zenon
  <2>3. TxContent[i] = txbuf[(txHead + (i - 1)) % TxSize]
    <3>1. txHead + (i - 1) = txHead + i - 1
      BY <1>1
    <3>. QED BY <3>1 DEF TxContent
  <2>4. TxContent[i] = (txNext - TxUsed + (i - 1) + TxCount) % TxCount
    BY <2>1, <2>2, <2>3 DEF TxSlots
  <2>5. (txNext - TxUsed + (i - 1) + TxCount) % TxCount \in 0 .. TxCount - 1
    BY <1>1, <2>1
  <2>. QED BY <2>4, <2>5
<1>3. TxContent \in [1 .. TxUsed -> 0 .. TxCount - 1]
  BY <1>2 DEF TxContent
<1>. QED BY <1>1, <1>2, <1>3

(* Both keep their places.                                                 *)
LEMMA TxBytesKept ==
  ASSUME TxBytes, UNCHANGED <<txbuf, txHead, txTail, txNext>>, in' = in \/ in' = <<>>
  PROVE  TxBytes' /\ TxUsed' = TxUsed
<1>1. TxUsed' = TxUsed
  BY DEF TxUsed
<1>2. CASE in' = in
  <2>1. InFlight' = InFlight
    BY <1>2 DEF InFlight
  <2>. QED BY <1>1, <1>2, <2>1 DEF TxBytes, TxTypes, TxSlots, TxPacket
<1>3. CASE in' = <<>>
  <2>1. InFlight' = <<>> /\ Len(<<>>) = 0 /\ in' \in Seq(Seq(0 .. TxCount - 1)) /\ Len(in') <= 1
    BY <1>3 DEF InFlight
  <2>2. Mps \in Nat
    BY Sizes
  <2>. QED BY <1>1, <2>1, <2>2 DEF TxBytes, TxTypes, TxSlots, TxPacket
<1>. QED BY <1>1, <1>2, <1>3

(* tx_maybe_send(), with no packet in flight.                              *)
LEMMA TxSentOn ==
  ASSUME TxBytes, in = <<>>, NEW cfg, NEW busy, NEW zlp, TxMaybeSend(cfg, busy, zlp),
         UNCHANGED <<txbuf, txTail, txNext>>
  PROVE  TxBytes' /\ TxUsed' + Len(InFlight') = TxUsed + Len(InFlight) /\ TxUsed' \in 0 .. TxUsed
<1>1. /\ TxSize \in Nat \ {0} /\ TxCount \in Nat \ {0} /\ Mps \in Nat \ {0} /\ TxSize + Mps <= TxCount
      /\ TxUsed = Ahead(txHead, txTail, TxSize) /\ TxUsed \in 0 .. TxSize - 1
      /\ txHead \in 0 .. TxSize - 1 /\ txTail \in 0 .. TxSize - 1 /\ txNext \in 0 .. TxCount - 1
  BY TxRing DEF TxBytes, TxTypes
<1>2. InFlight = <<>> /\ Len(<<>>) = 0
  BY DEF InFlight
<1> DEFINE n == Smaller(TxUsed, Mps)
<1>3. CASE ~cfg \/ busy \/ (n = 0 /\ ~zlp)
  <2>1. UNCHANGED <<in, txHead>>
    BY <1>3 DEF TxMaybeSend
  <2>2. InFlight' = InFlight
    BY <2>1 DEF InFlight
  <2>. QED BY <1>1, <2>1, <2>2, TxBytesKept
<1>4. CASE ~(~cfg \/ busy \/ (n = 0 /\ ~zlp))
  <2>1. in' = <<SubSeq(TxContent, 1, n)>> /\ txHead' = (txHead + n) % TxSize
    BY <1>4 DEF TxMaybeSend
  <2>2. n \in 0 .. TxUsed /\ n <= Mps
    BY <1>1 DEF Smaller
  <2>. HIDE DEF n
  <2>3. n \in 0 .. TxSize - 1
    BY <1>1, <2>2
  <2>4. TxContent \in Seq(0 .. TxCount - 1) /\ Len(TxContent) = TxUsed
        /\ \A i \in 1 .. TxUsed : TxContent[i] = (txNext - TxUsed + (i - 1) + TxCount) % TxCount
    BY TxContentIs DEF TxBytes
  <2> DEFINE pkt == SubSeq(TxContent, 1, n)
  <2>5. pkt \in Seq(0 .. TxCount - 1) /\ Len(pkt) = n /\ \A i \in 1 .. n : pkt[i] = TxContent[i]
    <3>1. ASSUME NEW i \in 1 .. n PROVE TxContent[i] \in 0 .. TxCount - 1
      <4>1. i \in 1 .. TxUsed
        BY <1>1, <2>2
      <4>. QED BY <2>4, <4>1, ElementOfSeq
    <3>2. /\ pkt \in Seq(0 .. TxCount - 1) /\ Len(pkt) = IF 1 <= n THEN n - 1 + 1 ELSE 0
          /\ \A i \in 1 .. n - 1 + 1 : pkt[i] = TxContent[1 + i - 1]
      <4>1. 1 \in Int /\ n \in Int
        BY <1>1, <2>2
      <4>. QED BY <3>1, <4>1, SubSeqProperties
    <3>3. n - 1 + 1 = n /\ (~(1 <= n) => n = 0) /\ \A i \in 1 .. n : 1 + i - 1 = i
      BY <1>1, <2>2
    <3>. HIDE DEF pkt
    <3>. QED BY <3>2, <3>3
  <2>. HIDE DEF pkt
  <2>6. InFlight' = pkt /\ in' \in Seq(Seq(0 .. TxCount - 1)) /\ Len(in') <= 1
    BY <2>1, <2>5 DEF InFlight, pkt
  <2>7. txHead' \in 0 .. TxSize - 1
    BY <1>1, <2>1, <2>3
  <2>8. \A s \in 0 .. TxSize - 1 :
          Ahead(txHead', s, TxSize) =
            IF Ahead(txHead, s, TxSize) < n THEN Ahead(txHead, s, TxSize) - n + TxSize
            ELSE Ahead(txHead, s, TxSize) - n
    <3> SUFFICES ASSUME NEW s \in 0 .. TxSize - 1
                 PROVE  Ahead(txHead', s, TxSize) =
                          IF Ahead(txHead, s, TxSize) < n THEN Ahead(txHead, s, TxSize) - n + TxSize
                          ELSE Ahead(txHead, s, TxSize) - n
      OBVIOUS
    <3>. QED BY ONLY <1>1, <2>1, <2>3, HeadMoved, s \in 0 .. TxSize - 1
  <2>9. TxUsed' = TxUsed - n
    <3>1. TxUsed' = Ahead(txHead', txTail, TxSize)
      BY DEF TxUsed, Ahead
    <3>. QED BY <1>1, <2>2, <2>8, <3>1
  <2>10. TxTypes'
    BY <2>2, <2>5, <2>6, <2>7 DEF TxBytes, TxTypes
  <2>11. TxSlots'
    <3> SUFFICES ASSUME NEW s \in 0 .. TxSize - 1, Ahead(txHead', s, TxSize) < TxUsed - n
                 PROVE  txbuf[s] = (txNext - (TxUsed - n) + Ahead(txHead', s, TxSize) + TxCount) % TxCount
      BY <2>9 DEF TxSlots
    <3> DEFINE d == Ahead(txHead, s, TxSize)
    <3>1. d \in 0 .. TxSize - 1
      BY <1>1, AheadIs, Zenon
    <3>2. Ahead(txHead', s, TxSize) = IF d < n THEN d - n + TxSize ELSE d - n
      BY <2>8, Zenon
    <3>3. d < TxUsed => txbuf[s] = (txNext - TxUsed + d + TxCount) % TxCount
      BY DEF TxBytes, TxSlots
    <3>. HIDE DEF d
    <3>4. Ahead(txHead', s, TxSize) = d - n /\ d < TxUsed
      BY <1>1, <2>2, <3>1, <3>2
    <3>5. txNext - (TxUsed - n) + (d - n) + TxCount = txNext - TxUsed + d + TxCount
      BY <1>1, <2>2, <3>1
    <3>. QED BY <3>3, <3>4, <3>5
  <2>12. TxPacket'
    <3> SUFFICES ASSUME NEW i \in 1 .. n
                 PROVE  pkt[i] = (txNext - (TxUsed - n) - n + i - 1 + TxCount) % TxCount
      BY <2>5, <2>6, <2>9 DEF TxPacket
    <3>1. txNext - (TxUsed - n) - n + i - 1 + TxCount = txNext - TxUsed + (i - 1) + TxCount
      BY <1>1, <2>2
    <3>2. i \in 1 .. TxUsed
      BY <1>1, <2>2
    <3>. QED BY <2>4, <2>5, <3>1, <3>2
  <2>13. TxUsed' + Len(InFlight') = TxUsed + Len(InFlight) /\ TxUsed' \in 0 .. TxUsed
    BY <1>1, <1>2, <2>2, <2>5, <2>6, <2>9
  <2>. QED BY <2>10, <2>11, <2>12, <2>13 DEF TxBytes
<1>. QED BY <1>3, <1>4

(* The next number, counted back by one more.                              *)
LEMMA CountedBack ==
  ASSUME NEW n \in Nat \ {0}, NEW x \in 0 .. n - 1, NEW k \in 1 .. n
  PROVE  /\ (x + 1) % n \in 0 .. n - 1
         /\ (((x + 1) % n) - k + n) % n = (x - (k - 1) + n) % n
<1>1. (x + 1) % n = IF x + 1 < n THEN x + 1 ELSE 0
  OBVIOUS
<1>2. PICK y \in 0 .. n - 1 : y = (x + 1) % n
  BY <1>1
<1>3. (y - k + n) % n = IF y < k THEN (IF y - k + n < n THEN y - k + n ELSE 0) ELSE y - k
  OBVIOUS
<1>4. (x - (k - 1) + n) % n = IF x < k - 1 THEN x - (k - 1) + n ELSE x - (k - 1)
  OBVIOUS
<1>. QED BY <1>1, <1>2, <1>3, <1>4

(* usb_cdc_write() puts the byte behind the ring, before the index moves.  *)
LEMMA TxWritten ==
  ASSUME TxBytes, WriteByte
  PROVE  TxBytes' /\ TxUsed' = TxUsed /\ TxWrite' /\ InFlight' = InFlight
<1>1. /\ TxSize \in Nat \ {0} /\ TxUsed = Ahead(txHead, txTail, TxSize) /\ TxUsed \in 0 .. TxSize - 1
      /\ txHead \in 0 .. TxSize - 1 /\ txTail \in 0 .. TxSize - 1
  BY TxRing DEF TxBytes, TxTypes
<1>2. /\ txbuf' = [txbuf EXCEPT ![txTail] = txNext] /\ (txTail + 1) % TxSize # txHead
      /\ UNCHANGED <<txHead, txTail, txNext, in>>
  BY DEF WriteByte, core
<1>3. TxUsed' = TxUsed /\ InFlight' = InFlight
  BY <1>2 DEF TxUsed, InFlight
<1>4. TxTypes' /\ TxPacket'
  BY <1>2, <1>3 DEF TxBytes, TxTypes, TxPacket
<1>5. TxSlots'
  <2> SUFFICES ASSUME NEW s \in 0 .. TxSize - 1, Ahead(txHead, s, TxSize) < TxUsed
               PROVE  txbuf'[s] = txbuf[s]
    BY <1>2, <1>3 DEF TxBytes, TxSlots
  <2>1. s # txTail
    BY <1>1
  <2>. QED BY <1>2, <2>1 DEF TxBytes, TxTypes
<1>6. TxUsed < TxSize - 1
  <2>1. TxUsed = IF txHead <= txTail THEN txTail - txHead ELSE txTail - txHead + TxSize
    BY <1>1, AheadIs
  <2>2. (txTail + 1) % TxSize = IF txTail + 1 < TxSize THEN txTail + 1 ELSE 0
    BY <1>1
  <2>. QED BY <1>1, <1>2, <2>1, <2>2
<1>7. txbuf'[txTail'] = txNext'
  BY <1>1, <1>2 DEF TxBytes, TxTypes
<1>. QED BY <1>2, <1>3, <1>4, <1>5, <1>6, <1>7 DEF TxBytes, TxWrite

(* The index moves on, and the byte is in the ring.                        *)
LEMMA TxGiven ==
  ASSUME TxBytes, TxWrite, WriteDone
  PROVE  /\ TxBytes' /\ TxUsed' = TxUsed + 1 /\ InFlight' = InFlight
         /\ txNext' = (txNext + 1) % TxCount
<1>1. /\ TxSize \in Nat \ {0} /\ TxCount \in Nat \ {0} /\ Mps \in Nat \ {0} /\ TxSize + Mps <= TxCount
      /\ TxUsed = Ahead(txHead, txTail, TxSize) /\ TxUsed \in 0 .. TxSize - 1
      /\ txHead \in 0 .. TxSize - 1 /\ txTail \in 0 .. TxSize - 1 /\ txNext \in 0 .. TxCount - 1
      /\ Len(InFlight) \in 0 .. Mps
  BY TxRing DEF TxBytes, TxTypes
<1>2. TxUsed < TxSize - 1 /\ txbuf[txTail] = txNext
  BY DEF TxWrite, WriteDone
<1>3. /\ txTail' = (txTail + 1) % TxSize /\ txNext' = (txNext + 1) % TxCount
      /\ UNCHANGED <<txbuf, txHead, in>>
  BY DEF WriteDone, core
<1>4. InFlight' = InFlight
  BY <1>3 DEF InFlight
<1>5. txTail' \in 0 .. TxSize - 1 /\ TxUsed' = TxUsed + 1
  <2>1. 1 \in 0 .. TxSize - 1
    BY <1>1, <1>2
  <2>2. Ahead(txHead, txTail', TxSize) =
          IF Ahead(txHead, txTail, TxSize) + 1 < TxSize THEN Ahead(txHead, txTail, TxSize) + 1
          ELSE Ahead(txHead, txTail, TxSize) + 1 - TxSize
    <3>1. Ahead(txHead, (txTail + 1) % TxSize, TxSize) =
            IF Ahead(txHead, txTail, TxSize) + 1 < TxSize THEN Ahead(txHead, txTail, TxSize) + 1
            ELSE Ahead(txHead, txTail, TxSize) + 1 - TxSize
      BY <1>1, <2>1, TailMoved, Zenon
    <3>. QED BY ONLY <1>3, <3>1
  <2>3. TxUsed' = Ahead(txHead, txTail', TxSize)
    BY <1>3 DEF TxUsed, Ahead
  <2>4. txTail' \in 0 .. TxSize - 1
    BY <1>1, <1>3
  <2>. QED BY <1>1, <1>2, <2>2, <2>3, <2>4
<1>6. txNext' \in 0 .. TxCount - 1
  BY <1>1, <1>3
<1>7. TxTypes'
  BY <1>3, <1>4, <1>5, <1>6 DEF TxBytes, TxTypes
<1>10. ASSUME NEW k \in 1 .. TxCount
       PROVE  (txNext' - k + TxCount) % TxCount = (txNext - (k - 1) + TxCount) % TxCount
  <2>1. (((txNext + 1) % TxCount) - k + TxCount) % TxCount = (txNext - (k - 1) + TxCount) % TxCount
    BY ONLY <1>1, CountedBack, k \in 1 .. TxCount
  <2>. QED BY ONLY <1>3, <2>1
<1>8. TxSlots'
  <2> SUFFICES ASSUME NEW s \in 0 .. TxSize - 1, Ahead(txHead, s, TxSize) < TxUsed + 1
               PROVE  txbuf[s] = (txNext' - (TxUsed + 1) + Ahead(txHead, s, TxSize) + TxCount) % TxCount
    BY <1>3, <1>5 DEF TxSlots
  <2> DEFINE d == Ahead(txHead, s, TxSize)
  <2>1. d \in 0 .. TxSize - 1 /\ d < TxUsed + 1
    BY <1>1, AheadIs, Zenon
  <2>2. d < TxUsed => txbuf[s] = (txNext - TxUsed + d + TxCount) % TxCount
    BY DEF TxBytes, TxSlots
  <2>3. d = TxUsed => s = txTail
    <3>1. /\ Ahead(txHead, s, TxSize) = IF txHead <= s THEN s - txHead ELSE s - txHead + TxSize
          /\ Ahead(txHead, txTail, TxSize) = IF txHead <= txTail THEN txTail - txHead ELSE txTail - txHead + TxSize
      BY ONLY <1>1, s \in 0 .. TxSize - 1, AheadIs
    <3>. QED BY <1>1, <3>1
  <2>. HIDE DEF d
  <2> DEFINE k == TxUsed + 1 - d
  <2>4. k \in 1 .. TxCount
    BY <1>1, <1>2, <2>1
  <2>5. (txNext' - k + TxCount) % TxCount = (txNext - (k - 1) + TxCount) % TxCount
    BY <1>10, <2>4
  <2>6. txNext' - k + TxCount = txNext' - (TxUsed + 1) + d + TxCount
    BY <1>1, <1>6, <2>1
  <2>9. txNext - (k - 1) + TxCount = txNext - TxUsed + d + TxCount
    BY <1>1, <1>6, <2>1
  <2>7. CASE d < TxUsed
    BY <2>2, <2>5, <2>6, <2>7, <2>9 DEF d
  <2>8. CASE d = TxUsed
    <3>1. (txNext - TxUsed + d + TxCount) % TxCount = txNext
      <4>1. txNext - TxUsed + d + TxCount = txNext + TxCount
        BY <1>1, <2>8
      <4>2. (txNext + TxCount) % TxCount = txNext
        BY <1>1
      <4>. QED BY <4>1, <4>2
    <3>. QED BY <1>2, <2>3, <2>5, <2>6, <2>8, <2>9, <3>1 DEF d
  <2>. QED BY <1>1, <2>1, <2>7, <2>8
<1>9. TxPacket'
  <2> SUFFICES ASSUME NEW i \in 1 .. Len(InFlight)
               PROVE  InFlight[i] = (txNext' - (TxUsed + 1) - Len(InFlight) + i - 1 + TxCount) % TxCount
    BY <1>4, <1>5 DEF TxPacket
  <2> DEFINE k == TxUsed + 1 + Len(InFlight) - i + 1
  <2>1. k \in 1 .. TxCount
    BY <1>1, <1>2
  <2>2. (txNext' - k + TxCount) % TxCount = (txNext - (k - 1) + TxCount) % TxCount
    BY <1>10, <2>1
  <2>3. txNext' - k + TxCount = txNext' - (TxUsed + 1) - Len(InFlight) + i - 1 + TxCount
    <3>1. TxUsed \in Int /\ Len(InFlight) \in Int /\ txNext' \in Int /\ TxCount \in Int /\ i \in Int
      BY <1>1, <1>6
    <3>. QED BY ONLY <3>1
  <2>5. txNext - (k - 1) + TxCount = txNext - TxUsed - Len(InFlight) + i - 1 + TxCount
    <3>1. k - 1 = TxUsed + Len(InFlight) - i + 1
      BY <1>1
    <3>2. txNext - (TxUsed + Len(InFlight) - i + 1) + TxCount = txNext - TxUsed - Len(InFlight) + i - 1 + TxCount
      BY <1>1
    <3>. HIDE DEF k
    <3>. QED BY <3>1, <3>2
  <2>4. InFlight[i] = (txNext - TxUsed - Len(InFlight) + i - 1 + TxCount) % TxCount
    BY DEF TxBytes, TxPacket
  <2>. QED BY <2>2, <2>3, <2>4, <2>5
<1>. QED BY <1>3, <1>4, <1>5, <1>7, <1>8, <1>9 DEF TxBytes

(* All that the ring and the packet hold is what was queued and has not    *)
(* been read.                                                              *)
LEMMA PipeLength ==
  ASSUME TxBytes
  PROVE  Len(TxPipe) = TxUsed + Len(InFlight) /\ Len(TxPipe) \in 0 .. TxCount - 1
<1>1. /\ InFlight \in Seq(0 .. TxCount - 1) /\ Len(InFlight) \in 0 .. Mps /\ TxUsed \in 0 .. TxSize - 1
      /\ TxSize \in Nat /\ TxCount \in Nat /\ Mps \in Nat /\ TxSize + Mps <= TxCount
  BY TxRing DEF TxBytes
<1>2. TxContent \in Seq(0 .. TxCount - 1) /\ Len(TxContent) = TxUsed
  BY TxContentIs DEF TxBytes
<1>3. Len(TxPipe) = Len(InFlight) + Len(TxContent)
  BY <1>1, <1>2, ConcatProperties DEF TxPipe
<1>. QED BY <1>1, <1>2, <1>3

LEMMA LinkedNext ==
  ASSUME DataInv, [Next]_vars
  PROVE  Linked'
<1>. USE DEF DataInv, RxMaybeArm
<1>1. CASE Irq
  <2>1. CASE IrqReset
    BY <2>1 DEF IrqReset, main, Linked
  <2>2. CASE IrqRx \/ IrqOut \/ IrqIn
    <3>1. UNCHANGED <<host, vbus, reset, sedet, setup, pc, seen>>
      BY <2>2 DEF IrqRx, IrqOut, IrqIn, main
    <3>. QED BY <3>1 DEF Linked
  <2>3. CASE IrqSetup
    BY <2>3 DEF IrqSetup, main, Linked
  <2>4. CASE IrqSessionEnd
    BY <2>4 DEF IrqSessionEnd, main, Linked
  <2>. QED BY <1>1, <2>1, <2>2, <2>3, <2>4 DEF Irq
<1>2. CASE PollVbus
  BY <1>2 DEF PollVbus, MainUnchanged, Linked
<1>3. CASE PollConnect \/ PollArm
  <2>1. pc' # "connect" /\ UNCHANGED <<host, vbus, reset, sedet, setup>> /\ seen' \in BOOLEAN
    BY <1>3 DEF PollConnect, PollArm, MainUnchanged, Linked
  <2>. QED BY <2>1 DEF Linked
<1>4. CASE ReadByte \/ ReadDone \/ ReadNothing \/ WriteByte \/ WriteDone \/ WriteNothing
  BY <1>4 DEF ReadByte, ReadDone, ReadNothing, WriteByte, WriteDone, WriteNothing, core, Linked
<1>5. CASE Plug \/ Unplug \/ BusReset \/ Configure
  <2>1. 0 \in 0 .. TxCount - 1
    BY Sizes
  <2>2. CASE Plug
    BY <2>2 DEF Plug, HostUnchanged, main, Linked
  <2>3. CASE Unplug
    BY <2>1, <2>3 DEF Unplug, HostUnchanged, main, Linked
  <2>4. CASE BusReset
    BY <2>1, <2>4 DEF BusReset, HostUnchanged, main, Linked
  <2>5. CASE Configure
    BY <2>1, <2>5 DEF Configure, HostUnchanged, main, Linked
  <2>. QED BY <1>5, <2>2, <2>3, <2>4, <2>5
<1>6. CASE Configured
  <2>1. 0 \in 0 .. TxCount - 1 /\ (txNext - Len(TxPipe) + TxCount) % TxCount \in 0 .. TxCount - 1
    <3>1. TxCount \in Nat \ {0} /\ txNext \in Int /\ Len(TxPipe) \in Int
      BY TxRing, PipeLength DEF TxInv, TxBytes, TxTypes
    <3>. QED BY <3>1
  <2>2. ~reset /\ ~sedet /\ setup = "none" /\ vbus
    BY <1>6 DEF Configured, Pending, Linked
  <2>. QED BY <1>6, <2>1, <2>2 DEF Configured, HostUnchanged, core, main, Linked
<1>7. CASE HostOut
  <2>1. host'.sent \in 0 .. RxCount - 1 /\ host' = [host EXCEPT !.sent = host'.sent]
    BY <1>7, RxSent
  <2>. QED BY <1>7, <2>1 DEF HostOut, HostUnchanged, main, Linked
<1>8. CASE HostIn
  <2>1. TxCount \in Nat \ {0} /\ Len(InFlight) \in Int /\ InFlight = in[1] /\ host.expects \in Int
    BY <1>8, TxRing DEF TxInv, TxBytes, Linked, InFlight, HostIn
  <2>2. (host.expects + Len(in[1])) % TxCount \in 0 .. TxCount - 1
    BY <2>1
  <2>. QED BY <1>8, <2>2 DEF HostIn, HostUnchanged, main, Linked
<1>9. CASE UNCHANGED vars
  BY <1>9 DEF vars, Linked
<1>. QED BY <1>1, <1>2, <1>3, <1>4, <1>5, <1>6, <1>7, <1>8, <1>9 DEF Next, Irq, Main, Host, Reading

(* Steps that leave the ring and the packet alone, or drop the packet of a *)
(* PC that does not read.                                                  *)
LEMMA TxKept ==
  ASSUME TxInv, UNCHANGED <<txbuf, txHead, txTail, txNext, pc>>,
         in' = in \/ (in' = <<>> /\ ~host'.configured),
         host'.configured => host.configured /\ host'.expects = host.expects,
         TxOne'
  PROVE  TxInv'
<1>1. TxBytes' /\ TxUsed' = TxUsed
  BY TxBytesKept DEF TxInv
<1>2. TxWrite'
  BY <1>1 DEF TxInv, TxWrite
<1>3. TxExpected'
  <2>1. in' = in => InFlight' = InFlight
    BY DEF InFlight
  <2>. QED BY <1>1, <2>1 DEF TxInv, TxExpected
<1>. QED BY <1>1, <1>2, <1>3 DEF TxInv

(* Steps that send the next packet.                                        *)
LEMMA TxSends ==
  ASSUME TxInv, in = <<>>, NEW cfg, NEW busy, NEW zlp, TxMaybeSend(cfg, busy, zlp),
         UNCHANGED <<txbuf, txTail, txNext, host>>, pc' = "given" => pc = "given", TxOne'
  PROVE  TxInv'
<1>1. TxBytes' /\ TxUsed' + Len(InFlight') = TxUsed + Len(InFlight) /\ TxUsed' \in 0 .. TxUsed
  BY TxSentOn DEF TxInv
<1>2. TxUsed \in 0 .. TxSize - 1 /\ TxSize \in Nat
  BY TxRing DEF TxInv, TxBytes
<1>3. TxWrite'
  BY <1>1, <1>2 DEF TxInv, TxWrite
<1>4. TxExpected'
  BY <1>1 DEF TxInv, TxExpected
<1>. QED BY <1>1, <1>3, <1>4 DEF TxInv

LEMMA TxNext ==
  ASSUME DataInv, [Next]_vars
  PROVE  TxInv'
<1>. USE DEF DataInv
<1>1. CASE IrqReset \/ IrqSessionEnd
  <2>1. UNCHANGED <<ring, main, host>> /\ Deconfigure /\ ~host.configured /\ (mask' = mask \/ ~config')
    BY <1>1 DEF IrqReset, IrqSessionEnd, Linked, Deconfigure
  <2>2. in' = <<>> /\ ~config'
    BY <2>1 DEF Deconfigure, TxInv, TxOne
  <2>. QED BY <2>1, <2>2, TxKept DEF TxOne, ring, main
<1>2. CASE IrqRx \/ IrqOut
  <2>1. UNCHANGED <<txbuf, txHead, txTail, txNext, pc, config, txBusy, mask, in, inDone, host>>
    BY <1>2 DEF IrqRx, IrqOut, ring, main, device
  <2>2. TxOne'
    BY <2>1 DEF TxInv, TxOne
  <2>. QED BY <2>1, <2>2, TxKept
<1>3. CASE IrqSetup
  <2>1. UNCHANGED <<txbuf, txHead, txTail, txNext, pc, inDone>>
    BY <1>3 DEF IrqSetup, ring, main
  <2>2. ~host'.configured /\ in' = <<>> /\ config' = (setup = "on") /\ mask' = (mask \/ setup = "on")
    BY <1>3 DEF IrqSetup, Linked, TxInv, TxOne
  <2>3. TxOne'
    BY <2>2 DEF TxOne
  <2>. QED BY <2>1, <2>2, <2>3, TxKept
<1>4. CASE IrqIn
  <2>1. in = <<>> /\ TxMaybeSend(config, FALSE, txZlp)
    BY <1>4 DEF IrqIn, TxInv, TxOne
  <2>2. UNCHANGED <<txbuf, txTail, txNext, host, pc, config, mask>> /\ ~inDone'
    BY <1>4 DEF IrqIn, main
  <2>3. TxOne'
    BY <2>1, <2>2 DEF TxMaybeSend, TxInv, TxOne
  <2>. QED BY <2>1, <2>2, <2>3, TxSends
<1>5. CASE PollVbus \/ PollConnect
  <2>1. UNCHANGED <<txbuf, txHead, txTail, txNext, inDone, mask, host>> /\ pc' # "given"
    BY <1>5 DEF PollVbus, PollConnect, MainUnchanged, ring
  <2>2. TxOne' /\ (in' = in \/ (in' = <<>> /\ ~host.configured))
    <3>1. CASE UNCHANGED <<config, txBusy, in>>
      <4>1. TxOne
        BY DEF TxInv
      <4>. QED BY <2>1, <3>1, <4>1 DEF TxOne
    <3>2. CASE ~UNCHANGED <<config, txBusy, in>>
      <4>1. Deconfigure /\ pc = "connect" /\ ~seen
        BY <1>5, <3>2 DEF PollVbus, PollConnect, device
      <4>2. ~host.configured /\ in' = <<>> /\ ~config'
        BY <4>1 DEF Deconfigure, Linked, TxInv, TxOne
      <4>. QED BY <4>2 DEF TxOne
    <3>. QED BY <3>1, <3>2
  <2>3. TxBytes' /\ TxUsed' = TxUsed
    BY <2>1, <2>2, TxBytesKept DEF TxInv
  <2>4. TxExpected'
    <3>1. in' = in => InFlight' = InFlight
      BY DEF InFlight
    <3>. QED BY <2>1, <2>2, <2>3, <3>1 DEF TxInv, TxExpected
  <2>. QED BY <2>1, <2>2, <2>3, <2>4 DEF TxInv, TxWrite
<1>6. CASE PollArm
  <2>1. /\ TxMaybeSend(config, txBusy, txZlp) /\ pc' = "read" /\ ~(mask /\ inDone)
        /\ UNCHANGED <<txbuf, txTail, txNext, host, config, mask, inDone>>
    BY <1>6 DEF PollArm, Pending, MainUnchanged
  <2>2. TxOne'
    BY <2>1 DEF TxMaybeSend, TxInv, TxOne
  <2>3. CASE in = <<>>
    BY <2>1, <2>2, <2>3, TxSends
  <2>4. CASE in # <<>>
    <3>1. UNCHANGED <<in, txHead>>
      BY <2>1, <2>4 DEF TxMaybeSend, TxInv, TxOne
    <3>2. TxBytes' /\ TxUsed' = TxUsed /\ InFlight' = InFlight
      BY <2>1, <3>1, TxBytesKept DEF TxInv, InFlight
    <3>. QED BY <2>1, <2>2, <3>2 DEF TxInv, TxWrite, TxExpected
  <2>. QED BY <2>3, <2>4
<1>7. CASE ReadByte \/ ReadDone \/ ReadNothing \/ WriteNothing
  <2>1. UNCHANGED <<txbuf, txHead, txTail, txNext, config, txBusy, mask, in, inDone, host>> /\ pc' # "given"
    BY <1>7 DEF ReadByte, ReadDone, ReadNothing, WriteNothing, ring, device, core
  <2>2. TxBytes' /\ TxUsed' = TxUsed /\ InFlight' = InFlight
    BY <2>1, TxBytesKept DEF TxInv, InFlight
  <2>. QED BY <2>1, <2>2 DEF TxInv, TxWrite, TxOne, TxExpected
<1>8. CASE WriteByte
  <2>1. TxBytes' /\ TxUsed' = TxUsed /\ TxWrite' /\ InFlight' = InFlight
    BY <1>8, TxWritten DEF TxInv
  <2>2. UNCHANGED <<txNext, config, txBusy, mask, in, inDone, host>>
    BY <1>8 DEF WriteByte, device, core
  <2>. QED BY <2>1, <2>2 DEF TxInv, TxOne, TxExpected
<1>9. CASE WriteDone
  <2>1. TxBytes' /\ TxUsed' = TxUsed + 1 /\ InFlight' = InFlight /\ txNext' = (txNext + 1) % TxCount
    BY <1>9, TxGiven DEF TxInv
  <2>2. UNCHANGED <<config, txBusy, mask, in, inDone, host>> /\ pc' = "poll" /\ pc = "given"
    BY <1>9 DEF WriteDone, device, core
  <2>3. TxExpected'
    <3> SUFFICES ASSUME host.configured
                 PROVE  TxUsed + 1 + Len(InFlight) = Ahead(host.expects, txNext', TxCount)
      BY <2>1, <2>2 DEF TxExpected
    <3>1. /\ TxCount \in Nat \ {0} /\ txNext \in 0 .. TxCount - 1 /\ host.expects \in 0 .. TxCount - 1
          /\ TxUsed \in 0 .. TxSize - 1 /\ Len(InFlight) \in 0 .. Mps
          /\ TxSize \in Nat /\ Mps \in Nat \ {0} /\ TxSize + Mps <= TxCount /\ TxUsed < TxSize - 1
      BY <2>2, TxRing DEF TxInv, TxBytes, TxTypes, Linked, TxWrite
    <3>2. TxUsed + Len(InFlight) = Ahead(host.expects, txNext, TxCount)
      BY DEF TxInv, TxExpected
    <3>3. 1 \in 0 .. TxCount - 1 /\ TxUsed + Len(InFlight) + 1 < TxCount
      BY <3>1
    <3>4. Ahead(host.expects, (txNext + 1) % TxCount, TxCount) =
            IF Ahead(host.expects, txNext, TxCount) + 1 < TxCount THEN Ahead(host.expects, txNext, TxCount) + 1
            ELSE Ahead(host.expects, txNext, TxCount) + 1 - TxCount
      BY <3>1, <3>3, TailMoved, Zenon
    <3>5. Ahead(host.expects, txNext', TxCount) = TxUsed + Len(InFlight) + 1
      BY ONLY <2>1, <3>2, <3>3, <3>4
    <3>. QED BY <3>1, <3>5
  <2>. QED BY <2>1, <2>2, <2>3 DEF TxInv, TxWrite, TxOne
<1>10. CASE Plug \/ Unplug \/ BusReset \/ Configure \/ HostOut
  <2>1. UNCHANGED <<txbuf, txHead, txTail, txNext, pc, config, txBusy, mask, in, inDone>>
    BY <1>10 DEF Plug, Unplug, BusReset, Configure, HostOut, HostUnchanged, ring, device, main
  <2>2. host'.configured => host.configured /\ host'.expects = host.expects
    BY <1>10 DEF Plug, Unplug, BusReset, Configure, HostOut, Linked
  <2>3. TxOne'
    BY <2>1 DEF TxInv, TxOne
  <2>. QED BY <2>1, <2>2, <2>3, TxKept
<1>11. CASE Configured
  <2>1. UNCHANGED <<txbuf, txHead, txTail, txNext, pc, config, txBusy, mask, in, inDone>>
    BY <1>11 DEF Configured, HostUnchanged, core, ring, device, main
  <2>2. TxBytes' /\ TxUsed' = TxUsed /\ InFlight' = InFlight
    BY <2>1, TxBytesKept DEF TxInv, InFlight
  <2>3. TxExpected'
    <3> SUFFICES ASSUME host'.configured
                 PROVE  TxUsed + Len(InFlight) = Ahead(host'.expects, txNext, TxCount)
      BY <2>1, <2>2 DEF TxExpected
    <3>1. host'.expects = (txNext - Len(TxPipe) + TxCount) % TxCount
      BY <1>11 DEF Configured, Linked
    <3>2. TxCount \in Nat \ {0} /\ txNext \in 0 .. TxCount - 1
      BY TxRing DEF TxInv, TxBytes, TxTypes
    <3>3. Len(TxPipe) = TxUsed + Len(InFlight) /\ Len(TxPipe) \in 0 .. TxCount - 1
      BY PipeLength DEF TxInv
    <3>4. \A c \in Nat \ {0} : \A x, k \in 0 .. c - 1 : Ahead((x - k + c) % c, x, c) = k
      BY DEF Ahead
    <3>. QED BY <3>1, <3>2, <3>3, <3>4
  <2>. QED BY <2>1, <2>2, <2>3 DEF TxInv, TxWrite, TxOne
<1>12. CASE HostIn
  <2>1. UNCHANGED <<txbuf, txHead, txTail, txNext, pc, config, txBusy, mask>> /\ in # <<>> /\ in' = <<>> /\ host.configured
    BY <1>12 DEF HostIn, HostUnchanged, ring, device, main
  <2>2. TxBytes' /\ TxUsed' = TxUsed /\ InFlight' = <<>> /\ InFlight = in[1] /\ Len(InFlight') = 0
    BY <2>1, TxBytesKept DEF TxInv, InFlight
  <2>3. TxExpected'
    <3>1. host'.expects = (host.expects + Len(InFlight)) % TxCount
      BY <1>12, <2>2 DEF HostIn, Linked
    <3>2. /\ TxCount \in Nat \ {0} /\ txNext \in 0 .. TxCount - 1 /\ host.expects \in 0 .. TxCount - 1
          /\ Len(InFlight) \in 0 .. Mps /\ TxUsed \in 0 .. TxSize - 1 /\ Mps \in Nat /\ TxSize \in Nat \ {0}
          /\ TxSize + Mps <= TxCount
      BY TxRing DEF TxInv, TxBytes, TxTypes, Linked
    <3>3. Len(InFlight) \in 0 .. TxCount - 1
      BY <3>2
    <3>4. Ahead((host.expects + Len(InFlight)) % TxCount, txNext, TxCount) =
            IF Ahead(host.expects, txNext, TxCount) < Len(InFlight)
            THEN Ahead(host.expects, txNext, TxCount) - Len(InFlight) + TxCount
            ELSE Ahead(host.expects, txNext, TxCount) - Len(InFlight)
      BY <3>2, <3>3, HeadMoved, Zenon
    <3>5. Ahead(host.expects, txNext, TxCount) = TxUsed + Len(InFlight)
      BY <2>1 DEF TxInv, TxExpected
    <3>6. Ahead(host'.expects, txNext, TxCount) = TxUsed
      BY <3>1, <3>2, <3>4, <3>5
    <3>. QED BY <2>1, <2>2, <3>2, <3>6 DEF TxExpected
  <2>4. TxOne'
    BY <2>1 DEF TxInv, TxOne
  <2>. QED BY <2>1, <2>2, <2>3, <2>4 DEF TxInv, TxWrite
<1>13. CASE UNCHANGED vars
  <2>1. TxOne'
    BY <1>13 DEF vars, TxInv, TxOne
  <2>. QED BY <1>13, <2>1, TxKept DEF vars
<1>. QED BY <1>1, <1>2, <1>3, <1>4, <1>5, <1>6, <1>7, <1>8, <1>9, <1>10, <1>11, <1>12, <1>13
  DEF Next, Irq, Main, Host, Reading

-----------------------------------------------------------------------------
(* The theorems *)

LEMMA DataInit == Init => DataInv
<1> SUFFICES ASSUME Init
             PROVE  DataInv
  OBVIOUS
<1>1. /\ RxSize \in Nat \ {0} /\ RxCount \in Nat \ {0} /\ TxSize \in Nat \ {0} /\ TxCount \in Nat \ {0}
      /\ Mps \in Nat \ {0} /\ Mps < RxSize
  BY Sizes
<1>2. \A n \in Nat \ {0} : (0 - 0 + n) % n = 0
  OBVIOUS
<1>3. Available = 0 /\ TxUsed = 0
  BY <1>1, <1>2 DEF Init, Available, TxUsed
<1>4. InFifo = <<>> /\ InFlight = <<>> /\ Len(<<>>) = 0
  BY DEF Init, InFifo, InFlight
<1>5. RxTypes /\ TxTypes
  BY <1>1, <1>4 DEF Init, RxTypes, TxTypes
<1>6. RxSlots /\ TxSlots
  <2>1. ASSUME NEW s \in 0 .. RxSize - 1 PROVE ~(Ahead(rxHead, s, RxSize) < 0)
    <3>1. rxHead \in 0 .. RxSize - 1
      BY <1>5 DEF RxTypes
    <3>2. Ahead(rxHead, s, RxSize) \in 0 .. RxSize - 1
      BY <1>1, <3>1, AheadIs, Zenon
    <3>. QED BY <3>2
  <2>2. ASSUME NEW s \in 0 .. TxSize - 1 PROVE ~(Ahead(txHead, s, TxSize) < 0)
    <3>1. txHead \in 0 .. TxSize - 1
      BY <1>5 DEF TxTypes
    <3>2. Ahead(txHead, s, TxSize) \in 0 .. TxSize - 1
      BY <1>1, <3>1, AheadIs, Zenon
    <3>. QED BY <3>2
  <2>. QED BY <1>3, <2>1, <2>2 DEF RxSlots, TxSlots
<1>7. RxPacket
  <2>1. RxFree \in Nat
    BY <1>3, <1>5, RxRing
  <2>2. host.sent = (rxNext + Available + Len(InFifo)) % RxCount
    BY <1>1, <1>3, <1>4 DEF Init
  <2>. QED BY <1>4, <2>1, <2>2 DEF Init, RxPacket
<1>8. TxPacket /\ TxWrite /\ TxOne /\ TxExpected /\ RxRead
  BY <1>4 DEF Init, TxPacket, TxWrite, TxOne, TxExpected, RxRead
<1>9. Linked
  <2>1. 0 \in 0 .. RxCount - 1 /\ 0 \in 0 .. TxCount - 1
    BY <1>1
  <2>. QED BY <2>1 DEF Init, Linked
<1>. QED BY <1>5, <1>6, <1>7, <1>8, <1>9 DEF DataInv, RxInv, TxInv, TxBytes

LEMMA DataNext == DataInv /\ [Next]_vars => DataInv'
BY RxNext, LinkedNext, TxNext DEF DataInv

LEMMA DataAlways == Spec => []DataInv
BY DataInit, DataNext, PTL DEF Spec

(* Two ways to say that bytes are numbered from first on.                  *)
LEMMA NumbersAre ==
  ASSUME NEW n \in Nat \ {0}, NEW first \in 0 .. n - 1, NEW next \in 0 .. n - 1,
         NEW q \in Seq(0 .. n - 1), Len(q) = Ahead(first, next, n),
         \A i \in 1 .. Len(q) : q[i] = (first + i - 1) % n
  PROVE  q = Numbers(first, next, n)
<1>1. q = [i \in 1 .. Len(q) |-> q[i]]
  OBVIOUS
<1>. QED BY <1>1 DEF Numbers, Ahead

LEMMA RxContentIs ==
  ASSUME RxInv
  PROVE  /\ RxContent \in Seq(0 .. RxCount - 1) /\ Len(RxContent) = Available
         /\ \A i \in 1 .. Available : RxContent[i] = (rxNext + (i - 1)) % RxCount
<1>1. /\ RxSize \in Nat \ {0} /\ RxCount \in Nat \ {0} /\ Available \in 0 .. RxSize - 1
      /\ rxHead \in 0 .. RxSize - 1 /\ rxNext \in 0 .. RxCount - 1
  BY RxRing DEF RxInv, RxTypes
<1>2. ASSUME NEW i \in 1 .. Available
      PROVE  /\ RxContent[i] = (rxNext + (i - 1)) % RxCount
             /\ RxContent[i] \in 0 .. RxCount - 1
  <2>1. i - 1 \in 0 .. RxSize - 1 /\ i - 1 < Available
    BY <1>1
  <2>2. (rxHead + (i - 1)) % RxSize \in 0 .. RxSize - 1 /\ Ahead(rxHead, (rxHead + (i - 1)) % RxSize, RxSize) = i - 1
    BY <1>1, <2>1, AheadCounted, Zenon
  <2>3. RxContent[i] = rxbuf[(rxHead + (i - 1)) % RxSize]
    <3>1. rxHead + (i - 1) = rxHead + i - 1
      BY <1>1
    <3>. QED BY <3>1 DEF RxContent
  <2>4. RxContent[i] = (rxNext + (i - 1)) % RxCount
    BY <2>1, <2>2, <2>3 DEF RxInv, RxSlots
  <2>5. (rxNext + (i - 1)) % RxCount \in 0 .. RxCount - 1
    BY <1>1, <2>1
  <2>. QED BY <2>4, <2>5
<1>3. RxContent \in [1 .. Available -> 0 .. RxCount - 1]
  BY <1>2 DEF RxContent
<1>. QED BY <1>1, <1>2, <1>3

LEMMA RxOrdered == RxInv => RxInOrder
<1> SUFFICES ASSUME RxInv
             PROVE  RxInOrder
  OBVIOUS
<1>1. /\ RxSize \in Nat \ {0} /\ RxCount \in Nat \ {0} /\ RxSize <= RxCount /\ Available \in 0 .. RxSize - 1
      /\ rxNext \in 0 .. RxCount - 1 /\ RxFree = RxSize - 1 - Available
  BY RxRing DEF RxInv, RxTypes
<1>2. /\ RxContent \in Seq(0 .. RxCount - 1) /\ Len(RxContent) = Available
      /\ \A i \in 1 .. Available : RxContent[i] = (rxNext + (i - 1)) % RxCount
  BY RxContentIs
<1>3. InFifo \in Seq(0 .. RxCount - 1)
  BY OnePacket DEF InFifo, RxInv, RxPacket
<1>4. PICK m \in Nat : m = Len(InFifo)
  BY <1>3
<1>5. /\ Available + m < RxCount /\ host.sent = (rxNext + Available + m) % RxCount
      /\ \A i \in 1 .. m : InFifo[i] = (rxNext + Available + i - 1) % RxCount
  <2>1. m <= RxFree
    BY <1>4 DEF RxInv, RxPacket
  <2>. QED BY <1>1, <1>4, <2>1 DEF RxInv, RxPacket
<1> DEFINE q == RxContent \o InFifo
<1>6. /\ q \in Seq(0 .. RxCount - 1) /\ Len(q) = Available + m
      /\ \A i \in 1 .. Available + m : q[i] = IF i <= Available THEN RxContent[i] ELSE InFifo[i - Available]
  BY <1>2, <1>3, <1>4, ConcatProperties
<1>. HIDE DEF q
<1>7. ASSUME NEW i \in 1 .. Available + m
      PROVE  q[i] = (rxNext + i - 1) % RxCount
  <2>1. CASE i <= Available
    <3>1. i \in 1 .. Available /\ rxNext + (i - 1) = rxNext + i - 1
      BY <1>1, <2>1
    <3>. QED BY <1>2, <1>6, <2>1, <3>1
  <2>2. CASE ~(i <= Available)
    <3>1. i - Available \in 1 .. m /\ rxNext + Available + (i - Available) - 1 = rxNext + i - 1
      BY <1>1, <2>2
    <3>. QED BY <1>5, <1>6, <2>2, <3>1
  <2>. QED BY <2>1, <2>2
<1>8. host.sent \in 0 .. RxCount - 1 /\ Len(q) = Ahead(rxNext, host.sent, RxCount)
  <2>1. \A k \in 0 .. RxCount - 1 : (rxNext + k) % RxCount \in 0 .. RxCount - 1
                                    /\ Ahead(rxNext, (rxNext + k) % RxCount, RxCount) = k
    BY <1>1, AheadCounted, Zenon
  <2>2. Available + m \in 0 .. RxCount - 1 /\ rxNext + (Available + m) = rxNext + Available + m
    BY <1>1, <1>5
  <2>. QED BY <1>5, <1>6, <2>1, <2>2
<1>9. q = Numbers(rxNext, host.sent, RxCount)
  <2>1. \A i \in 1 .. Len(q) : q[i] = (rxNext + i - 1) % RxCount
    BY <1>6, <1>7
  <2>. QED BY <1>1, <1>6, <1>8, <2>1, NumbersAre
<1>. QED BY <1>9 DEF q, InFifo, RxInOrder, RxInv, RxRead

LEMMA TxOrdered == TxInv /\ Linked => TxInOrder
<1> SUFFICES ASSUME TxInv, Linked
             PROVE  TxInOrder
  OBVIOUS
<1>1. /\ TxCount \in Nat \ {0} /\ TxUsed \in 0 .. TxSize - 1 /\ TxSize \in Nat
      /\ txNext \in 0 .. TxCount - 1 /\ InFlight \in Seq(0 .. TxCount - 1)
  BY TxRing DEF TxInv, TxBytes, TxTypes
<1>2. /\ TxContent \in Seq(0 .. TxCount - 1) /\ Len(TxContent) = TxUsed
      /\ \A i \in 1 .. TxUsed : TxContent[i] = (txNext - TxUsed + (i - 1) + TxCount) % TxCount
  BY TxContentIs DEF TxInv, TxBytes
<1>3. PICK m \in Nat : m = Len(InFlight)
  BY <1>1
<1>4. Len(TxPipe) = TxUsed + m /\ TxUsed + m \in 0 .. TxCount - 1
  BY <1>3, PipeLength DEF TxInv
<1>5. /\ TxPipe \in Seq(0 .. TxCount - 1)
      /\ \A i \in 1 .. m + TxUsed : TxPipe[i] = IF i <= m THEN InFlight[i] ELSE TxContent[i - m]
  BY <1>1, <1>2, <1>3, ConcatProperties DEF TxPipe
<1> DEFINE first == (txNext - (TxUsed + m) + TxCount) % TxCount
<1>6. first \in 0 .. TxCount - 1 /\ Ahead(first, txNext, TxCount) = TxUsed + m
  <2>1. \A c \in Nat \ {0} : \A x, k \in 0 .. c - 1 :
          (x - k + c) % c \in 0 .. c - 1 /\ Ahead((x - k + c) % c, x, c) = k
    BY DEF Ahead
  <2>. QED BY <1>1, <1>4, <2>1
<1>7. ASSUME NEW i \in 1 .. TxUsed + m
      PROVE  TxPipe[i] = (first + i - 1) % TxCount
  <2>1. TxPipe[i] = (txNext - (TxUsed + m) + (i - 1) + TxCount) % TxCount
    <3>1. CASE i <= m
      <4>1. i \in 1 .. m + TxUsed /\ i \in 1 .. m
        BY <1>1, <3>1
      <4>2. InFlight[i] = (txNext - TxUsed - m + i - 1 + TxCount) % TxCount
        BY <1>3, <4>1 DEF TxInv, TxBytes, TxPacket
      <4>3. txNext - TxUsed - m + i - 1 + TxCount = txNext - (TxUsed + m) + (i - 1) + TxCount
        BY <1>1
      <4>. QED BY <1>5, <3>1, <4>1, <4>2, <4>3
    <3>2. CASE ~(i <= m)
      <4>1. i \in 1 .. m + TxUsed /\ i - m \in 1 .. TxUsed
        BY <1>1, <3>2
      <4>2. TxContent[i - m] = (txNext - TxUsed + (i - m - 1) + TxCount) % TxCount
        BY <1>2, <4>1
      <4>3. txNext - TxUsed + (i - m - 1) + TxCount = txNext - (TxUsed + m) + (i - 1) + TxCount
        BY <1>1
      <4>. QED BY <1>5, <3>2, <4>1, <4>2, <4>3
    <3>. QED BY <3>1, <3>2
  <2>2. \A c \in Nat \ {0} : \A x, k \in 0 .. c - 1 : \A j \in 0 .. k :
          (((x - k + c) % c) + j) % c = (x - k + j + c) % c
    OBVIOUS
  <2>3. TxUsed + m \in 0 .. TxCount - 1 /\ i - 1 \in 0 .. TxUsed + m
    BY <1>1, <1>4
  <2>4. (first + (i - 1)) % TxCount = (txNext - (TxUsed + m) + (i - 1) + TxCount) % TxCount
    BY <1>1, <2>2, <2>3
  <2>5. first + (i - 1) = first + i - 1
    BY <1>6
  <2>. QED BY <2>1, <2>4, <2>5
<1>8. TxPipe = Numbers(first, txNext, TxCount)
  <2>. HIDE DEF first
  <2>1. Len(TxPipe) = Ahead(first, txNext, TxCount) /\ \A i \in 1 .. Len(TxPipe) : TxPipe[i] = (first + i - 1) % TxCount
    BY <1>4, <1>6, <1>7
  <2>. QED BY <1>1, <1>5, <1>6, <2>1, NumbersAre
<1>9. host.configured => Len(TxPipe) = (txNext - host.expects + TxCount) % TxCount
  BY <1>3, <1>4 DEF TxInv, TxExpected, Ahead
<1>. QED BY <1>4, <1>8, <1>9 DEF TxInOrder

(* Every byte that the core has taken from the PC reaches the main loop,   *)
(* and every byte that the main loop queues reaches the PC that reads,     *)
(* once and in order, whenever interrupts come and the PC resets,          *)
(* configures or unplugs the device.                                       *)
THEOREM BytesKeepOrder == Spec => []BytesInOrder
<1>1. DataInv => BytesInOrder
  BY RxOrdered, TxOrdered DEF DataInv, BytesInOrder
<1>. QED BY <1>1, DataAlways, PTL

(* The endpoint never accepts a packet that the ring has no room for.      *)
THEOREM AcceptsWhatFits == Spec => [](out => RxFree >= Mps)
<1>1. DataInv => (out => RxFree >= Mps)
  BY DEF DataInv, RxInv, RxPacket, RxRoom
<1>. QED BY <1>1, DataAlways, PTL
=============================================================================

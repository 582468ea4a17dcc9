-------------------------------- MODULE Enet --------------------------------
(***************************************************************************)
(* The Ethernet controller of hw/misc/mcxn_enet.c with the queue QEMU's net  *)
(* layer keeps in front of it, and a driver that fills and empties the two   *)
(* descriptor rings.                                                        *)
(*                                                                         *)
(* A frame is a sequence of pieces <<f, k>>, a piece being what one          *)
(* descriptor's buffers hold.  Frames 1 .. MaxFrames come from the network,  *)
(* the next ones are the driver's.  s is the device's state with the rings   *)
(* in guest memory; cur_rx and cur_tx are slots, NoRing while the list       *)
(* address is 0.  NIS, the written-back lengths, the PHY with its MDIO       *)
(* registers and interrupt, and the registers that only store are left out.  *)
(***************************************************************************)
EXTENDS Naturals, Sequences

CONSTANTS
  RxLen, TxLen,   \* DMA_CH0_RXRING_LEN + 1, DMA_CH0_TXRING_LEN + 1
  RingGuard,      \* ENET_RING_GUARD
  FrameMax,       \* ENET_FRAME_MAX, in pieces
  MaxFrames,      \* bound: frames that arrive and frames the driver posts
  MacIn, IntIn    \* MAC_CONFIGURATION and interrupt enables the driver writes

NoRing == RxLen + TxLen   \* a slot of neither ring
RxSlot == 0 .. RxLen - 1
TxSlot == 0 .. TxLen - 1
Bit == {"TI", "RI", "RBU"}

Frame(f) == [k \in 1 .. 1 + (f % 2) |-> <<f, k>>]

VARIABLES
  s,        \* MCXNEnetState, the rings, and the frames it sent to the network
  netq,     \* frames in the NIC's incoming queue
  arrived,  \* frames that came from the network so far
  drv       \* the driver: its slots, the frames it received, what it posts

enet == <<s, netq, arrived, drv>>

Free == [own |-> TRUE, fd |-> FALSE, ld |-> FALSE, data |-> << >>]
Spent == [own |-> FALSE, fd |-> FALSE, ld |-> FALSE, data |-> << >>, ioc |-> FALSE]

\* Out of reset: the rings stay in memory, and what was sent is sent.
Regs(rx, tx, out) ==
  [mac |-> {}, sr |-> FALSE, st |-> FALSE, status |-> {}, int_en |-> {},
   tail |-> 0, cur_rx |-> NoRing, cur_tx |-> NoRing, irq |-> FALSE,
   rx |-> rx, tx |-> tx, out |-> out]

EnetInit ==
  /\ s = Regs([i \in RxSlot |-> Free], [i \in TxSlot |-> Spent], << >>)
  /\ netq = << >>
  /\ arrived = 0
  /\ drv = [take |-> 0, part |-> << >>, got |-> << >>,
            put |-> 0, mark |-> 0, posted |-> 0, pieces |-> 0]

-----------------------------------------------------------------------------
\* RBU raises no interrupt of its own.
IrqWanted(t) == (t.status \cap t.int_en \cap {"TI", "RI"}) # {}

mcxn_enet_update_irq(t) == [t EXCEPT !.irq = IrqWanted(t)]

mcxn_enet_can_receive(t) == "RE" \in t.mac /\ t.sr

\* Mutant: only the first descriptor of a frame is checked for OWN.
OwnedFirst(t, n) == IF t.rx[t.cur_rx].own THEN n ELSE 0

\* Consecutive descriptors the device owns from cur_rx on, up to n.
Owned(t, n) ==
  CHOOSE m \in 0 .. n :
    /\ m <= RxLen
    /\ \A k \in 0 .. m - 1 : t.rx[(t.cur_rx + k) % RxLen].own
    /\ m \in {n, RxLen} \/ ~t.rx[(t.cur_rx + m) % RxLen].own

\* The first m pieces go into descriptors, FD on the first and LD on the last of all.
Written(t, frame, m) ==
  LET piece(i) == ((i + RxLen - t.cur_rx) % RxLen) + 1
      Desc(k) == [own |-> FALSE, fd |-> k = 1, ld |-> k = Len(frame), data |-> frame[k]]
  IN  [t EXCEPT !.rx = [i \in RxSlot |-> IF piece(i) <= m THEN Desc(piece(i)) ELSE @[i]],
                !.cur_rx = (@ + m) % RxLen]

\* RI for a whole frame, RBU for one that ran out of buffers.
Status(t, whole) == [t EXCEPT !.status = @ \cup {IF whole THEN "RI" ELSE "RBU"}]

\* A frame goes into as many descriptors as the device owns.  When they run out the
\* pieces already written stay.
mcxn_enet_deliver(t, whole) ==
  LET frame == SubSeq(whole, 1, IF Len(whole) > FrameMax THEN FrameMax ELSE Len(whole))
      m == Owned(t, Len(frame))
  IN  IF ~mcxn_enet_can_receive(t) \/ t.cur_rx = NoRing THEN t
      ELSE mcxn_enet_update_irq(Status(Written(t, frame, m), m = Len(frame)))

\* A complete frame leaves, over the loopback or to the network.
Sent(t, frame, ioc) ==
  LET u == IF "LM" \in t.mac THEN mcxn_enet_deliver(t, frame)
           ELSE [t EXCEPT !.out = Append(@, frame)]
  IN  IF ioc THEN [u EXCEPT !.status = @ \cup {"TI"}] ELSE u

\* A turn of the transmitter's loop.  w.frame and w.ioc are the pieces and the IOC of
\* this walk's current frame.  A turn that finds the tail, or a descriptor the device
\* does not own, changes nothing, and so ends the walk.
TxTurn(w) ==
  LET t == w.dev
      d == t.tx[t.cur_tx]
      before == IF d.fd THEN << >> ELSE w.frame
      all == IF Len(before) < FrameMax THEN Append(before, d.data) ELSE before
      wanted == (w.ioc /\ ~d.fd) \/ d.ioc
      u == [t EXCEPT !.tx[t.cur_tx].own = FALSE, !.cur_tx = (@ + 1) % TxLen]
  IN  IF t.cur_tx = t.tail \/ ~d.own THEN w
      ELSE IF d.ld THEN [dev |-> Sent(u, all, wanted), frame |-> << >>, ioc |-> wanted]
      ELSE [dev |-> u, frame |-> all, ioc |-> wanted]

\* The device after at most guard turns.
TxWalk(t, guard) ==
  LET walk[n \in Nat] == IF n = 0 THEN [dev |-> t, frame |-> << >>, ioc |-> FALSE]
                         ELSE TxTurn(walk[n - 1])
  IN  walk[guard].dev

TxReady(t) == "TE" \in t.mac /\ t.st /\ t.cur_tx # NoRing

\* Mutant: a walk ends after its first descriptor.
TxProcessOne(t) ==
  IF TxReady(t) THEN mcxn_enet_update_irq(TxWalk(t, 1)) ELSE t

mcxn_enet_tx_process(t) ==
  IF TxReady(t) THEN mcxn_enet_update_irq(TxWalk(t, RingGuard)) ELSE t

\* qemu_flush_queued_packets: the queue is emptied into mcxn_enet_receive, which
\* never refuses a frame and is not asked whether it can receive.
Flushed(t, queue) ==
  LET run[n \in Nat] == IF n = 0 THEN t ELSE mcxn_enet_deliver(run[n - 1], queue[n])
  IN  run[Len(queue)]

-----------------------------------------------------------------------------
\* qemu_net_queue_send, for the next frame from the network.
qemu_net_queue_send ==
  /\ arrived + drv.posted < MaxFrames
  /\ arrived' = arrived + 1
  /\ IF mcxn_enet_can_receive(s)
     THEN /\ s' = Flushed(mcxn_enet_deliver(s, Frame(arrived + 1)), netq)
          /\ netq' = << >>
     ELSE netq' = Append(netq, Frame(arrived + 1)) /\ UNCHANGED s
  /\ UNCHANGED drv

\* A register write that lets the receiver run delivers what waits.
StoreAndFlush(t) ==
  /\ IF mcxn_enet_can_receive(t)
     THEN s' = Flushed(t, netq) /\ netq' = << >>
     ELSE s' = t /\ UNCHANGED netq
  /\ UNCHANGED <<arrived, drv>>

WriteMacConfiguration(v) == StoreAndFlush([s EXCEPT !.mac = v])

\* Mutant: the write of RX_CTRL only stores.
WriteRxCtrlOnly(v) == s' = [s EXCEPT !.sr = v] /\ UNCHANGED <<netq, arrived, drv>>

WriteRxCtrl(v) == StoreAndFlush([s EXCEPT !.sr = v])

WriteTxCtrl(v) == s' = [s EXCEPT !.st = v] /\ UNCHANGED <<netq, arrived, drv>>

\* The tail write flushes whether the receiver runs or not.
WriteRxTail ==
  /\ s' = Flushed(s, netq)
  /\ netq' = << >>
  /\ UNCHANGED <<arrived, drv>>

\* DMA_CH0_STATUS is write-one-to-clear: the driver acknowledges what it read.
WriteStatus ==
  /\ s' = mcxn_enet_update_irq([s EXCEPT !.status = {}])
  /\ UNCHANGED <<netq, arrived, drv>>

WriteIntEn(v) ==
  /\ s' = mcxn_enet_update_irq([s EXCEPT !.int_en = v])
  /\ UNCHANGED <<netq, arrived, drv>>

\* System reset: the rings stay in memory, the queue stays in the net layer.
mcxn_enet_reset ==
  /\ s' = Regs(s.rx, s.tx, s.out)
  /\ drv' = [drv EXCEPT !.part = << >>]
  /\ UNCHANGED <<netq, arrived>>

\* The machine stops, and goes on here or, loaded by mcxn_enet_post_load, elsewhere:
\* net_vm_change_state_handler completes the queue.
VmStop ==
  /\ s' = mcxn_enet_update_irq(Flushed(s, netq))
  /\ netq' = << >>
  /\ UNCHANGED <<arrived, drv>>

-----------------------------------------------------------------------------
\* The driver.  A ring is set up, its list and tail written, while its engine is off.
SetupRx ==
  /\ ~mcxn_enet_can_receive(s)
  /\ s' = [s EXCEPT !.rx = [i \in RxSlot |-> Free], !.cur_rx = 0]
  /\ drv' = [drv EXCEPT !.take = 0, !.part = << >>]
  /\ UNCHANGED <<netq, arrived>>

SetupTx ==
  /\ ~TxReady(s)
  /\ s' = [s EXCEPT !.tx = [i \in TxSlot |-> Spent], !.cur_tx = 0, !.tail = 0]
  /\ drv' = [drv EXCEPT !.put = 0, !.mark = 0, !.pieces = 0]
  /\ UNCHANGED <<netq, arrived>>

\* It takes the next filled descriptor and gives it back; FD starts a frame afresh.
RxTake ==
  LET d == s.rx[drv.take]
      part == IF d.fd THEN <<d.data>> ELSE Append(drv.part, d.data)
  IN  /\ s.cur_rx # NoRing
      /\ ~d.own
      /\ s' = [s EXCEPT !.rx[drv.take] = Free]
      /\ drv' = [drv EXCEPT !.take = (@ + 1) % RxLen,
                            !.part = IF d.ld THEN << >> ELSE part,
                            !.got = IF d.ld THEN Append(@, part) ELSE @]
      /\ UNCHANGED <<netq, arrived>>

\* It writes the next descriptor of the frame it posts, one slot always kept free.
TxPut(ioc) ==
  LET f == Frame(MaxFrames + drv.posted + 1)
      k == drv.pieces + 1
      last == k = Len(f)
      next == (drv.put + 1) % TxLen
  IN  /\ s.cur_tx # NoRing
      /\ arrived + drv.posted < MaxFrames
      /\ ~s.tx[drv.put].own /\ ~s.tx[next].own
      /\ s' = [s EXCEPT !.tx[drv.put] =
                 [own |-> TRUE, fd |-> k = 1, ld |-> last, data |-> f[k], ioc |-> last /\ ioc]]
      /\ drv' = [drv EXCEPT !.put = next,
                            !.mark = IF last THEN next ELSE @,
                            !.posted = IF last THEN @ + 1 ELSE @,
                            !.pieces = IF last THEN 0 ELSE k]
      /\ UNCHANGED <<netq, arrived>>

\* The doorbell, for the frames that are complete.
WriteTxTail ==
  /\ s.cur_tx # NoRing
  /\ s' = mcxn_enet_tx_process([s EXCEPT !.tail = drv.mark])
  /\ UNCHANGED <<netq, arrived, drv>>

EnetNext ==
  \/ qemu_net_queue_send
  \/ \E v \in MacIn : WriteMacConfiguration(v)
  \/ \E v \in BOOLEAN : WriteRxCtrl(v) \/ WriteTxCtrl(v)
  \/ WriteRxTail
  \/ WriteStatus
  \/ \E v \in IntIn : WriteIntEn(v)
  \/ mcxn_enet_reset
  \/ VmStop
  \/ SetupRx
  \/ SetupTx
  \/ RxTake
  \/ \E ioc \in BOOLEAN : TxPut(ioc)
  \/ WriteTxTail

EnetSpec == EnetInit /\ [][EnetNext]_enet

-----------------------------------------------------------------------------
Id(frame) == frame[1][1]
FromWire(frame) == Id(frame) <= MaxFrames

\* Every frame the driver receives, and every frame that leaves for the network, is
\* one frame, whole, in the order it was sent and not twice, although a frame spans
\* descriptors, the ring runs dry in the middle of one, and doorbells, resets and
\* ring set-ups fall between its descriptors (mcxn_enet_deliver, mcxn_enet_tx_process).
FramesWhole ==
  \A frames \in {drv.got, s.out} : \A i \in 1 .. Len(frames) :
    /\ frames[i] = Frame(Id(frames[i]))
    /\ \A j \in 1 .. i - 1 :
         FromWire(frames[j]) = FromWire(frames[i]) => Id(frames[j]) < Id(frames[i])

InRing(f) == \E i \in RxSlot : s.rx[i].ld /\ s.rx[i].data = Frame(f)[Len(Frame(f))]
Waiting(f) == \E i \in 1 .. Len(netq) : netq[i] = Frame(f)
Held(f) == Waiting(f) /\ ~mcxn_enet_can_receive(s)
OutOfBuffers == s.cur_rx = NoRing \/ ("RBU" \in s.status /\ ~s.rx[s.cur_rx].own)

FrameKept(f) ==
  /\ (f = arrived' /\ arrived' # arrived) => (Held(f) \/ InRing(f) \/ OutOfBuffers)'
  /\ Waiting(f) => (\/ Held(f) \/ InRing(f) \/ OutOfBuffers
                    \/ netq = << >> /\ ~mcxn_enet_can_receive(s))'

\* A frame from the network that waited, or arrives, is in the ring after the step or
\* held back from a receiver that is off ("Enabling the receiver unblocks any queued
\* inbound frame", mcxn_enet.c:508), unless the device is out of buffers or the queue
\* was emptied into a receiver that is off.
OnlyEarlyFlushDrops == [][\A f \in 1 .. MaxFrames : FrameKept(f)]_enet

\* A held frame is delivered when buffers are published: "unblock the net queue so
\* any frame held while can_receive was false is delivered" (mcxn_enet.c:484).
HeldIsDelivered ==
  [][\A f \in 1 .. MaxFrames :
       Waiting(f) => (Waiting(f) \/ InRing(f) \/ OutOfBuffers)']_enet

\* Posted and rung for, owned by the device, its engine on, and no walk to come.
Stalled(t) == TxReady(t) /\ t.cur_tx # t.tail /\ t.tx[t.cur_tx].own

StallsLate == Stalled(s)' => Stalled(s) \/ ~TxReady(s)

\* The doorbell leaves nothing behind: a frame is stuck in the ring only when the
\* transmitter was off as the doorbell rang, for no enabling write looks at the ring
\* (mcxn_enet_tx_process is called by the TXDESC_TAIL write alone).
OnlyLateStartStalls == [][StallsLate]_enet
=============================================================================

-------------------------- MODULE EnetFrameProofs --------------------------
(***************************************************************************)
(* Proofs about the frames of the ENET and its driver, for rings of any    *)
(* length: they stay whole and in order (FrameStep, WholeFromInv), and     *)
(* none from the network is lost but by an early flush (KeptStep).         *)
(***************************************************************************)
EXTENDS EnetProofs

-----------------------------------------------------------------------------
\* The receive ring is a ring of descriptors, and the device is at one of them.
RxRing(t) ==
  /\ DOMAIN t = Fields /\ DOMAIN t.rx = RxSlot /\ t.cur_rx \in RxSlot \cup {NoRing}
  /\ \A i \in RxSlot : t.rx[i].own \in BOOLEAN

\* The slot k places ahead of slot c of the receive ring, and the way back.
RxAhead(c, k) == (c + k) % RxLen
RxFrom(c, i) == (i + RxLen - c) % RxLen

\* What counting on the receive ring is.
LEMMA RxAheadIs ==
  ASSUME Sizes, NEW c \in RxSlot
  PROVE  /\ \A k \in 0 .. RxLen :
              RxAhead(c, k) = IF c + k < RxLen THEN c + k ELSE c + k - RxLen
         /\ \A i \in RxSlot : RxFrom(c, i) = IF i >= c THEN i - c ELSE i - c + RxLen
<1>0. RxLen \in Nat \ {0} /\ RxSlot = 0 .. RxLen - 1
  BY DEF Sizes, RxSlot
<1>1. \A x \in 0 .. RxLen - 1 : x % RxLen = x /\ (x + RxLen) % RxLen = x
  BY <1>0
<1>2. ASSUME NEW k \in 0 .. RxLen
      PROVE  RxAhead(c, k) = IF c + k < RxLen THEN c + k ELSE c + k - RxLen
  <2>1. CASE c + k < RxLen
    <3>1. c + k \in 0 .. RxLen - 1
      BY <1>0, <2>1
    <3> QED BY <1>1, <2>1, <3>1 DEF RxAhead
  <2>2. CASE ~(c + k < RxLen)
    <3>1. c + k - RxLen \in 0 .. RxLen - 1 /\ c + k = (c + k - RxLen) + RxLen
      BY <1>0, <2>2
    <3> QED BY <1>1, <2>2, <3>1 DEF RxAhead
  <2> QED BY <2>1, <2>2
<1>3. ASSUME NEW i \in RxSlot
      PROVE  RxFrom(c, i) = IF i >= c THEN i - c ELSE i - c + RxLen
  <2>1. CASE i >= c
    <3>1. i - c \in 0 .. RxLen - 1 /\ i + RxLen - c = (i - c) + RxLen
      BY <1>0, <2>1
    <3> QED BY <1>1, <2>1, <3>1 DEF RxFrom
  <2>2. CASE ~(i >= c)
    <3>1. i + RxLen - c \in 0 .. RxLen - 1 /\ i + RxLen - c = i - c + RxLen
      BY <1>0, <2>2
    <3> QED BY <1>1, <2>2, <3>1 DEF RxFrom
  <2> QED BY <2>1, <2>2
<1> QED BY <1>2, <1>3

\* Counting on and back are inverse, and reach every slot.
LEMMA RxAheadFacts ==
  ASSUME Sizes, NEW c \in RxSlot
  PROVE  /\ \A k \in 0 .. RxLen : RxAhead(c, k) \in RxSlot
         /\ \A i \in RxSlot : RxFrom(c, i) \in 0 .. RxLen - 1 /\ RxAhead(c, RxFrom(c, i)) = i
         /\ \A k \in 0 .. RxLen - 1 : RxFrom(c, RxAhead(c, k)) = k
         /\ RxAhead(c, 0) = c /\ RxAhead(c, RxLen) = c
<1>0. RxLen \in Nat \ {0} /\ RxSlot = 0 .. RxLen - 1
  BY DEF Sizes, RxSlot
<1>1. /\ \A k \in 0 .. RxLen :
           RxAhead(c, k) = IF c + k < RxLen THEN c + k ELSE c + k - RxLen
      /\ \A i \in RxSlot : RxFrom(c, i) = IF i >= c THEN i - c ELSE i - c + RxLen
  BY RxAheadIs
<1>2. \A k \in 0 .. RxLen : RxAhead(c, k) \in RxSlot
  BY <1>0, <1>1
<1>3. ASSUME NEW i \in RxSlot
      PROVE  RxFrom(c, i) \in 0 .. RxLen - 1 /\ RxAhead(c, RxFrom(c, i)) = i
  <2>1. RxFrom(c, i) \in 0 .. RxLen - 1 /\ RxFrom(c, i) \in 0 .. RxLen
    BY <1>0, <1>1
  <2> QED BY <1>0, <1>1, <2>1
<1>4. ASSUME NEW k \in 0 .. RxLen - 1 PROVE RxFrom(c, RxAhead(c, k)) = k
  <2>1. RxAhead(c, k) \in RxSlot /\ k \in 0 .. RxLen
    BY SMTT(30), Z3T(30), <1>0, <1>2
  <2> QED BY <1>0, <1>1, <2>1
<1>5. RxAhead(c, 0) = c /\ RxAhead(c, RxLen) = c
  <2>1. 0 \in 0 .. RxLen /\ RxLen \in 0 .. RxLen
    BY <1>0
  <2> QED BY <1>0, <1>1, <2>1
<1> QED BY <1>2, <1>3, <1>4, <1>5

\* Counting from a slot further on.
LEMMA RxAheadTwice ==
  ASSUME Sizes, NEW c \in RxSlot, NEW j \in 0 .. RxLen, NEW k \in 0 .. RxLen, j + k <= RxLen
  PROVE  RxAhead(RxAhead(c, j), k) = RxAhead(c, j + k)
<1> DEFINE d == RxAhead(c, j)
<1>0. RxLen \in Nat \ {0} /\ RxSlot = 0 .. RxLen - 1 /\ j + k \in 0 .. RxLen
  BY DEF Sizes, RxSlot
<1>1. d = (IF c + j < RxLen THEN c + j ELSE c + j - RxLen)
      /\ RxAhead(c, j + k) = (IF c + (j + k) < RxLen THEN c + (j + k) ELSE c + (j + k) - RxLen)
  BY <1>0, RxAheadIs
<1>2. d \in RxSlot
  BY <1>0, <1>1
<1> HIDE DEF d
<1>3. RxAhead(d, k) = IF d + k < RxLen THEN d + k ELSE d + k - RxLen
  BY <1>2, RxAheadIs
<1>4. RxAhead(d, k) = RxAhead(c, j + k)
  BY <1>0, <1>1, <1>3
<1> QED BY <1>4 DEF d

\* A frame has one piece or two.
LEMMA FrameIs ==
  ASSUME NEW f \in Nat
  PROVE  /\ f % 2 \in 0 .. 1 /\ Len(Frame(f)) = 1 + (f % 2) /\ Frame(f) \in Seq(Nat \X Nat)
         /\ \A k \in 1 .. Len(Frame(f)) : Frame(f)[k] = <<f, k>>
         /\ Id(Frame(f)) = f
         /\ SubSeq(Frame(f), 1, Len(Frame(f))) = Frame(f)
         /\ f % 2 = 0 => Frame(f) = <<<<f, 1>>>>
         /\ f % 2 = 1 => Frame(f) = <<<<f, 1>>, <<f, 2>>>>
<1>1. f % 2 \in 0 .. 1
  OBVIOUS
<1> DEFINE L == 1 + (f % 2)
<1>2. L \in Nat /\ L \in 1 .. 2
  BY <1>1
<1>3. Frame(f) = [k \in 1 .. L |-> <<f, k>>]
  BY DEF Frame
<1> HIDE DEF L
<1>4. Frame(f) \in Seq(Nat \X Nat) /\ Len(Frame(f)) = L
  BY <1>2, <1>3
<1>5. \A k \in 1 .. L : Frame(f)[k] = <<f, k>>
  BY <1>3
<1>6. SubSeq(Frame(f), 1, L) = Frame(f)
  BY <1>2, <1>4
<1>7. Id(Frame(f)) = f
  <2>1. 1 \in 1 .. L
    BY <1>2
  <2> QED BY <1>5, <2>1 DEF Id
<1>8. ASSUME L = 1 PROVE Frame(f) = <<<<f, 1>>>>
  <2>1. [k \in 1 .. 1 |-> <<f, k>>] = <<<<f, 1>>>>
    OBVIOUS
  <2> QED BY <1>3, <1>8, <2>1
<1>9. L = 2 => Frame(f) = <<<<f, 1>>, <<f, 2>>>>
  BY <1>4, <1>5
<1> QED BY <1>1, <1>4, <1>5, <1>6, <1>7, <1>8, <1>9 DEF L

\* The descriptors the device counts from where it is: all it owns up to n, or as many
\* as come before the first it does not own.
LEMMA OwnedIs ==
  ASSUME Sizes, NEW t, RxRing(t), t.cur_rx # NoRing, NEW n \in 1 .. 2
  PROVE  /\ Owned(t, n) \in 0 .. n /\ Owned(t, n) <= RxLen
         /\ \A k \in 0 .. Owned(t, n) - 1 : t.rx[RxAhead(t.cur_rx, k)].own
         /\ Owned(t, n) \in {n, RxLen} \/ ~t.rx[RxAhead(t.cur_rx, Owned(t, n))].own
<1> DEFINE Mine(k) == t.rx[RxAhead(t.cur_rx, k)].own
           Count(m) == /\ m <= RxLen
                       /\ \A k \in 0 .. m - 1 : Mine(k)
                       /\ m \in {n, RxLen} \/ ~Mine(m)
<1>0. RxLen \in Nat \ {0}
  BY DEF Sizes
<1>1. Owned(t, n) = CHOOSE m \in 0 .. n : Count(m)
  BY DEF Owned, RxAhead
<1>2. \E m \in 0 .. n : Count(m)
  <2> HIDE DEF Mine
  <2>1. CASE ~Mine(0)
    <3>1. 0 \in 0 .. n /\ Count(0)
      BY <1>0, <2>1
    <3> QED BY Zenon, <3>1
  <2>2. CASE Mine(0) /\ (n = 1 \/ RxLen = 1 \/ ~Mine(1))
    <3>1. 1 \in 0 .. n /\ Count(1)
      BY <1>0, <2>2
    <3> QED BY Zenon, <3>1
  <2>3. CASE Mine(0) /\ Mine(1) /\ n = 2 /\ RxLen # 1
    <3>1. 2 \in 0 .. n /\ Count(2)
      BY <1>0, <2>3
    <3> QED BY Zenon, <3>1
  <2> QED BY <2>1, <2>2, <2>3
<1> HIDE DEF Count
<1>3. Owned(t, n) \in 0 .. n /\ Count(Owned(t, n))
  BY Zenon, <1>1, <1>2
<1> QED BY <1>3 DEF Count

\* The descriptor with piece k of frame f.
Piece(f, k) == [own |-> FALSE, fd |-> k = 1, ld |-> k = 1 + (f % 2), data |-> <<f, k>>]

\* From t the device stored m pieces of frame f, in descriptors it owned, and is out of
\* buffers when that is not the whole frame.
Stored(t, z, f, m) ==
  /\ DOMAIN z = Fields /\ z.mac = t.mac /\ z.sr = t.sr /\ z.out = t.out
  /\ m \in 0 .. 1 + (f % 2) /\ m <= RxLen
  /\ \A k \in 0 .. m - 1 : t.rx[RxAhead(t.cur_rx, k)].own
  /\ z.cur_rx = RxAhead(t.cur_rx, m) /\ z.cur_rx \in RxSlot
  /\ DOMAIN z.rx = RxSlot
  /\ \A i \in RxSlot : z.rx[i] = IF RxFrom(t.cur_rx, i) < m THEN Piece(f, RxFrom(t.cur_rx, i) + 1)
                                 ELSE t.rx[i]
  /\ t.status \subseteq z.status
  /\ m < 1 + (f % 2) => "RBU" \in z.status /\ ~z.rx[z.cur_rx].own

\* What a delivery does, when frames fit the device's frame buffer.
LEMMA DeliverStores ==
  ASSUME Sizes, FrameMax \in Nat, FrameMax >= 2, NEW t, RxRing(t), NEW f \in Nat
  PROVE  \/ /\ mcxn_enet_deliver(t, Frame(f)) = t
            /\ ~mcxn_enet_can_receive(t) \/ t.cur_rx = NoRing
         \/ /\ mcxn_enet_can_receive(t) /\ t.cur_rx \in RxSlot
            /\ \E m \in 0 .. 1 + (f % 2) : Stored(t, mcxn_enet_deliver(t, Frame(f)), f, m)
<1> DEFINE z == mcxn_enet_deliver(t, Frame(f))
           n == 1 + (f % 2)
           m == Owned(t, n)
           c == t.cur_rx
           u == Written(t, Frame(f), m)
           v == Status(u, m = n)
<1>0. RxLen \in Nat \ {0} /\ RxSlot = 0 .. RxLen - 1 /\ TxLen \in Nat \ {0, 1}
  BY DEF Sizes, RxSlot
<1>1. /\ Len(Frame(f)) = n /\ n \in 1 .. 2 /\ SubSeq(Frame(f), 1, n) = Frame(f)
      /\ \A k \in 1 .. n : Frame(f)[k] = <<f, k>>
  <2>1. f % 2 \in 0 .. 1 /\ Len(Frame(f)) = n
    BY Zenon, FrameIs
  <2>2. n \in 1 .. 2
    BY <2>1
  <2>3. /\ SubSeq(Frame(f), 1, Len(Frame(f))) = Frame(f)
        /\ \A k \in 1 .. Len(Frame(f)) : Frame(f)[k] = <<f, k>>
    BY Zenon, FrameIs
  <2> HIDE DEF n
  <2> QED BY Zenon, <2>1, <2>2, <2>3
<1>2. CASE ~mcxn_enet_can_receive(t) \/ c = NoRing
  BY <1>2 DEF mcxn_enet_deliver
<1>3. CASE mcxn_enet_can_receive(t) /\ c # NoRing
  <2>0. c \in RxSlot /\ DOMAIN t = Fields /\ DOMAIN t.rx = RxSlot
    BY <1>3 DEF RxRing
  <2>1. z = mcxn_enet_update_irq(v)
    <3>1. ~(n > FrameMax)
      BY <1>1
    <3> HIDE DEF n
    <3>2. SubSeq(Frame(f), 1, IF Len(Frame(f)) > FrameMax THEN FrameMax ELSE Len(Frame(f)))
            = Frame(f)
      BY <1>1, <3>1
    <3> QED BY Zenon, <1>1, <1>3, <3>2 DEF mcxn_enet_deliver
  <2>2. /\ m \in 0 .. n /\ m <= RxLen
        /\ \A k \in 0 .. m - 1 : t.rx[RxAhead(c, k)].own
        /\ m \in {n, RxLen} \/ ~t.rx[RxAhead(c, m)].own
    BY <1>1, <1>3, OwnedIs
  <2> HIDE DEF n, m
  <2>3. /\ DOMAIN u = Fields /\ u.mac = t.mac /\ u.sr = t.sr /\ u.out = t.out
        /\ u.status = t.status /\ u.cur_rx = RxAhead(c, m)
        /\ u.rx = [i \in RxSlot |-> IF RxFrom(c, i) + 1 <= m
                     THEN [own |-> FALSE, fd |-> RxFrom(c, i) + 1 = 1,
                           ld |-> RxFrom(c, i) + 1 = Len(Frame(f)),
                           data |-> Frame(f)[RxFrom(c, i) + 1]]
                     ELSE t.rx[i]]
    BY <2>0 DEF Written, Fields, RxAhead, RxFrom
  <2> HIDE DEF u
  <2>4. /\ DOMAIN v = Fields /\ v.mac = t.mac /\ v.sr = t.sr /\ v.out = t.out
        /\ v.rx = u.rx /\ v.cur_rx = RxAhead(c, m)
        /\ v.status = t.status \cup {IF m = n THEN "RI" ELSE "RBU"}
    BY <2>3 DEF Status, Fields
  <2> HIDE DEF v
  <2>5. /\ DOMAIN z = Fields /\ z.mac = t.mac /\ z.sr = t.sr /\ z.out = t.out
        /\ z.rx = u.rx /\ z.cur_rx = RxAhead(c, m)
        /\ z.status = t.status \cup {IF m = n THEN "RI" ELSE "RBU"}
    BY <2>1, <2>4 DEF mcxn_enet_update_irq, Fields
  <2> HIDE DEF z
  <2>ring. /\ \A k \in 0 .. RxLen : RxAhead(c, k) \in RxSlot
           /\ \A i \in RxSlot : RxFrom(c, i) \in 0 .. RxLen - 1
           /\ \A k \in 0 .. RxLen - 1 : RxFrom(c, RxAhead(c, k)) = k
           /\ RxAhead(c, 0) = c /\ RxAhead(c, RxLen) = c
    BY <2>0, RxAheadFacts
  <2>6. ASSUME NEW i \in RxSlot
        PROVE  z.rx[i] = IF RxFrom(c, i) < m THEN Piece(f, RxFrom(c, i) + 1) ELSE t.rx[i]
    <3>1. RxFrom(c, i) \in Nat /\ (RxFrom(c, i) + 1 <= m <=> RxFrom(c, i) < m)
          /\ (RxFrom(c, i) < m => RxFrom(c, i) + 1 \in 1 .. n)
      BY <1>1, <2>2, <2>ring
    <3>2. z.rx[i] = IF RxFrom(c, i) < m
                    THEN [own |-> FALSE, fd |-> RxFrom(c, i) + 1 = 1,
                          ld |-> RxFrom(c, i) + 1 = Len(Frame(f)),
                          data |-> Frame(f)[RxFrom(c, i) + 1]]
                    ELSE t.rx[i]
      BY ZenonT(40), <2>3, <2>5, <3>1
    <3>3. CASE RxFrom(c, i) < m
      <4>1. Frame(f)[RxFrom(c, i) + 1] = <<f, RxFrom(c, i) + 1>> /\ Len(Frame(f)) = n
        BY Zenon, <1>1, <3>1, <3>3
      <4> QED BY Zenon, <3>2, <3>3, <4>1 DEF Piece, n
    <3> QED BY <3>2, <3>3
  <2>7. m \in 0 .. RxLen /\ RxAhead(c, m) \in RxSlot
    BY <1>0, <1>1, <2>2, <2>ring
  <2>8. ASSUME m < n PROVE "RBU" \in z.status /\ ~z.rx[z.cur_rx].own
    <3>1. m # n
      BY <1>1, <2>2, <2>8
    <3>2. CASE m = RxLen
      <4>1. 0 < m /\ RxFrom(c, c) = 0 /\ z.cur_rx = c
        BY <1>0, <2>5, <2>ring, <3>2
      <4>2. z.rx[c] = Piece(f, RxFrom(c, c) + 1)
        BY <2>0, <2>6, <4>1
      <4> QED BY <2>5, <3>1, <4>1, <4>2 DEF Piece
    <3>3. CASE m # RxLen
      <4>1. m \in 0 .. RxLen - 1 /\ ~(m < m)
        BY <1>0, <1>1, <2>2, <3>3
      <4>2. RxFrom(c, RxAhead(c, m)) = m
        BY <2>ring, <4>1
      <4>3. z.rx[RxAhead(c, m)] = t.rx[RxAhead(c, m)]
        BY Zenon, <2>6, <2>7, <4>1, <4>2
      <4> QED BY <2>2, <2>5, <3>1, <3>3, <4>3
    <3> QED BY <3>2, <3>3
  <2>9. DOMAIN z.rx = RxSlot
    BY <2>3, <2>5
  <2>10. Stored(t, z, f, m)
    BY <2>2, <2>5, <2>6, <2>7, <2>8, <2>9 DEF Stored, c, n
  <2> QED BY <1>3, <2>0, <2>2, <2>10 DEF z, n, c
<1> QED BY <1>2, <1>3

-----------------------------------------------------------------------------
\* The frame a descriptor belongs to and the piece of it that it holds.
Num(d) == d.data[1]
Place(d) == d.data[2]

Sound(d) ==
  /\ d.data = <<Num(d), Place(d)>> /\ Num(d) \in Nat \ {0}
  /\ Place(d) \in 1 .. 1 + (Num(d) % 2)
  /\ d.fd = (Place(d) = 1) /\ d.ld = (Place(d) = 1 + (Num(d) % 2))

\* Two frames from the network, or two of the driver's.
Alike(f, g) == (f <= MaxFrames) = (g <= MaxFrames)

\* The frames from the network up to w and the driver's up to h, and the ones after.
UpTo(f, w, h) == f \in Nat \ {0} /\ IF f <= MaxFrames THEN f <= w ELSE f <= h
Past(f, w, h) == f \in Nat \ {0} /\ IF f <= MaxFrames THEN f > w ELSE f > h

\* Frame f comes after these.
IsAfter(frames, f) ==
  \A i \in 1 .. Len(frames) : Alike(Id(frames[i]), f) => Id(frames[i]) < f

\* Whole frames in the order they were sent.
InSequence(frames, w, h) ==
  \A i \in 1 .. Len(frames) :
    /\ frames[i] = Frame(Id(frames[i])) /\ UpTo(Id(frames[i]), w, h)
    /\ \A j \in 1 .. i - 1 :
         Alike(Id(frames[j]), Id(frames[i])) => Id(frames[j]) < Id(frames[i])

\* The receive ring as a queue q, from the driver's slot on: r descriptors are filled.
\* The second piece of a frame follows its first, which the driver has when the second
\* is the next it takes, and the frames are in order, after those it got.
Follows(q, k, part) ==
  Place(q[k]) = 2 => IF k = 0 THEN part = <<<<Num(q[0]), 1>>>>
                     ELSE q[k - 1].data = <<Num(q[k]), 1>>

Ordered(q, k, got, w, h) ==
  q[k].ld => /\ UpTo(Num(q[k]), w, h)
             /\ IsAfter(got, Num(q[k]))
             /\ \A j \in 0 .. k - 1 :
                  q[j].ld /\ Alike(Num(q[j]), Num(q[k])) => Num(q[j]) < Num(q[k])

Spare(q, r) == \A k \in 0 .. RxLen - 1 : q[k].own <=> k >= r

Queued(q, r, part, got, w, h) ==
  /\ Spare(q, r)
  /\ \A k \in 0 .. r - 1 :
       Sound(q[k]) /\ Follows(q, k, part) /\ Ordered(q, k, got, w, h)

RxQueue(t, p) == [k \in 0 .. RxLen - 1 |-> t.rx[RxAhead(p, k)]]

RxHolds(t, d, r, w, h) ==
  /\ d.take \in RxSlot /\ t.cur_rx = RxAhead(d.take, r)
  /\ Queued(RxQueue(t, d.take), r, d.part, d.got, w, h)

\* What was sent, what was received and what is in the ring.
RxGood(t, d, w, h) ==
  /\ RxRing(t) /\ t.out \in Seq({Frame(f) : f \in Nat})
  /\ d.got \in Seq({Frame(f) : f \in Nat})
  /\ InSequence(t.out, 0, h) /\ InSequence(d.got, w, h)
  /\ t.cur_rx # NoRing => \E r \in 0 .. RxLen : RxHolds(t, d, r, w, h)

\* The descriptor k places ahead of the device in the transmit ring.
TxDesc(t, k) == t.tx[Ahead(t.cur_tx, k)]

\* What the driver has posted: whole frames past h, in order, and at the end the first
\* piece of the frame it is writing.
PostedWell(t, d, h, k) ==
  /\ Sound(TxDesc(t, k)) /\ h < Num(TxDesc(t, k))
  /\ Num(TxDesc(t, k)) <= MaxFrames + d.posted + (IF TxDesc(t, k).ld THEN 0 ELSE 1)
  /\ Place(TxDesc(t, k)) = 2 => /\ k > 0 /\ Ahead(t.cur_tx, k) # d.mark
                                /\ TxDesc(t, k - 1).data = <<Num(TxDesc(t, k)), 1>>
  /\ \A j \in 0 .. k - 1 : TxDesc(t, j).ld => Num(TxDesc(t, j)) < Num(TxDesc(t, k))

TxGood(t, d, h) ==
  t.cur_tx # NoRing =>
    /\ \A k \in 0 .. TxLen - 1 : TxDesc(t, k).own => PostedWell(t, d, h, k)
    /\ d.pieces \in 0 .. 1
    /\ d.pieces = 1 =>
         /\ (MaxFrames + d.posted + 1) % 2 = 1 /\ d.put # d.mark
         /\ \A k \in 0 .. TxLen - 2 : Ahead(t.cur_tx, k + 1) = d.put =>
              TxDesc(t, k).own /\ TxDesc(t, k).data = <<MaxFrames + d.posted + 1, 1>>

\* The frames held back are the last that arrived.
Behind == arrived - Len(netq)

NetGood ==
  /\ Behind \in Nat /\ arrived <= MaxFrames
  /\ \A i \in 1 .. Len(netq) : netq[i] = Frame(Behind + i)
  /\ mcxn_enet_can_receive(s) => netq = << >>

FrameInv ==
  /\ NetGood /\ drv.posted \in Nat
  /\ \E h \in MaxFrames .. MaxFrames + drv.posted :
       RxGood(s, drv, Behind, h) /\ TxGood(s, drv, h)

\* Later bounds hold for what earlier ones hold.
LEMMA LaterBounds ==
  ASSUME NEW w \in Nat, NEW h \in Nat, NEW v \in Nat, NEW g \in Nat, w <= v, h <= g,
         NEW frames, InSequence(frames, w, h)
  PROVE  InSequence(frames, v, g)
<1>1. \A f : UpTo(f, w, h) => UpTo(f, v, g)
  BY DEF UpTo
<1> QED BY <1>1 DEF InSequence

\* A frame past the bounds comes after the frames up to them.
LEMMA PastIsAfter ==
  ASSUME NEW w \in Nat, NEW h \in Nat, NEW f, Past(f, w, h), MaxFrames \in Nat,
         NEW frames, InSequence(frames, w, h)
  PROVE  IsAfter(frames, f)
<1> SUFFICES ASSUME NEW i \in 1 .. Len(frames), Alike(Id(frames[i]), f)
             PROVE  Id(frames[i]) < f
  BY DEF IsAfter
<1>1. UpTo(Id(frames[i]), w, h)
  BY DEF InSequence
<1> QED BY <1>1 DEF UpTo, Past, Alike

\* A frame that comes after others is added to them.
LEMMA SequenceGrows ==
  ASSUME NEW w \in Nat, NEW h \in Nat, NEW f, UpTo(f, w, h), MaxFrames \in Nat,
         NEW frames \in Seq({Frame(x) : x \in Nat}), InSequence(frames, w, h),
         IsAfter(frames, f)
  PROVE  /\ InSequence(Append(frames, Frame(f)), w, h)
         /\ Append(frames, Frame(f)) \in Seq({Frame(x) : x \in Nat})
<1> DEFINE a == Append(frames, Frame(f))
           n == Len(frames)
           F == {Frame(x) : x \in Nat}
<1>0. f \in Nat /\ Id(Frame(f)) = f /\ n \in Nat /\ Frame(f) \in F
  BY FrameIs DEF UpTo
<1> HIDE DEF F
<1>1. /\ Len(a) = n + 1 /\ a[n + 1] = Frame(f) /\ a \in Seq(F)
      /\ \A i \in 1 .. n : a[i] = frames[i]
  BY <1>0 DEF F
<1> HIDE DEF a, n
<1>3. ASSUME NEW i \in 1 .. Len(a)
      PROVE  /\ a[i] = Frame(Id(a[i])) /\ UpTo(Id(a[i]), w, h)
             /\ \A j \in 1 .. i - 1 : Alike(Id(a[j]), Id(a[i])) => Id(a[j]) < Id(a[i])
  <2>1. CASE i \in 1 .. n
    <3>1. \A j \in 1 .. i - 1 : j \in 1 .. n
      BY <1>0, <2>1
    <3>2. /\ frames[i] = Frame(Id(frames[i])) /\ UpTo(Id(frames[i]), w, h)
          /\ \A j \in 1 .. i - 1 :
               Alike(Id(frames[j]), Id(frames[i])) => Id(frames[j]) < Id(frames[i])
      BY Zenon, <2>1 DEF InSequence, n
    <3>3. a[i] = frames[i] /\ \A j \in 1 .. i - 1 : a[j] = frames[j]
      BY Zenon, <1>1, <2>1, <3>1
    <3> QED BY Zenon, <3>2, <3>3
  <2>2. CASE i = n + 1
    <3>1. a[i] = Frame(f) /\ Id(a[i]) = f
      BY <1>0, <1>1, <2>2
    <3>2. \A j \in 1 .. i - 1 : j \in 1 .. n
      BY <1>0, <2>2
    <3>3. \A j \in 1 .. n : Alike(Id(a[j]), f) => Id(a[j]) < f
      BY Zenon, <1>1 DEF IsAfter, n
    <3> QED BY Zenon, <3>1, <3>2, <3>3
  <2> QED BY <1>0, <1>1, <2>1, <2>2
<1> QED BY Zenon, <1>1, <1>3 DEF InSequence, a, F

\* The first m pieces of frame f come after the r descriptors that are filled.
Added(q, z, f, r, m) ==
  \A k \in 0 .. RxLen - 1 :
    z[k] = IF r <= k /\ k < r + m THEN Piece(f, k - r + 1) ELSE q[k]

\* The device adds m pieces of a new frame to the queue.
LEMMA QueueGrows ==
  ASSUME Sizes, MaxFrames \in Nat, NEW q, NEW r \in 0 .. RxLen, NEW part, NEW got,
         NEW w \in Nat, NEW h \in Nat, NEW v \in Nat, NEW g \in Nat, w <= v, h <= g,
         Queued(q, r, part, got, w, h), InSequence(got, w, h),
         NEW f, Past(f, w, h), UpTo(f, v, g),
         NEW m \in 0 .. 1 + (f % 2), r + m <= RxLen, NEW z, Added(q, z, f, r, m)
  PROVE  Queued(z, r + m, part, got, v, g)
<1>0. /\ RxLen \in Nat \ {0} /\ f \in Nat \ {0} /\ f % 2 \in 0 .. 1
      /\ r \in Nat /\ m \in Nat /\ m <= 2
  <2>1. f \in Nat \ {0} /\ RxLen \in Nat \ {0}
    BY DEF Past, Sizes
  <2>2. f % 2 \in 0 .. 1
    BY <2>1
  <2> QED BY <2>1, <2>2
<1>new. ASSUME NEW k \in 0 .. RxLen - 1, r <= k, k < r + m
        PROVE  /\ z[k] = Piece(f, k - r + 1) /\ k - r + 1 \in 1 .. 1 + (f % 2)
               /\ ~z[k].own /\ z[k].data = <<f, k - r + 1>> /\ Num(z[k]) = f
               /\ Place(z[k]) = k - r + 1 /\ Sound(z[k])
  <2>1. z[k] = Piece(f, k - r + 1) /\ k - r + 1 \in 1 .. 1 + (f % 2)
    BY <1>0, <1>new DEF Added
  <2>2. /\ z[k].own = FALSE /\ z[k].data = <<f, k - r + 1>>
        /\ z[k].fd = (k - r + 1 = 1) /\ z[k].ld = (k - r + 1 = 1 + (f % 2))
    <3> DEFINE x == k - r + 1
               d == z[k]
    <3>1. d = Piece(f, x)
      BY <2>1
    <3> HIDE DEF x, d
    <3>2. d.own = FALSE /\ d.data = <<f, x>>
      BY <3>1 DEF Piece
    <3>3. d.fd = (x = 1) /\ d.ld = (x = 1 + (f % 2))
      BY <3>1 DEF Piece
    <3> QED BY <3>2, <3>3 DEF x, d
  <2>3. Num(z[k]) = f /\ Place(z[k]) = k - r + 1
    BY <2>2 DEF Num, Place
  <2>4. Sound(z[k])
    BY <1>0, <2>1, <2>2, <2>3 DEF Sound
  <2> QED BY <2>1, <2>2, <2>3, <2>4
<1>old. \A k \in 0 .. r - 1 : k \in 0 .. RxLen - 1 /\ z[k] = q[k]
  BY <1>0 DEF Added
<1>1. ASSUME NEW k \in 0 .. RxLen - 1 PROVE z[k].own <=> k >= r + m
  <2>1. CASE r <= k /\ k < r + m
    BY <1>0, <1>new, <2>1
  <2>2. CASE ~(r <= k /\ k < r + m)
    <3>1. z[k] = q[k] /\ (k >= r <=> k >= r + m)
      BY <1>0, <2>2 DEF Added
    <3>2. q[k].own <=> k >= r
      BY DEF Queued, Spare
    <3> QED BY Zenon, <3>1, <3>2
  <2> QED BY <2>1, <2>2
<1>2. ASSUME NEW k \in 0 .. r - 1
      PROVE  Sound(z[k]) /\ Follows(z, k, part) /\ Ordered(z, k, got, v, g)
  <2>1. Sound(q[k]) /\ Follows(q, k, part) /\ Ordered(q, k, got, w, h)
    BY DEF Queued
  <2>2. /\ z[k] = q[k] /\ \A j \in 0 .. k - 1 : z[j] = q[j]
        /\ k # 0 => z[k - 1] = q[k - 1]
    BY <1>0, <1>old
  <2>3. UpTo(Num(q[k]), w, h) => UpTo(Num(q[k]), v, g)
    BY DEF UpTo
  <2>4. Follows(z, k, part)
    BY Zenon, <2>1, <2>2 DEF Follows
  <2>5. Ordered(z, k, got, v, g)
    BY Zenon, <2>1, <2>2, <2>3 DEF Ordered
  <2> QED BY <2>1, <2>2, <2>4, <2>5
<1>3. ASSUME NEW k \in 0 .. r + m - 1, r <= k
      PROVE  Sound(z[k]) /\ Follows(z, k, part) /\ Ordered(z, k, got, v, g)
  <2>0. k \in 0 .. RxLen - 1 /\ k < r + m
    BY <1>0, <1>3
  <2>1. /\ Num(z[k]) = f /\ Place(z[k]) = k - r + 1 /\ Sound(z[k])
    BY <1>3, <1>new, <2>0
  <2>2. Follows(z, k, part)
    <3> SUFFICES ASSUME k - r + 1 = 2 PROVE k # 0 /\ z[k - 1].data = <<f, 1>>
      BY Zenon, <2>1 DEF Follows
    <3>1. k # 0 /\ k - 1 \in 0 .. RxLen - 1 /\ r <= k - 1 /\ k - 1 < r + m /\ (k - 1) - r + 1 = 1
      BY <1>0, <2>0
    <3>2. z[k - 1].data = <<f, (k - 1) - r + 1>>
      BY Zenon, <1>new, <3>1
    <3> QED BY Zenon, <3>1, <3>2
  <2>3. ASSUME z[k].ld PROVE k - r + 1 = 1 + (f % 2)
    BY ZenonT(40), <2>1, <2>3 DEF Sound
  <2>4. Ordered(z, k, got, v, g)
    <3>1. IsAfter(got, f)
      BY PastIsAfter
    <3>2. ASSUME z[k].ld, NEW j \in 0 .. k - 1, z[j].ld, Alike(Num(z[j]), f)
          PROVE  Num(z[j]) < f
      <4>1. CASE j \in 0 .. r - 1
        <5>1. Ordered(q, j, got, w, h) /\ z[j] = q[j]
          BY <1>old, <4>1 DEF Queued
        <5>2. UpTo(Num(z[j]), w, h)
          BY <3>2, <5>1 DEF Ordered
        <5> QED BY <3>2, <5>2 DEF UpTo, Past, Alike
      <4>2. CASE ~(j \in 0 .. r - 1)
        <5>1. j \in 0 .. RxLen - 1 /\ r <= j /\ j < r + m
          BY <1>0, <2>0, <4>2
        <5>2. Sound(z[j]) /\ Num(z[j]) = f /\ Place(z[j]) = j - r + 1
          BY <1>new, <5>1
        <5>3. j - r + 1 = 1 + (f % 2)
          BY ZenonT(40), <3>2, <5>2 DEF Sound
        <5> QED BY <1>0, <2>0, <2>3, <3>2, <5>3
      <4> QED BY <4>1, <4>2
    <3> QED BY Zenon, <2>1, <3>1, <3>2 DEF Ordered
  <2> QED BY <2>1, <2>2, <2>4
<1>4. \A k \in 0 .. r + m - 1 : k \in 0 .. r - 1 \/ r <= k
  BY <1>0
<1> QED BY <1>1, <1>2, <1>3, <1>4 DEF Queued, Spare

\* Where a slot counted from p is, counted from the slot r places ahead of p.
LEMMA RxFromThere ==
  ASSUME Sizes, NEW p \in RxSlot, NEW r \in 0 .. RxLen, NEW k \in 0 .. RxLen - 1
  PROVE  RxFrom(RxAhead(p, r), RxAhead(p, k)) = IF k >= r THEN k - r ELSE k - r + RxLen
<1> DEFINE c == RxAhead(p, r)
           i == RxAhead(p, k)
<1>0. RxLen \in Nat \ {0} /\ RxSlot = 0 .. RxLen - 1 /\ k \in 0 .. RxLen
  BY DEF Sizes, RxSlot
<1>1. c = (IF p + r < RxLen THEN p + r ELSE p + r - RxLen)
      /\ i = (IF p + k < RxLen THEN p + k ELSE p + k - RxLen)
  BY <1>0, RxAheadIs
<1>2. c \in RxSlot /\ i \in RxSlot
  BY <1>0, <1>1
<1> HIDE DEF c, i
<1>3. RxFrom(c, i) = IF i >= c THEN i - c ELSE i - c + RxLen
  BY <1>2, RxAheadIs
<1>4. RxFrom(c, i) = IF k >= r THEN k - r ELSE k - r + RxLen
  BY <1>0, <1>1, <1>3
<1> QED BY <1>4 DEF c, i

\* A delivery seen from the driver's slot.
LEMMA StoredIsAdded ==
  ASSUME Sizes, NEW t, NEW z, NEW f \in Nat, NEW m \in 0 .. 1 + (f % 2), Stored(t, z, f, m),
         NEW p \in RxSlot, NEW r \in 0 .. RxLen, t.cur_rx = RxAhead(p, r),
         Spare(RxQueue(t, p), r)
  PROVE  /\ r + m \in 0 .. RxLen /\ z.cur_rx = RxAhead(p, r + m)
         /\ Added(RxQueue(t, p), RxQueue(z, p), f, r, m)
<1> DEFINE c == t.cur_rx
<1>0. /\ RxLen \in Nat \ {0} /\ RxSlot = 0 .. RxLen - 1 /\ r \in Nat
      /\ f % 2 \in 0 .. 1
  BY DEF Sizes, RxSlot
<1>m. m \in Nat /\ m <= RxLen
  BY <1>0 DEF Stored
<1>1. /\ \A k \in 0 .. RxLen : RxAhead(p, k) \in RxSlot
      /\ RxAhead(p, 0) = p /\ RxAhead(p, RxLen) = p
  BY RxAheadFacts
<1>2. \A k \in 0 .. RxLen - 1 : /\ RxQueue(t, p)[k] = t.rx[RxAhead(p, k)]
                                /\ RxQueue(z, p)[k] = z.rx[RxAhead(p, k)]
  BY DEF RxQueue
<1>3. r + m <= RxLen
  <2> SUFFICES ASSUME r + m > RxLen PROVE FALSE
    BY <1>0, <1>m
  <2> DEFINE k == RxLen - r
  <2>1. k \in 0 .. m - 1 /\ k \in 0 .. RxLen /\ r + k = RxLen /\ r + k <= RxLen
    BY <1>0, <1>m
  <2>2. t.rx[RxAhead(c, k)].own
    BY <2>1 DEF Stored
  <2>3. RxAhead(c, k) = RxAhead(p, r + k)
    BY <2>1, RxAheadTwice
  <2>4. RxAhead(c, k) = RxAhead(p, 0)
    BY <1>1, <2>1, <2>3
  <2>5. 0 \in 0 .. RxLen - 1
    BY <1>0
  <2>6. RxQueue(t, p)[0].own
    BY Zenon, <1>2, <2>2, <2>4, <2>5
  <2>7. 0 >= r
    BY <2>5, <2>6 DEF Spare
  <2> QED BY <1>0, <1>m, <2>1, <2>7
<1>4. r + m \in 0 .. RxLen /\ m \in 0 .. RxLen
  BY <1>0, <1>m, <1>3
<1>5. z.cur_rx = RxAhead(p, r + m)
  BY <1>3, <1>4, RxAheadTwice DEF Stored
<1>6. ASSUME NEW k \in 0 .. RxLen - 1
      PROVE  RxQueue(z, p)[k] = IF r <= k /\ k < r + m THEN Piece(f, k - r + 1)
                                ELSE RxQueue(t, p)[k]
  <2> DEFINE i == RxAhead(p, k)
  <2>1. i \in RxSlot /\ RxFrom(c, i) = IF k >= r THEN k - r ELSE k - r + RxLen
    <3>1. k \in 0 .. RxLen
      BY <1>0
    <3> QED BY <1>1, <3>1, RxFromThere
  <2>2. z.rx[i] = IF RxFrom(c, i) < m THEN Piece(f, RxFrom(c, i) + 1) ELSE t.rx[i]
    BY Zenon, <2>1 DEF Stored
  <2>3. RxQueue(z, p)[k] = z.rx[i] /\ RxQueue(t, p)[k] = t.rx[i]
    BY Zenon, <1>2
  <2> HIDE DEF i
  <2>4. CASE r <= k /\ k < r + m
    <3>1. RxFrom(c, i) = k - r /\ RxFrom(c, i) < m
      BY <1>0, <1>m, <2>1, <2>4
    <3> QED BY Zenon, <2>2, <2>3, <2>4, <3>1
  <2>5. CASE ~(r <= k /\ k < r + m)
    <3>1. ~(RxFrom(c, i) < m)
      BY <1>0, <1>m, <1>3, <2>1, <2>5
    <3> QED BY Zenon, <2>2, <2>3, <2>5, <3>1
  <2> QED BY Zenon, <2>4, <2>5
<1> QED BY <1>4, <1>5, <1>6 DEF Added

\* The bounds of what the device can hold, for the lemmas below.
Fits == FrameMax \in Nat /\ FrameMax >= 2 /\ MaxFrames \in Nat

\* A new frame is delivered, or cut short, or dropped, and the frames stay in order.
LEMMA DeliverGood ==
  ASSUME Sizes, Fits, NEW t, NEW d, NEW w \in Nat, NEW h \in Nat, NEW v \in Nat, NEW g \in Nat,
         w <= v, h <= g, RxGood(t, d, w, h), NEW f, Past(f, w, h), UpTo(f, v, g)
  PROVE  RxGood(mcxn_enet_deliver(t, Frame(f)), d, v, g)
<1> DEFINE z == mcxn_enet_deliver(t, Frame(f))
<1>0. /\ f \in Nat /\ f % 2 \in 0 .. 1
      /\ RxRing(t) /\ t.out \in Seq({Frame(x) : x \in Nat})
      /\ d.got \in Seq({Frame(x) : x \in Nat})
      /\ InSequence(t.out, 0, h) /\ InSequence(d.got, w, h)
  BY DEF Past, RxGood
<1>1. InSequence(t.out, 0, g) /\ InSequence(d.got, v, g)
  BY <1>0, LaterBounds
<1>2. ASSUME NEW r \in 0 .. RxLen, RxHolds(t, d, r, w, h) PROVE RxHolds(t, d, r, v, g)
  <2>1. \A x : UpTo(x, w, h) => UpTo(x, v, g)
    BY DEF UpTo
  <2>2. \A q, k : Ordered(q, k, d.got, w, h) => Ordered(q, k, d.got, v, g)
    BY Zenon, <2>1 DEF Ordered
  <2>3. Queued(RxQueue(t, d.take), r, d.part, d.got, v, g)
    BY Zenon, <1>2, <2>2 DEF RxHolds, Queued
  <2> QED BY <1>2, <2>3 DEF RxHolds
<1>3. CASE z = t
  BY Zenon, <1>0, <1>1, <1>2, <1>3 DEF RxGood
<1>4. CASE /\ t.cur_rx \in RxSlot
           /\ \E m \in 0 .. 1 + (f % 2) : Stored(t, z, f, m)
  <2>1. PICK m \in 0 .. 1 + (f % 2) : Stored(t, z, f, m)
    BY <1>4
  <2>2. t.cur_rx # NoRing
    BY SMTT(30), Z3T(30), <1>4 DEF Sizes, NoRing, RxSlot
  <2>3. PICK r \in 0 .. RxLen : RxHolds(t, d, r, w, h)
    BY Zenon, <2>2 DEF RxGood
  <2> HIDE DEF z
  <2>4. /\ d.take \in RxSlot /\ t.cur_rx = RxAhead(d.take, r)
        /\ Queued(RxQueue(t, d.take), r, d.part, d.got, w, h)
    BY <2>3 DEF RxHolds
  <2>5. Spare(RxQueue(t, d.take), r)
    BY <2>4 DEF Queued
  <2>6. /\ r + m \in 0 .. RxLen /\ z.cur_rx = RxAhead(d.take, r + m)
        /\ Added(RxQueue(t, d.take), RxQueue(z, d.take), f, r, m)
    BY ZenonT(40), <1>0, <2>1, <2>4, <2>5, StoredIsAdded
  <2>7. Queued(RxQueue(z, d.take), r + m, d.part, d.got, v, g)
    <3>1. r + m <= RxLen /\ MaxFrames \in Nat
      BY <2>6 DEF Fits
    <3> QED BY ZenonT(40), <1>0, <2>4, <2>6, <3>1, QueueGrows
  <2>8. RxHolds(z, d, r + m, v, g)
    BY <2>4, <2>6, <2>7 DEF RxHolds
  <2>9. /\ DOMAIN z = Fields /\ DOMAIN z.rx = RxSlot /\ z.cur_rx \in RxSlot
        /\ z.out = t.out
    BY <2>1 DEF Stored
  <2>10. ASSUME NEW i \in RxSlot PROVE z.rx[i].own \in BOOLEAN
    <3>1. z.rx[i] = IF RxFrom(t.cur_rx, i) < m THEN Piece(f, RxFrom(t.cur_rx, i) + 1)
                    ELSE t.rx[i]
      BY <2>1 DEF Stored
    <3>2. \A x : Piece(f, x).own \in BOOLEAN
      BY DEF Piece
    <3>3. t.rx[i].own \in BOOLEAN
      BY <1>0 DEF RxRing
    <3> QED BY Zenon, <3>1, <3>2, <3>3
  <2>11. RxRing(z)
    BY Zenon, <2>9, <2>10 DEF RxRing
  <2> QED BY Zenon, <1>0, <1>1, <2>6, <2>8, <2>9, <2>11 DEF RxGood, z
<1>5. z = t \/ (t.cur_rx \in RxSlot /\ \E m \in 0 .. 1 + (f % 2) : Stored(t, z, f, m))
  BY <1>0, DeliverStores DEF Fits
<1> QED BY <1>3, <1>4, <1>5

\* The receiver's state is its ring, its slot and what left.
LEMMA SameRx ==
  ASSUME NEW t, NEW u, NEW d, NEW w, NEW h, RxGood(t, d, w, h),
         DOMAIN u = Fields, u.rx = t.rx, u.cur_rx = t.cur_rx, u.out = t.out
  PROVE  RxGood(u, d, w, h)
<1>1. RxRing(u)
  BY DEF RxGood, RxRing
<1>2. RxQueue(u, d.take) = RxQueue(t, d.take)
  BY DEF RxQueue
<1>3. \A r : RxHolds(t, d, r, w, h) => RxHolds(u, d, r, w, h)
  BY Zenon, <1>2 DEF RxHolds
<1> QED BY Zenon, <1>1, <1>3 DEF RxGood

\* A frame of the driver's leaves over the loopback or to the network.
LEMMA SentGood ==
  ASSUME Sizes, Fits, NEW t, NEW d, NEW w \in Nat, NEW h \in Nat, RxGood(t, d, w, h),
         NEW f \in Nat, f > MaxFrames, f > h, NEW ioc
  PROVE  RxGood(Sent(t, Frame(f), ioc), d, w, f)
<1> DEFINE u == IF "LM" \in t.mac THEN mcxn_enet_deliver(t, Frame(f))
                ELSE [t EXCEPT !.out = Append(@, Frame(f))]
           v == IF ioc THEN [u EXCEPT !.status = @ \cup {"TI"}] ELSE u
<1>0. MaxFrames \in Nat /\ w <= w /\ h <= f /\ Past(f, w, h) /\ UpTo(f, w, f)
      /\ Past(f, 0, h) /\ UpTo(f, 0, f)
  BY DEF Fits, Past, UpTo
<1>1. RxGood(u, d, w, f)
  <2>1. CASE "LM" \in t.mac
    BY <1>0, <2>1, DeliverGood
  <2>2. CASE "LM" \notin t.mac
    <3> DEFINE x == [t EXCEPT !.out = Append(@, Frame(f))]
    <3>0. /\ RxRing(t) /\ t.out \in Seq({Frame(y) : y \in Nat})
          /\ d.got \in Seq({Frame(y) : y \in Nat})
          /\ InSequence(t.out, 0, h) /\ InSequence(d.got, w, h)
          /\ t.cur_rx # NoRing => \E r \in 0 .. RxLen : RxHolds(t, d, r, w, h)
      BY DEF RxGood
    <3>1. /\ DOMAIN x = Fields /\ x.rx = t.rx /\ x.cur_rx = t.cur_rx
          /\ x.out = Append(t.out, Frame(f))
      BY <3>0 DEF RxRing, Fields
    <3> HIDE DEF x
    <3>2. InSequence(t.out, 0, f) /\ InSequence(d.got, w, f)
      BY <1>0, <3>0, LaterBounds
    <3>3. IsAfter(t.out, f)
      BY <1>0, <3>0, PastIsAfter
    <3>4. InSequence(x.out, 0, f) /\ x.out \in Seq({Frame(y) : y \in Nat})
      <4>1. 0 \in Nat
        OBVIOUS
      <4> QED BY ZenonT(40), <1>0, <3>0, <3>1, <3>2, <3>3, <4>1, SequenceGrows
    <3>5. RxRing(x)
      BY <3>0, <3>1 DEF RxRing
    <3>6. \A y : UpTo(y, w, h) => UpTo(y, w, f)
      BY <1>0 DEF UpTo
    <3>7. \A q, k : Ordered(q, k, d.got, w, h) => Ordered(q, k, d.got, w, f)
      BY Zenon, <3>6 DEF Ordered
    <3>8. RxQueue(x, d.take) = RxQueue(t, d.take)
      BY <3>1 DEF RxQueue
    <3>9. \A r : RxHolds(t, d, r, w, h) => RxHolds(x, d, r, w, f)
      BY Zenon, <3>1, <3>7, <3>8 DEF RxHolds, Queued
    <3>10. RxGood(x, d, w, f)
      BY Zenon, <3>0, <3>1, <3>2, <3>4, <3>5, <3>9 DEF RxGood
    <3> QED BY <2>2, <3>10 DEF x
  <2> QED BY <2>1, <2>2
<1>2. Sent(t, Frame(f), ioc) = v
  BY DEF Sent
<1> HIDE DEF u
<1>3. CASE ioc
  <2>1. DOMAIN v = Fields /\ v.rx = u.rx /\ v.cur_rx = u.cur_rx /\ v.out = u.out
    BY <1>1, <1>3 DEF RxGood, RxRing, Fields
  <2> HIDE DEF v
  <2> QED BY <1>1, <1>2, <2>1, SameRx
<1> QED BY <1>1, <1>2, <1>3

\* The queue of the net layer is delivered in order.
LEMMA FlushGood ==
  ASSUME Sizes, Fits, NEW t, NEW d, NEW w \in Nat, NEW h \in Nat, RxGood(t, d, w, h),
         NEW q, Len(q) \in Nat, w + Len(q) <= MaxFrames,
         \A i \in 1 .. Len(q) : q[i] = Frame(w + i)
  PROVE  RxGood(Flushed(t, q), d, w + Len(q), h)
<1>0. PICK run : DeliversAll(run, t, q)
  BY FlushedRun
<1>1. /\ run[0] = t
      /\ \A n \in Nat : run[n + 1] = mcxn_enet_deliver(run[n], q[n + 1])
      /\ Flushed(t, q) = run[Len(q)]
  BY <1>0 DEF DeliversAll
<1> DEFINE P == {n \in Nat : n <= Len(q) => RxGood(run[n], d, w + n, h)}
<1>2. 0 \in P
  <2>1. w + 0 = w
    OBVIOUS
  <2> QED BY ZenonT(40), <1>1, <2>1
<1>3. ASSUME NEW n \in Nat, n \in P PROVE n + 1 \in P
  <2> SUFFICES ASSUME n + 1 <= Len(q) PROVE RxGood(run[n + 1], d, w + (n + 1), h)
    OBVIOUS
  <2>1. /\ n + 1 \in 1 .. Len(q) /\ w + n \in Nat /\ w + (n + 1) \in Nat
        /\ w + n <= w + (n + 1) /\ h <= h /\ n <= Len(q)
    OBVIOUS
  <2>2. RxGood(run[n], d, w + n, h)
    BY <1>3, <2>1
  <2>3. Past(w + (n + 1), w + n, h) /\ UpTo(w + (n + 1), w + (n + 1), h)
    BY <2>1 DEF Past, UpTo, Fits
  <2>4. run[n + 1] = mcxn_enet_deliver(run[n], Frame(w + (n + 1)))
    BY <1>1, <2>1
  <2> DEFINE a == w + n
             b == w + (n + 1)
  <2> HIDE DEF a, b
  <2>5. /\ a \in Nat /\ b \in Nat /\ a <= b /\ h <= h /\ RxGood(run[n], d, a, h)
        /\ Past(b, a, h) /\ UpTo(b, b, h)
    BY <2>1, <2>2, <2>3 DEF a, b
  <2>6. RxGood(mcxn_enet_deliver(run[n], Frame(b)), d, b, h)
    BY ZenonT(40), <2>5, DeliverGood
  <2> QED BY <2>4, <2>6 DEF b
<1> HIDE DEF P
<1>4. Len(q) \in P
  BY Zenon, <1>2, <1>3, AllNumbers
<1> QED BY <1>1, <1>4 DEF P

\* The receiver is on, or off, as before.
SameGate(t, u) == u.mac = t.mac /\ u.sr = t.sr

\* A delivery does not turn the receiver on or off.
LEMMA DeliverGate ==
  ASSUME NEW t, NEW whole, DOMAIN t = Fields
  PROVE  SameGate(t, mcxn_enet_deliver(t, whole))
<1> DEFINE z == mcxn_enet_deliver(t, whole)
<1>1. z = t \/ \E frame, m, ok : z = mcxn_enet_update_irq(Status(Written(t, frame, m), ok))
  BY DEF mcxn_enet_deliver
<1> HIDE DEF z
<1>2. CASE z = t
  BY <1>2 DEF SameGate, z
<1>3. CASE z # t
  <2>1. PICK frame, m, ok :
          z = mcxn_enet_update_irq(Status(Written(t, frame, m), ok))
    BY <1>1, <1>3
  <2> DEFINE w == Written(t, frame, m)
             v == Status(w, ok)
  <2>2. SameGate(t, w) /\ DOMAIN w = Fields
    BY DEF Written, SameGate, Fields
  <2> HIDE DEF w
  <2>3. SameGate(t, v) /\ DOMAIN v = Fields
    BY <2>2 DEF Status, SameGate, Fields
  <2> HIDE DEF v
  <2>4. z = mcxn_enet_update_irq(v)
    BY <2>1 DEF v, w
  <2>5. SameGate(t, z)
    BY <2>3, <2>4 DEF mcxn_enet_update_irq, SameGate, Fields
  <2> QED BY <2>5 DEF z
<1> QED BY <1>2, <1>3

\* Nor does a frame that leaves.
LEMMA SentGate ==
  ASSUME NEW t, NEW frame, NEW ioc, DOMAIN t = Fields
  PROVE  SameGate(t, Sent(t, frame, ioc))
<1> DEFINE u == IF "LM" \in t.mac THEN mcxn_enet_deliver(t, frame)
                ELSE [t EXCEPT !.out = Append(@, frame)]
           v == IF ioc THEN [u EXCEPT !.status = @ \cup {"TI"}] ELSE u
<1>1. SameGate(t, u) /\ DOMAIN u = Fields
  <2>1. SameGate(t, mcxn_enet_deliver(t, frame)) /\ DOMAIN mcxn_enet_deliver(t, frame) = Fields
    BY DeliverGate, DeliverKeeps DEF KeepsTx
  <2>2. /\ SameGate(t, [t EXCEPT !.out = Append(@, frame)])
        /\ DOMAIN [t EXCEPT !.out = Append(@, frame)] = Fields
    BY DEF SameGate, Fields
  <2> QED BY <2>1, <2>2
<1>2. Sent(t, frame, ioc) = v
  BY DEF Sent
<1> HIDE DEF u
<1>3. SameGate(t, v)
  BY <1>1 DEF SameGate, Fields
<1> QED BY <1>2, <1>3

\* The net layer's queue does not turn the receiver on or off.
LEMMA FlushGate ==
  ASSUME NEW t, NEW q, Len(q) \in Nat, DOMAIN t = Fields
  PROVE  SameGate(t, Flushed(t, q))
<1>0. PICK run : DeliversAll(run, t, q)
  BY FlushedRun
<1>1. /\ run[0] = t
      /\ \A n \in Nat : run[n + 1] = mcxn_enet_deliver(run[n], q[n + 1])
      /\ Flushed(t, q) = run[Len(q)]
  BY <1>0 DEF DeliversAll
<1> DEFINE P == {n \in Nat : SameGate(t, run[n]) /\ DOMAIN run[n] = Fields}
<1>2. 0 \in P
  BY Zenon, <1>1 DEF SameGate
<1>3. ASSUME NEW n \in Nat, n \in P PROVE n + 1 \in P
  <2>1. DOMAIN run[n] = Fields
    BY <1>3
  <2> DEFINE y == q[n + 1]
  <2>2. run[n + 1] = mcxn_enet_deliver(run[n], y)
    BY <1>1
  <2> HIDE DEF y
  <2>3. SameGate(run[n], run[n + 1]) /\ KeepsTx(run[n], run[n + 1])
    BY Zenon, <2>1, <2>2, DeliverGate, DeliverKeeps
  <2> QED BY <1>3, <2>3 DEF SameGate, KeepsTx
<1> HIDE DEF P
<1>4. Nat \subseteq P
  BY <1>2, <1>3, AllNumbers
<1>5. Len(q) \in P
  BY <1>4
<1> QED BY <1>1, <1>5 DEF P

\* What appending does to a sequence, and to the one with a single element.
LEMMA Appended ==
  ASSUME NEW S, NEW a \in Seq(S), NEW y \in S
  PROVE  /\ Len(Append(a, y)) = Len(a) + 1 /\ Append(a, y)[Len(a) + 1] = y
         /\ \A i \in 1 .. Len(a) : Append(a, y)[i] = a[i]
OBVIOUS

\* The second piece of a frame appended to its first.
LEMMA AppendedToOne ==
  ASSUME NEW S, NEW x \in S, NEW y \in S
  PROVE  Append(<<x>>, y) = <<x, y>>
<1> DEFINE a == <<x>>
           b == Append(a, y)
<1>1. a \in Seq(S) /\ Len(a) = 1 /\ a[1] = x
  OBVIOUS
<1> HIDE DEF a
<1>2. b \in Seq(S)
  BY <1>1
<1>3. Len(b) = Len(a) + 1 /\ b[Len(a) + 1] = y /\ \A i \in 1 .. Len(a) : b[i] = a[i]
  BY ZenonT(40), <1>1, Appended
<1> HIDE DEF b
<1>4. Len(b) = 2 /\ b[2] = y /\ b[1] = x
  BY <1>1, <1>3
<1>5. b = <<x, y>>
  BY <1>2, <1>4
<1> QED BY <1>5 DEF a, b

\* The queue after the driver took its first descriptor and gave it back.
Shifted(q, z) ==
  /\ \A k \in 0 .. RxLen - 2 : z[k] = q[k + 1]
  /\ z[RxLen - 1] = Free

\* The pieces the driver has once it took d, the frame it keeps of them, and what it got.
WithPiece(d, part) == IF d.fd THEN <<d.data>> ELSE Append(part, d.data)
PartAfter(d, part) == IF d.ld THEN << >> ELSE WithPiece(d, part)
GotAfter(d, part, got) == IF d.ld THEN Append(got, WithPiece(d, part)) ELSE got

\* A descriptor added to what was kept of its frame: the whole frame, or its first piece.
LEMMA Assembled ==
  ASSUME NEW d, NEW part, Sound(d), Place(d) = 2 => part = <<<<Num(d), 1>>>>
  PROVE  /\ d.ld => WithPiece(d, part) = Frame(Num(d))
         /\ ~d.ld => /\ WithPiece(d, part) = <<<<Num(d), 1>>>> /\ Place(d) = 1
                     /\ d.data = <<Num(d), 1>>
         /\ d.fd => Place(d) = 1
<1> DEFINE f == Num(d)
<1>2. f \in Nat /\ f % 2 \in 0 .. 1 /\ Place(d) \in 1 .. 1 + (f % 2)
      /\ d.data = <<f, Place(d)>>
  <2>1. f \in Nat \ {0} /\ Place(d) \in 1 .. 1 + (f % 2) /\ d.data = <<f, Place(d)>>
    BY DEF Sound
  <2>2. f % 2 \in 0 .. 1
    BY <2>1
  <2> QED BY <2>1, <2>2
<1>3. ASSUME d.ld PROVE WithPiece(d, part) = Frame(f)
  <2>1. Place(d) = 1 + (f % 2)
    BY ZenonT(40), <1>3 DEF Sound
  <2>2. CASE f % 2 = 0
    <3>1. Place(d) = 1
      BY <2>1, <2>2
    <3>2. d.fd /\ d.data = <<f, 1>>
      BY Zenon, <1>2, <3>1 DEF Sound
    <3>3. Frame(f) = <<<<f, 1>>>>
      BY <1>2, <2>2, FrameIs
    <3> QED BY Zenon, <3>2, <3>3 DEF WithPiece
  <2>3. CASE f % 2 = 1
    <3>1. Place(d) = 2 /\ Place(d) # 1
      BY <2>1, <2>3
    <3>2. ~d.fd /\ d.data = <<f, 2>>
      BY Zenon, <1>2, <3>1 DEF Sound
    <3>3. part = <<<<f, 1>>>>
      BY <3>1
    <3>4. Frame(f) = <<<<f, 1>>, <<f, 2>>>>
      BY ZenonT(40), <1>2, <2>3, FrameIs
    <3>5. <<f, 1>> \in Nat \X Nat /\ <<f, 2>> \in Nat \X Nat
      BY <1>2
    <3>6. Append(<<<<f, 1>>>>, <<f, 2>>) = <<<<f, 1>>, <<f, 2>>>>
      BY Zenon, <3>5, AppendedToOne
    <3> QED BY Zenon, <3>2, <3>3, <3>4, <3>6 DEF WithPiece
  <2> QED BY <1>2, <2>2, <2>3
<1>4. ASSUME ~d.ld PROVE WithPiece(d, part) = <<<<f, 1>>>> /\ Place(d) = 1 /\ d.data = <<f, 1>>
  <2>1. Place(d) # 1 + (f % 2)
    BY Zenon, <1>4 DEF Sound
  <2>2. Place(d) = 1
    BY <1>2, <2>1
  <2>3. d.fd /\ d.data = <<f, 1>>
    BY ZenonT(40), <1>2, <2>2 DEF Sound
  <2> QED BY Zenon, <1>4, <2>2, <2>3 DEF WithPiece
<1>5. d.fd => Place(d) = 1
  BY Zenon DEF Sound
<1> QED BY <1>3, <1>4, <1>5

\* The driver takes a descriptor: the frame that is complete is whole and in order.
LEMMA QueueTaken ==
  ASSUME Sizes, MaxFrames \in Nat, NEW q, NEW r \in 1 .. RxLen, NEW part, NEW w \in Nat,
         NEW h \in Nat, NEW got \in Seq({Frame(x) : x \in Nat}),
         Queued(q, r, part, got, w, h), InSequence(got, w, h), NEW z, Shifted(q, z)
  PROVE  /\ Queued(z, r - 1, PartAfter(q[0], part), GotAfter(q[0], part, got), w, h)
         /\ InSequence(GotAfter(q[0], part, got), w, h)
         /\ GotAfter(q[0], part, got) \in Seq({Frame(x) : x \in Nat})
<1> DEFINE d == q[0]
           f == Num(d)
           part2 == PartAfter(d, part)
           got2 == GotAfter(d, part, got)
<1>0. RxLen \in Nat \ {0} /\ 0 \in 0 .. r - 1 /\ 0 \in 0 .. RxLen - 1
  BY DEF Sizes
<1>1. Sound(d) /\ Follows(q, 0, part) /\ Ordered(q, 0, got, w, h)
  BY <1>0 DEF Queued
<1>2. f \in Nat \ {0} /\ f % 2 \in 0 .. 1 /\ Place(d) \in 1 .. 1 + (f % 2)
      /\ d.data = <<f, Place(d)>>
  <2>1. f \in Nat \ {0} /\ Place(d) \in 1 .. 1 + (f % 2) /\ d.data = <<f, Place(d)>>
    BY <1>1 DEF Sound
  <2>2. f % 2 \in 0 .. 1
    BY <2>1
  <2> QED BY <2>1, <2>2
<1>asm. /\ d.ld => WithPiece(d, part) = Frame(f)
        /\ ~d.ld => WithPiece(d, part) = <<<<f, 1>>>> /\ Place(d) = 1
  <2>1. Place(d) = 2 => part = <<<<Num(d), 1>>>>
    BY <1>1 DEF Follows
  <2> QED BY Zenon, <1>1, <2>1, Assembled
<1>3. d.ld => WithPiece(d, part) = Frame(f)
  BY <1>asm
<1>4. ~d.ld => part2 = <<<<f, 1>>>> /\ Place(d) = 1
  BY Zenon, <1>asm DEF PartAfter
<1>5. ASSUME d.ld PROVE UpTo(f, w, h) /\ IsAfter(got, f) /\ got2 = Append(got, Frame(f))
  BY Zenon, <1>1, <1>3, <1>5 DEF Ordered, GotAfter
<1>6. InSequence(got2, w, h) /\ got2 \in Seq({Frame(x) : x \in Nat})
  <2>1. CASE d.ld
    BY ZenonT(40), <1>5, <2>1, SequenceGrows
  <2>2. CASE ~d.ld
    BY Zenon, <2>2 DEF GotAfter
  <2> QED BY <2>1, <2>2
<1>7. ASSUME NEW k \in 0 .. r - 2
      PROVE  Sound(z[k]) /\ Follows(z, k, part2) /\ Ordered(z, k, got2, w, h)
  <2>1. k \in 0 .. RxLen - 2 /\ k + 1 \in 0 .. r - 1 /\ k + 1 # 0 /\ (k + 1) - 1 = k
    BY <1>0
  <2>2. z[k] = q[k + 1] /\ Sound(q[k + 1]) /\ Follows(q, k + 1, part)
        /\ Ordered(q, k + 1, got, w, h)
    BY <2>1 DEF Shifted, Queued
  <2>3. Place(z[k]) = 2 => q[k].data = <<Num(z[k]), 1>>
    BY <2>1, <2>2 DEF Follows
  <2>4. Follows(z, k, part2)
    <3>1. CASE k = 0
      <4> SUFFICES ASSUME Place(z[0]) = 2 PROVE part2 = <<<<Num(z[0]), 1>>>>
        BY <3>1 DEF Follows
      <4>1. d.data = <<Num(z[0]), 1>>
        BY <2>3, <3>1
      <4>2. f = Num(z[0]) /\ Place(d) = 1
        BY SMTT(30), Z3T(30), <4>1 DEF Num, Place
      <4>3. 2 \in 1 .. 1 + (f % 2)
        BY Zenon, <2>2, <3>1, <4>2 DEF Sound
      <4>4. ~d.ld
        <5>1. f % 2 = 1
          BY <1>2, <4>3
        <5>2. Place(d) # 1 + (f % 2)
          BY <4>2, <5>1
        <5> QED BY ZenonT(40), <1>1, <5>2 DEF Sound
      <4> QED BY Zenon, <1>4, <4>2, <4>4
    <3>2. CASE k # 0
      <4>1. k - 1 \in 0 .. RxLen - 2 /\ (k - 1) + 1 = k
        BY <1>0, <2>1, <3>2
      <4>2. z[k - 1] = q[k]
        BY <4>1 DEF Shifted
      <4> QED BY Zenon, <2>3, <3>2, <4>2 DEF Follows
    <3> QED BY Zenon, <3>1, <3>2
  <2>5. Ordered(z, k, got2, w, h)
    <3> SUFFICES ASSUME z[k].ld
                 PROVE  /\ UpTo(Num(z[k]), w, h) /\ IsAfter(got2, Num(z[k]))
                        /\ \A j \in 0 .. k - 1 :
                             z[j].ld /\ Alike(Num(z[j]), Num(z[k])) => Num(z[j]) < Num(z[k])
      BY Zenon DEF Ordered
    <3> DEFINE g == Num(z[k])
    <3>1. /\ UpTo(g, w, h) /\ IsAfter(got, g)
          /\ \A j \in 0 .. (k + 1) - 1 :
               q[j].ld /\ Alike(Num(q[j]), g) => Num(q[j]) < g
      BY Zenon, <2>2 DEF Ordered
    <3> HIDE DEF g
    <3>2. ASSUME NEW j \in 0 .. k - 1, z[j].ld, Alike(Num(z[j]), g) PROVE Num(z[j]) < g
      <4>1. j \in 0 .. RxLen - 2 /\ j + 1 \in 0 .. (k + 1) - 1
        BY <1>0, <2>1
      <4>2. z[j] = q[j + 1]
        BY <4>1 DEF Shifted
      <4> QED BY Zenon, <3>1, <3>2, <4>1, <4>2
    <3>3. IsAfter(got2, g)
      <4>1. CASE ~d.ld
        BY Zenon, <3>1, <4>1 DEF GotAfter
      <4>2. CASE d.ld
        <5>1. got2 = Append(got, Frame(f)) /\ Id(Frame(f)) = f
          BY Zenon, <1>2, <1>5, <4>2, FrameIs
        <5>2. Alike(f, g) => f < g
          <6>1. 0 \in 0 .. (k + 1) - 1
            BY <2>1
          <6> QED BY Zenon, <3>1, <4>2, <6>1
        <5> DEFINE n == Len(got)
        <5>3. /\ n \in Nat /\ Len(got2) = n + 1 /\ got2[n + 1] = Frame(f)
              /\ \A i \in 1 .. n : got2[i] = got[i]
          BY <5>1
        <5> HIDE DEF got2, n
        <5>4. \A i \in 1 .. n : Alike(Id(got[i]), g) => Id(got[i]) < g
          BY Zenon, <3>1 DEF IsAfter, n
        <5>5. \A i \in 1 .. Len(got2) : i \in 1 .. n \/ i = n + 1
          BY <5>3
        <5>6. \A i \in 1 .. Len(got2) : Alike(Id(got2[i]), g) => Id(got2[i]) < g
          BY ZenonT(40), <5>1, <5>2, <5>3, <5>4, <5>5
        <5> QED BY Zenon, <5>6 DEF IsAfter
      <4> QED BY <4>1, <4>2
    <3> QED BY Zenon, <3>1, <3>2, <3>3 DEF g
  <2> QED BY <2>2, <2>4, <2>5
<1>8. Spare(z, r - 1)
  <2> SUFFICES ASSUME NEW k \in 0 .. RxLen - 1 PROVE z[k].own <=> k >= r - 1
    BY DEF Spare
  <2>1. CASE k = RxLen - 1
    <3>1. z[k].own = TRUE /\ k >= r - 1
      BY <1>0, <2>1 DEF Shifted, Free
    <3> QED BY <3>1
  <2>2. CASE k # RxLen - 1
    <3>1. k \in 0 .. RxLen - 2 /\ k + 1 \in 0 .. RxLen - 1 /\ (k + 1 >= r <=> k >= r - 1)
      BY <1>0, <2>2
    <3>2. z[k] = q[k + 1] /\ (q[k + 1].own <=> k + 1 >= r)
      BY <3>1 DEF Shifted, Queued, Spare
    <3> QED BY Zenon, <3>1, <3>2
  <2> QED BY <2>1, <2>2
<1>9. (r - 1) - 1 = r - 2
  BY <1>0
<1> HIDE DEF part2, got2
<1>10. Queued(z, r - 1, part2, got2, w, h)
  BY Zenon, <1>7, <1>8, <1>9 DEF Queued
<1> QED BY <1>6, <1>10 DEF part2, got2

\* The driver takes the next filled descriptor.
LEMMA TakeGood ==
  ASSUME Sizes, Fits, DOMAIN drv = Notes, NEW w \in Nat, NEW h \in Nat,
         RxGood(s, drv, w, h), RxTake
  PROVE  RxGood(s', drv', w, h)
<1> DEFINE p == drv.take
           q == RxQueue(s, p)
           z == RxQueue(s', drv'.take)
           d == s.rx[p]
<1>0. RxLen \in Nat \ {0} /\ RxSlot = 0 .. RxLen - 1
  BY DEF Sizes, RxSlot
<1>1. /\ RxRing(s) /\ s.out \in Seq({Frame(f) : f \in Nat})
      /\ drv.got \in Seq({Frame(f) : f \in Nat})
      /\ InSequence(s.out, 0, h) /\ InSequence(drv.got, w, h)
      /\ s.cur_rx # NoRing /\ ~d.own
  BY DEF RxGood, RxTake
<1>2. PICK r \in 0 .. RxLen : RxHolds(s, drv, r, w, h)
  BY <1>1 DEF RxGood
<1>3. /\ p \in RxSlot /\ s.cur_rx = RxAhead(p, r)
      /\ Queued(q, r, drv.part, drv.got, w, h)
  BY <1>2 DEF RxHolds
<1>ring. /\ \A k \in 0 .. RxLen : RxAhead(p, k) \in RxSlot
         /\ \A k \in 0 .. RxLen - 1 : RxFrom(p, RxAhead(p, k)) = k
         /\ RxAhead(p, 0) = p /\ RxAhead(p, RxLen) = p
  BY <1>3, RxAheadFacts
<1>4. q[0] = d /\ r \in 1 .. RxLen
  <2>1. 0 \in 0 .. RxLen - 1
    BY <1>0
  <2>2. q[0] = s.rx[RxAhead(p, 0)]
    BY <2>1 DEF RxQueue
  <2>3. q[0] = d
    BY Zenon, <2>2, <1>ring
  <2>4. ~(0 >= r)
    BY Zenon, <1>1, <1>3, <2>1, <2>3 DEF Queued, Spare
  <2> QED BY <1>0, <2>3, <2>4
<1>5. /\ s' = [s EXCEPT !.rx[drv.take] = Free]
      /\ drv' = [drv EXCEPT !.take = (@ + 1) % RxLen,
                            !.part = PartAfter(d, drv.part),
                            !.got = GotAfter(d, drv.part, drv.got)]
  BY DEF RxTake, PartAfter, GotAfter, WithPiece
<1>6. /\ DOMAIN s' = Fields /\ s'.rx = [s.rx EXCEPT ![p] = Free] /\ s'.out = s.out
      /\ s'.cur_rx = s.cur_rx
  BY <1>1, <1>5 DEF RxRing, Fields
<1>7. /\ drv'.take = (p + 1) % RxLen /\ drv'.part = PartAfter(d, drv.part)
      /\ drv'.got = GotAfter(d, drv.part, drv.got)
  BY <1>5 DEF Notes
<1>8. drv'.take = RxAhead(p, 1) /\ 1 \in 0 .. RxLen
  BY <1>0, <1>7 DEF RxAhead
<1>9. DOMAIN s.rx = RxSlot /\ \A i \in RxSlot : s.rx[i].own \in BOOLEAN
  BY <1>1 DEF RxRing
<1> HIDE DEF p, d
<1>10. \A i \in RxSlot : s'.rx[i] = IF i = p THEN Free ELSE s.rx[i]
  BY <1>6, <1>9
<1>11. RxRing(s')
  <2>1. Free.own \in BOOLEAN
    BY DEF Free
  <2>2. DOMAIN s'.rx = RxSlot
    BY <1>6, <1>9
  <2>3. \A i \in RxSlot : s'.rx[i].own \in BOOLEAN
    BY Zenon, <1>9, <1>10, <2>1
  <2> QED BY <1>1, <1>6, <2>2, <2>3 DEF RxRing
<1>12. ASSUME NEW k \in 0 .. RxLen - 1
       PROVE  z[k] = IF k = RxLen - 1 THEN Free ELSE q[k + 1]
  <2>1. k \in 0 .. RxLen /\ 1 + k <= RxLen /\ 1 + k = k + 1 /\ k + 1 \in 0 .. RxLen
    BY <1>0
  <2>2. RxAhead(RxAhead(p, 1), k) = RxAhead(p, 1 + k)
    BY Zenon, <1>3, <1>8, <2>1, RxAheadTwice
  <2>3. z[k] = s'.rx[RxAhead(p, k + 1)] /\ RxAhead(p, k + 1) \in RxSlot
    BY <1>8, <1>ring, <2>1, <2>2 DEF RxQueue
  <2>4. CASE k = RxLen - 1
    <3>1. k + 1 = RxLen
      BY <1>0, <2>4
    <3>2. RxAhead(p, k + 1) = p
      BY <1>ring, <3>1
    <3> QED BY Zenon, <1>10, <2>3, <2>4, <3>2
  <2>5. CASE k # RxLen - 1
    <3>1. k + 1 \in 0 .. RxLen - 1 /\ 0 \in 0 .. RxLen - 1 /\ k + 1 # 0
      BY <1>0, <2>5
    <3>2. RxAhead(p, k + 1) # p
      BY <1>ring, <3>1
    <3>3. q[k + 1] = s.rx[RxAhead(p, k + 1)]
      BY <3>1 DEF RxQueue
    <3> QED BY Zenon, <1>10, <2>3, <2>5, <3>2, <3>3
  <2> QED BY Zenon, <2>4, <2>5
<1>13. Shifted(q, z)
  <2>1. \A k \in 0 .. RxLen - 2 : k \in 0 .. RxLen - 1 /\ k # RxLen - 1
    BY <1>0
  <2>2. RxLen - 1 \in 0 .. RxLen - 1
    BY <1>0
  <2> QED BY Zenon, <1>12, <2>1, <2>2 DEF Shifted
<1> HIDE DEF q, z
<1>14. /\ Queued(z, r - 1, drv'.part, drv'.got, w, h)
       /\ InSequence(drv'.got, w, h)
       /\ drv'.got \in Seq({Frame(f) : f \in Nat})
  <2>1. MaxFrames \in Nat
    BY DEF Fits
  <2>2. /\ Queued(z, r - 1, PartAfter(q[0], drv.part), GotAfter(q[0], drv.part, drv.got), w, h)
        /\ InSequence(GotAfter(q[0], drv.part, drv.got), w, h)
        /\ GotAfter(q[0], drv.part, drv.got) \in Seq({Frame(x) : x \in Nat})
    BY ZenonT(40), <1>1, <1>3, <1>4, <1>13, <2>1, QueueTaken
  <2> QED BY Zenon, <1>4, <1>7, <2>2
<1>15. r - 1 \in 0 .. RxLen /\ s'.cur_rx = RxAhead(drv'.take, r - 1) /\ drv'.take \in RxSlot
  <2>1. r - 1 \in 0 .. RxLen /\ 1 + (r - 1) <= RxLen /\ 1 + (r - 1) = r
    BY <1>0, <1>4
  <2>2. RxAhead(RxAhead(p, 1), r - 1) = RxAhead(p, 1 + (r - 1))
    BY <1>3, <1>8, <2>1, RxAheadTwice
  <2> QED BY <1>3, <1>6, <1>8, <1>ring, <2>1, <2>2
<1>16. RxHolds(s', drv', r - 1, w, h)
  BY <1>14, <1>15 DEF RxHolds, z
<1> QED BY Zenon, <1>1, <1>6, <1>11, <1>14, <1>15, <1>16 DEF RxGood

\* The driver sets the receive ring up: it is empty.
LEMMA SetupGood ==
  ASSUME Sizes, DOMAIN drv = Notes, NEW w \in Nat, NEW h \in Nat, RxGood(s, drv, w, h), SetupRx
  PROVE  RxGood(s', drv', w, h)
<1> DEFINE z == RxQueue(s', 0)
<1>0. RxLen \in Nat \ {0} /\ RxSlot = 0 .. RxLen - 1 /\ 0 \in RxSlot /\ 0 \in 0 .. RxLen
  BY DEF Sizes, RxSlot
<1>1. /\ RxRing(s) /\ s.out \in Seq({Frame(f) : f \in Nat})
      /\ drv.got \in Seq({Frame(f) : f \in Nat})
      /\ InSequence(s.out, 0, h) /\ InSequence(drv.got, w, h)
  BY DEF RxGood
<1>2. /\ DOMAIN s' = Fields /\ s'.rx = [i \in RxSlot |-> Free] /\ s'.cur_rx = 0
      /\ s'.out = s.out
  BY <1>1 DEF SetupRx, RxRing, Fields
<1>3. drv'.take = 0 /\ drv'.got = drv.got
  BY DEF SetupRx, Notes
<1>4. Free.own = TRUE
  BY DEF Free
<1>5. RxRing(s')
  <2>1. DOMAIN s'.rx = RxSlot /\ \A i \in RxSlot : s'.rx[i] = Free
    BY <1>2
  <2> QED BY Zenon, <1>0, <1>2, <1>4, <2>1 DEF RxRing
<1>6. RxAhead(0, 0) = 0 /\ \A k \in 0 .. RxLen : RxAhead(0, k) \in RxSlot
  BY ZenonT(40), <1>0, RxAheadFacts
<1>7. \A k \in 0 .. RxLen - 1 : z[k] = Free
  <2>1. \A k \in 0 .. RxLen - 1 : k \in 0 .. RxLen
    BY <1>0
  <2> QED BY <1>2, <1>6, <2>1 DEF RxQueue
<1> HIDE DEF z
<1>8. \A part, got : Queued(z, 0, part, got, w, h)
  <2>1. \A k \in 0 .. RxLen - 1 : k >= 0
    BY <1>0
  <2>2. \A k : ~(k \in 0 .. 0 - 1)
    OBVIOUS
  <2> QED BY Zenon, <1>4, <1>7, <2>1, <2>2 DEF Queued, Spare
<1>9. RxHolds(s', drv', 0, w, h)
  BY Zenon, <1>0, <1>2, <1>3, <1>6, <1>8 DEF RxHolds, z
<1> QED BY Zenon, <1>0, <1>1, <1>2, <1>3, <1>5, <1>9 DEF RxGood

-----------------------------------------------------------------------------
\* The transmit ring's state is its descriptors and the device's slot.
LEMMA SameTx ==
  ASSUME NEW t, NEW u, NEW d, NEW e, NEW h, TxGood(t, d, h), u.tx = t.tx, u.cur_tx = t.cur_tx,
         e.posted = d.posted, e.pieces = d.pieces, e.put = d.put, e.mark = d.mark
  PROVE  TxGood(u, e, h)
<1>1. \A k : TxDesc(u, k) = TxDesc(t, k)
  BY Zenon DEF TxDesc
<1>2. ASSUME NEW k, PostedWell(t, d, h, k) PROVE PostedWell(u, e, h, k)
  <2>1. /\ Sound(TxDesc(u, k)) /\ h < Num(TxDesc(u, k))
        /\ Num(TxDesc(u, k)) <= MaxFrames + e.posted + (IF TxDesc(u, k).ld THEN 0 ELSE 1)
    <3> DEFINE x == TxDesc(t, k)
    <3>1. Sound(x) /\ h < Num(x) /\ Num(x) <= MaxFrames + d.posted + (IF x.ld THEN 0 ELSE 1)
      BY Zenon, <1>2 DEF PostedWell
    <3>2. TxDesc(u, k) = x
      BY <1>1
    <3> HIDE DEF x
    <3> QED BY <3>1, <3>2
  <2>2. Place(TxDesc(u, k)) = 2 =>
          /\ k > 0 /\ Ahead(u.cur_tx, k) # e.mark
          /\ TxDesc(u, k - 1).data = <<Num(TxDesc(u, k)), 1>>
    <3>1. TxDesc(u, k) = TxDesc(t, k) /\ TxDesc(u, k - 1) = TxDesc(t, k - 1)
      BY <1>1
    <3> QED BY Zenon, <1>2, <3>1 DEF PostedWell
  <2>3. ASSUME NEW j \in 0 .. k - 1, TxDesc(u, j).ld
        PROVE  Num(TxDesc(u, j)) < Num(TxDesc(u, k))
    <3>1. TxDesc(u, k) = TxDesc(t, k) /\ TxDesc(u, j) = TxDesc(t, j)
      BY <1>1
    <3>2. TxDesc(t, j).ld
      BY <2>3, <3>1
    <3>3. Num(TxDesc(t, j)) < Num(TxDesc(t, k))
      BY Zenon, <1>2, <3>2 DEF PostedWell
    <3> QED BY <3>1, <3>3
  <2> QED BY Zenon, <2>1, <2>2, <2>3 DEF PostedWell
<1> QED BY ZenonT(40), <1>1, <1>2 DEF TxGood

\* The driver writes the next descriptor of the frame it posts.
LEMMA PostGood ==
  ASSUME Sizes, Fits, EnetInv, drv.posted \in Nat, NEW h \in MaxFrames .. MaxFrames + drv.posted,
         TxGood(s, drv, h), NEW ioc \in BOOLEAN, TxPut(ioc)
  PROVE  TxGood(s', drv', h) /\ drv'.posted \in Nat /\ drv'.posted >= drv.posted
<1> DEFINE p == s.cur_tx
           f == MaxFrames + drv.posted + 1
           n == drv.pieces + 1
           next == (drv.put + 1) % TxLen
           desc == [own |-> TRUE, fd |-> n = 1, ld |-> n = Len(Frame(f)), data |-> Frame(f)[n],
                    ioc |-> n = Len(Frame(f)) /\ ioc]
           last == n = 1 + (f % 2)
<1>0. /\ TxLen \in Nat \ {0, 1} /\ RxLen \in Nat \ {0} /\ TxSlot = 0 .. TxLen - 1
      /\ MaxFrames \in Nat /\ h \in Nat
  BY DEF Sizes, TxSlot, Fits
<1>1. p # NoRing /\ ~s.tx[next].own
  BY DEF TxPut
<1>2. PICK c \in 0 .. TxLen - 1 : \E b \in 0 .. c : \E a \in 0 .. b :
        RingOrder(s, drv, a, b, c)
  BY <1>1 DEF EnetInv, TxInv
<1>3. PICK b \in 0 .. c : \E a \in 0 .. b : RingOrder(s, drv, a, b, c)
  BY Zenon, <1>2
<1>4. /\ DOMAIN s = Fields /\ IsRing(s) /\ p \in 0 .. TxLen - 1
      /\ drv.mark = Ahead(p, b) /\ drv.put = Ahead(p, c)
      /\ \A k \in 0 .. TxLen - 1 : s.tx[Ahead(p, k)].own <=> (0 <= k /\ k < c)
  BY Zenon, <1>0, <1>3 DEF RingOrder, Owns
<1>5. /\ drv.pieces \in 0 .. 1
      /\ drv.pieces = 1 =>
           /\ f % 2 = 1 /\ drv.put # drv.mark
           /\ \A k \in 0 .. TxLen - 2 : Ahead(p, k + 1) = drv.put =>
                TxDesc(s, k).own /\ TxDesc(s, k).data = <<f, 1>>
      /\ \A k \in 0 .. TxLen - 1 : TxDesc(s, k).own => PostedWell(s, drv, h, k)
  BY Zenon, <1>1 DEF TxGood
<1>6. /\ f \in Nat \ {0} /\ f % 2 \in 0 .. 1 /\ n \in 1 .. 1 + (f % 2)
      /\ Len(Frame(f)) = 1 + (f % 2) /\ Frame(f)[n] = <<f, n>>
  <2>1. f \in Nat \ {0}
    BY SMTT(30), Z3T(30), <1>0
  <2> HIDE DEF f
  <2>2. f % 2 \in 0 .. 1
    BY <2>1
  <2>3. n \in 1 .. 1 + (f % 2)
    BY <1>5, <2>2
  <2>4. /\ Len(Frame(f)) = 1 + (f % 2)
        /\ \A k \in 1 .. Len(Frame(f)) : Frame(f)[k] = <<f, k>>
    BY Zenon, <2>1, FrameIs
  <2> QED BY <2>1, <2>2, <2>3, <2>4
<1>7. /\ s' = [s EXCEPT !.tx[drv.put] = desc]
      /\ drv' = [drv EXCEPT !.put = next, !.mark = IF last THEN next ELSE @,
                            !.posted = IF last THEN @ + 1 ELSE @,
                            !.pieces = IF last THEN 0 ELSE n]
  BY Zenon, <1>6 DEF TxPut
<1>8. /\ s'.tx = [s.tx EXCEPT ![drv.put] = desc] /\ s'.cur_tx = p
  BY <1>4, <1>7 DEF Fields
<1>9. /\ drv'.put = next /\ drv'.mark = (IF last THEN next ELSE drv.mark)
      /\ drv'.posted = (IF last THEN drv.posted + 1 ELSE drv.posted)
      /\ drv'.pieces = (IF last THEN 0 ELSE n)
  BY <1>7 DEF EnetInv, EnetType, Notes
<1>10. desc.own = TRUE /\ desc.data = <<f, n>> /\ Num(desc) = f /\ Place(desc) = n
  <2>1. desc.own = TRUE /\ desc.data = Frame(f)[n]
    OBVIOUS
  <2>2. desc.data = <<f, n>>
    BY Zenon, <1>6, <2>1
  <2> HIDE DEF desc, n, f
  <2> QED BY <2>1, <2>2 DEF Num, Place
<1>11. desc.ld = last /\ Sound(desc)
  <2>1. desc.fd = (n = 1) /\ desc.ld = (n = Len(Frame(f)))
    OBVIOUS
  <2>2. desc.ld = last
    BY Zenon, <1>6, <2>1
  <2> HIDE DEF desc, n, f
  <2> QED BY Zenon, <1>6, <1>10, <2>1, <2>2 DEF Sound
<1>ring. /\ \A k \in 0 .. TxLen : Ahead(p, k) \in 0 .. TxLen - 1
         /\ \A j, k \in 0 .. TxLen - 1 : Ahead(p, j) = Ahead(p, k) => j = k
         /\ Ahead(p, 0) = p /\ Ahead(p, TxLen) = p
         /\ \A j \in 0 .. TxLen - 1 : (Ahead(p, j) + 1) % TxLen = Ahead(p, j + 1)
  BY ZenonT(40), <1>4, AheadFacts
<1> HIDE DEF p, desc
<1>12. next = Ahead(p, c + 1)
  BY <1>4, <1>ring
<1>13. c + 1 \in 0 .. TxLen - 1
  <2> SUFFICES ASSUME c = TxLen - 1 PROVE FALSE
    BY <1>0
  <2>1. next = p
    BY <1>0, <1>12, <1>ring
  <2>2. Ahead(p, 0) = p /\ 0 \in 0 .. TxLen - 1 /\ 0 < c /\ 0 <= 0
    BY SMTT(30), Z3T(30), <1>0, <1>ring
  <2>3. s.tx[p].own
    BY <1>4, <2>2
  <2> QED BY <1>1, <2>1, <2>3
<1> HIDE DEF next
<1>14. ASSUME NEW k \in 0 .. TxLen - 1
       PROVE  TxDesc(s', k) = IF k = c THEN desc ELSE TxDesc(s, k)
  <2>1. Ahead(p, k) \in TxSlot /\ (Ahead(p, k) = drv.put <=> k = c)
    <3>1. k \in 0 .. TxLen
      BY SMTT(30), Z3T(30), <1>0
    <3> QED BY Zenon, <1>0, <1>4, <1>ring, <3>1
  <2>2. Ahead(p, k) \in DOMAIN s.tx
    BY <1>4, <2>1 DEF IsRing
  <2>3. s'.tx[Ahead(p, k)] = IF Ahead(p, k) = drv.put THEN desc ELSE s.tx[Ahead(p, k)]
    BY <1>8, <2>2
  <2> QED BY Zenon, <1>8, <2>1, <2>3 DEF TxDesc, p
<1>15. \A k \in 0 .. c - 1 :
         /\ k \in 0 .. TxLen - 1 /\ k # c /\ TxDesc(s', k) = TxDesc(s, k)
         /\ PostedWell(s, drv, h, k)
  <2> TAKE k \in 0 .. c - 1
  <2>1. k \in 0 .. TxLen - 1 /\ k # c /\ 0 <= k /\ k < c
    BY <1>0
  <2>2. TxDesc(s, k).own
    BY Zenon, <1>4, <2>1 DEF TxDesc, p
  <2> QED BY Zenon, <1>5, <1>14, <2>1, <2>2
<1>16. /\ drv'.posted \in Nat /\ drv'.posted >= drv.posted
       /\ ~last => drv'.posted = drv.posted
       /\ last => drv'.posted = drv.posted + 1
  BY <1>9
<1>17. ASSUME NEW k \in 0 .. c - 1 PROVE PostedWell(s', drv', h, k)
  <2> DEFINE x == TxDesc(s, k)
  <2>1. /\ Sound(x) /\ h < Num(x)
        /\ Num(x) <= MaxFrames + drv.posted + (IF x.ld THEN 0 ELSE 1)
        /\ Place(x) = 2 => /\ k > 0 /\ Ahead(p, k) # drv.mark
                           /\ TxDesc(s, k - 1).data = <<Num(x), 1>>
        /\ \A j \in 0 .. k - 1 : TxDesc(s, j).ld => Num(TxDesc(s, j)) < Num(x)
    BY Zenon, <1>15 DEF PostedWell, p
  <2>2. TxDesc(s', k) = x /\ k \in 0 .. TxLen - 1 /\ k # c + 1
    BY <1>0, <1>15
  <2> HIDE DEF x
  <2>3. \A j \in 0 .. k - 1 : j \in 0 .. c - 1
    BY <1>0
  <2>4. k > 0 => k - 1 \in 0 .. c - 1
    BY <1>0
  <2>5. Ahead(p, k) # next
    BY Zenon, <1>12, <1>13, <1>ring, <2>2
  <2>6. Num(x) <= MaxFrames + drv'.posted + (IF x.ld THEN 0 ELSE 1)
    <3>1. Num(x) \in Nat
      BY <2>1 DEF Sound
    <3> HIDE DEF last
    <3> QED BY SMTT(30), Z3T(30), <1>0, <1>16, <2>1, <3>1
  <2> HIDE DEF last
  <2>7. Place(x) = 2 => /\ k > 0 /\ Ahead(p, k) # drv'.mark
                        /\ TxDesc(s', k - 1).data = <<Num(x), 1>>
    BY Zenon, <1>9, <1>15, <2>1, <2>4, <2>5
  <2>8. \A j \in 0 .. k - 1 : TxDesc(s', j).ld => Num(TxDesc(s', j)) < Num(x)
    BY Zenon, <1>15, <2>1, <2>3
  <2> QED BY Zenon, <1>8, <2>1, <2>2, <2>6, <2>7, <2>8 DEF PostedWell
<1>18. PostedWell(s', drv', h, c)
  <2>1. TxDesc(s', c) = desc
    BY Zenon, <1>14
  <2>2. h < f /\ f <= MaxFrames + drv'.posted + (IF desc.ld THEN 0 ELSE 1)
    <3>1. h < f
      BY <1>0
    <3>2. CASE last
      <4>1. desc.ld = TRUE
        BY Zenon, <1>11, <3>2
      <4> HIDE DEF last
      <4> QED BY <1>0, <1>16, <3>1, <3>2, <4>1
    <3>3. CASE ~last
      <4>1. desc.ld = FALSE
        BY Zenon, <1>11, <3>3
      <4> HIDE DEF last
      <4> QED BY <1>0, <1>16, <3>1, <3>3, <4>1
    <3> QED BY <3>2, <3>3
  <2>3. ASSUME n = 2
        PROVE  c > 0 /\ Ahead(p, c) # drv'.mark /\ TxDesc(s', c - 1).data = <<f, 1>>
    <3>1. drv.pieces = 1 /\ drv.put # drv.mark /\ f % 2 = 1
      BY <1>5, <2>3
    <3>2. last
      BY <2>3, <3>1
    <3>3. c # b /\ c > 0 /\ c - 1 \in 0 .. TxLen - 2 /\ (c - 1) + 1 = c /\ c - 1 \in 0 .. c - 1
      <4>1. c # b
        BY Zenon, <1>4, <3>1
      <4> QED BY <1>0, <4>1
    <3>4. TxDesc(s, c - 1).data = <<f, 1>>
      BY Zenon, <1>4, <1>5, <3>1, <3>3
    <3>5. Ahead(p, c) # drv'.mark
      <4>1. c # c + 1
        BY <1>0
      <4> HIDE DEF last
      <4> QED BY Zenon, <1>9, <1>12, <1>13, <1>ring, <3>2, <4>1
    <3> QED BY Zenon, <1>15, <3>3, <3>4, <3>5
  <2>4. ASSUME NEW j \in 0 .. c - 1, TxDesc(s', j).ld PROVE Num(TxDesc(s', j)) < f
    <3> DEFINE x == TxDesc(s, j)
    <3>1. x.ld /\ Sound(x) /\ Num(x) <= MaxFrames + drv.posted + (IF x.ld THEN 0 ELSE 1)
      BY <1>15, <2>4 DEF PostedWell
    <3>2. TxDesc(s', j) = x
      BY <1>15
    <3> HIDE DEF x
    <3>3. Num(x) \in Nat
      BY <3>1 DEF Sound
    <3>4. Num(x) <= MaxFrames + drv.posted
      BY <1>0, <3>1
    <3> QED BY SMTT(30), Z3T(30), <1>0, <3>2, <3>3, <3>4
  <2> HIDE DEF f, n, last
  <2> QED BY Zenon, <1>8, <1>10, <1>11, <2>1, <2>2, <2>3, <2>4 DEF PostedWell
<1>19. ASSUME NEW k \in 0 .. TxLen - 1, TxDesc(s', k).own PROVE PostedWell(s', drv', h, k)
  <2>1. CASE k = c
    BY <1>18, <2>1
  <2>2. CASE k # c
    <3>1. TxDesc(s, k).own
      BY Zenon, <1>14, <1>19, <2>2
    <3>2. 0 <= k /\ k < c
      BY Zenon, <1>4, <3>1 DEF TxDesc, p
    <3>3. k \in 0 .. c - 1
      BY SMTT(30), Z3T(30), <1>0, <3>2
    <3> QED BY <1>17, <3>3
  <2> QED BY <2>1, <2>2
<1>20. /\ drv'.pieces \in 0 .. 1
       /\ drv'.pieces = 1 =>
            /\ (MaxFrames + drv'.posted + 1) % 2 = 1 /\ drv'.put # drv'.mark
            /\ \A k \in 0 .. TxLen - 2 : Ahead(p, k + 1) = drv'.put =>
                 TxDesc(s', k).own /\ TxDesc(s', k).data = <<MaxFrames + drv'.posted + 1, 1>>
  <2>1. CASE last
    <3>1. drv'.pieces = 0
      BY <1>9, <2>1
    <3> QED BY <3>1
  <2>2. CASE ~last
    <3>1. n = 1 /\ f % 2 = 1
      <4>1. /\ f % 2 \in 0 .. 1 /\ n \in 1 .. 1 + (f % 2) /\ n # 1 + (f % 2)
        BY Zenon, <1>6, <2>2
      <4> HIDE DEF n, f
      <4> QED BY SMTT(30), Z3T(30), <4>1
    <3>2. /\ drv'.pieces = 1 /\ drv'.posted = drv.posted /\ drv'.mark = drv.mark
          /\ drv'.put = next /\ MaxFrames + drv'.posted + 1 = f
      BY <1>9, <2>2, <3>1
    <3>3. drv'.put # drv'.mark
      <4>1. b \in 0 .. TxLen - 1 /\ b # c + 1
        BY <1>0
      <4>2. Ahead(p, b) # Ahead(p, c + 1)
        BY Zenon, <1>13, <1>ring, <4>1
      <4>3. drv'.put = Ahead(p, c + 1) /\ drv'.mark = Ahead(p, b)
        BY Zenon, <1>4, <1>12, <3>2
      <4> QED BY Zenon, <4>2, <4>3
    <3>4. ASSUME NEW k \in 0 .. TxLen - 2, Ahead(p, k + 1) = drv'.put
          PROVE  TxDesc(s', k).own /\ TxDesc(s', k).data = <<f, 1>>
      <4>1. k + 1 \in 0 .. TxLen - 1 /\ k \in 0 .. TxLen - 1
        BY <1>0
      <4>2. k + 1 = c + 1
        BY Zenon, <1>12, <1>13, <1>ring, <3>2, <3>4, <4>1
      <4>3. k = c
        BY <1>0, <4>2
      <4> HIDE DEF n, f
      <4> QED BY Zenon, <1>10, <1>14, <3>1, <4>1, <4>3
    <3> HIDE DEF f
    <3>5. drv'.pieces \in 0 .. 1
      BY <3>2
    <3> QED BY Zenon, <3>1, <3>2, <3>3, <3>4, <3>5
  <2> QED BY Zenon, <2>1, <2>2
<1>21. TxGood(s', drv', h)
  BY ZenonT(40), <1>8, <1>19, <1>20 DEF TxGood
<1> QED BY <1>16, <1>21

\* What the driver posted from slot p on: c descriptors, of which the first b are rung for.
Posts(t, d, h, p, b, c) ==
  /\ t.cur_tx = p /\ d.mark = Ahead(p, b)
  /\ \A k \in 0 .. c - 1 : PostedWell(t, d, h, k)

\* The walk has taken j of the descriptors: what is left is as posted and comes after the
\* frames that left, and the walk holds the first piece of the frame it is in.
Left(u, t, p, j, c) == \A k \in j .. c - 1 : u.tx[Ahead(p, k)] = t.tx[Ahead(p, k)]

Later(t, p, j, c, g) == \A k \in j .. c - 1 : g < Num(t.tx[Ahead(p, k)])

WalkAt(x, t, d, p, j, b, c, w, h) ==
  /\ Owns(x.dev, p, j, c) /\ x.dev.tail = Ahead(p, b) /\ Left(x.dev, t, p, j, c)
  /\ SameGate(t, x.dev)
  /\ \E g \in h .. MaxFrames + d.posted :
       RxGood(x.dev, d, w, g) /\ Later(t, p, j, c, g)
  /\ j < b /\ Place(t.tx[Ahead(p, j)]) = 2 => x.frame = <<<<Num(t.tx[Ahead(p, j)]), 1>>>>

\* A turn of the walk takes the next descriptor and sends the frame that is complete.
LEMMA TurnGood ==
  ASSUME Sizes, Fits, NEW t, NEW d, d.posted \in Nat, NEW w \in Nat, NEW h \in Nat,
         h >= MaxFrames, NEW p, NEW c \in 0 .. TxLen - 1, NEW b \in 0 .. c, NEW j \in 0 .. b,
         j < b, Posts(t, d, h, p, b, c), NEW x, WalkAt(x, t, d, p, j, b, c, w, h)
  PROVE  WalkAt(TxTurn(x), t, d, p, j + 1, b, c, w, h)
<1> DEFINE dev == x.dev
           i == dev.cur_tx
           e == dev.tx[dev.cur_tx]
           f == Num(e)
           before == IF e.fd THEN << >> ELSE x.frame
           all == IF Len(before) < FrameMax THEN Append(before, e.data) ELSE before
           wanted == (x.ioc /\ ~e.fd) \/ e.ioc
           u == [dev EXCEPT !.tx[dev.cur_tx].own = FALSE, !.cur_tx = (@ + 1) % TxLen]
           v == TxTurn(x).dev
<1>0. /\ TxLen \in Nat \ {0} /\ TxSlot = 0 .. TxLen - 1 /\ MaxFrames \in Nat /\ FrameMax \in Nat
      /\ FrameMax >= 2
  BY DEF Sizes, TxSlot, Fits
<1>1. /\ Owns(dev, p, j, c) /\ dev.tail = Ahead(p, b) /\ Left(dev, t, p, j, c)
      /\ SameGate(t, dev)
      /\ t.cur_tx = p /\ d.mark = Ahead(p, b)
  BY Zenon DEF WalkAt, Posts
<1>2. PICK g \in h .. MaxFrames + d.posted : RxGood(dev, d, w, g) /\ Later(t, p, j, c, g)
  BY Zenon DEF WalkAt
<1>3. /\ j \in 0 .. TxLen - 1 /\ b \in 0 .. TxLen - 1 /\ j + 1 \in 0 .. TxLen - 1
      /\ p \in 0 .. TxLen - 1 /\ j \in j .. c - 1 /\ j \in 0 .. c - 1 /\ j # b /\ j < c /\ j <= j
      /\ g \in Nat
  BY <1>0, <1>1 DEF Owns
<1>ring. /\ \A k \in 0 .. TxLen : Ahead(p, k) \in 0 .. TxLen - 1
         /\ \A k, l \in 0 .. TxLen - 1 : Ahead(p, k) = Ahead(p, l) => k = l
  BY ZenonT(40), <1>3, AheadFacts
<1>4. /\ i = Ahead(p, j) /\ i # dev.tail /\ e.own /\ e = t.tx[Ahead(p, j)]
      /\ DOMAIN dev = Fields /\ IsRing(dev)
  <2>1. i = Ahead(p, j) /\ DOMAIN dev = Fields /\ IsRing(dev)
        /\ (dev.tx[Ahead(p, j)].own <=> (j <= j /\ j < c))
    BY Zenon, <1>1, <1>3 DEF Owns
  <2>2. Ahead(p, j) # Ahead(p, b)
    BY Zenon, <1>3, <1>ring
  <2>3. dev.tx[Ahead(p, j)] = t.tx[Ahead(p, j)]
    BY ZenonT(40), <1>1, <1>3 DEF Left
  <2> QED BY Zenon, <1>1, <1>3, <2>1, <2>2, <2>3
<1>5. /\ Sound(e) /\ g < f
      /\ f <= MaxFrames + d.posted + (IF e.ld THEN 0 ELSE 1)
      /\ Place(e) = 2 => x.frame = <<<<f, 1>>>>
  <2>1. TxDesc(t, j) = e
    BY Zenon, <1>1, <1>4 DEF TxDesc
  <2>2. PostedWell(t, d, h, j)
    BY Zenon, <1>3 DEF Posts
  <2>3. Sound(e) /\ f <= MaxFrames + d.posted + (IF e.ld THEN 0 ELSE 1)
    BY Zenon, <2>1, <2>2 DEF PostedWell
  <2>4. g < f
    BY Zenon, <1>2, <1>3, <1>4 DEF Later
  <2>5. Place(e) = 2 => x.frame = <<<<f, 1>>>>
    BY Zenon, <1>4 DEF WalkAt
  <2> QED BY <2>3, <2>4, <2>5
<1>6. f \in Nat /\ f % 2 \in 0 .. 1 /\ Place(e) \in 1 .. 1 + (f % 2)
  <2>1. f \in Nat \ {0} /\ Place(e) \in 1 .. 1 + (f % 2)
    BY ZenonT(40), <1>5 DEF Sound
  <2>2. f % 2 \in 0 .. 1
    BY SMTT(30), Z3T(30), <2>1
  <2> QED BY <2>1, <2>2
<1> HIDE DEF f
<1>7. all = WithPiece(e, x.frame)
  <2>1. CASE e.fd
    <3>1. before = << >> /\ Len(before) = 0
      BY <2>1
    <3> HIDE DEF before
    <3>2. all = Append(<< >>, e.data)
      <4>1. Len(before) < FrameMax
        BY <1>0, <3>1
      <4> QED BY Zenon, <3>1, <4>1
    <3>3. Append(<< >>, e.data) = <<e.data>>
      OBVIOUS
    <3> QED BY Zenon, <2>1, <3>2, <3>3 DEF WithPiece
  <2>2. CASE ~e.fd
    <3>1. Place(e) = 2
      <4>1. Place(e) # 1
        BY Zenon, <1>5, <2>2 DEF Sound
      <4> QED BY <1>6, <4>1
    <3>2. before = <<<<f, 1>>>>
      BY Zenon, <1>5, <2>2, <3>1
    <3> HIDE DEF before
    <3>3. Len(before) = 1
      BY <3>2
    <3>4. all = Append(before, e.data)
      BY <1>0, <3>3
    <3> QED BY Zenon, <2>2, <3>4 DEF WithPiece, before
  <2> QED BY <2>1, <2>2
<1>8. /\ e.ld => all = Frame(f)
      /\ ~e.ld => all = <<<<f, 1>>>> /\ e.data = <<f, 1>>
  <2>1. /\ e.ld => WithPiece(e, x.frame) = Frame(Num(e))
        /\ ~e.ld => WithPiece(e, x.frame) = <<<<Num(e), 1>>>> /\ e.data = <<Num(e), 1>>
    <3>1. Place(e) = 2 => x.frame = <<<<Num(e), 1>>>>
      BY <1>5 DEF f
    <3> QED BY ZenonT(40), <1>5, <3>1, Assembled
  <2> HIDE DEF all
  <2> QED BY Zenon, <1>7, <2>1 DEF f
<1>9. TxTurn(x) = IF e.ld THEN [dev |-> Sent(u, all, wanted), frame |-> << >>, ioc |-> wanted]
                  ELSE [dev |-> u, frame |-> all, ioc |-> wanted]
  BY <1>4 DEF TxTurn
<1> HIDE DEF all, before, wanted
<1>10. /\ DOMAIN u = Fields /\ u.rx = dev.rx /\ u.cur_rx = dev.cur_rx /\ u.out = dev.out
       /\ u.tx = [dev.tx EXCEPT ![i].own = FALSE] /\ u.mac = dev.mac /\ u.sr = dev.sr
  BY <1>4 DEF Fields
<1>gate. SameGate(t, u)
  <2> HIDE DEF u, dev
  <2> QED BY Zenon, <1>1, <1>10 DEF SameGate
<1>11. RxGood(u, d, w, g)
  <2> HIDE DEF u
  <2> QED BY <1>2, <1>10, SameRx
<1>12. Left(u, t, p, j + 1, c)
  <2> SUFFICES ASSUME NEW k \in j + 1 .. c - 1 PROVE u.tx[Ahead(p, k)] = t.tx[Ahead(p, k)]
    BY Zenon DEF Left
  <2>1. k \in j .. c - 1 /\ k \in 0 .. TxLen - 1 /\ k \in 0 .. TxLen /\ k # j
    BY SMTT(30), Z3T(30), <1>0, <1>3
  <2>2. Ahead(p, k) # i /\ Ahead(p, k) \in TxSlot
    BY ZenonT(40), <1>0, <1>3, <1>4, <1>ring, <2>1
  <2>3. Ahead(p, k) \in DOMAIN dev.tx
    BY <1>4, <2>2 DEF IsRing
  <2> HIDE DEF i, dev, u
  <2>4. u.tx[Ahead(p, k)] = dev.tx[Ahead(p, k)]
    BY <1>10, <2>2, <2>3
  <2> QED BY Zenon, <1>1, <2>1, <2>4 DEF Left
<1>13. Owns(v, p, j + 1, c) /\ v.tail = Ahead(p, b)
  <2> HIDE DEF v
  <2>1. Owns(TxTurn(x).dev, p, j + 1, c) /\ TxTurn(x).dev.tail = x.dev.tail
    BY ZenonT(40), <1>1, TurnTakes
  <2> QED BY Zenon, <1>1, <2>1 DEF v
<1> DEFINE n == t.tx[Ahead(p, j + 1)]
<1>14. ASSUME j + 1 < b
       PROVE  /\ Sound(n) /\ (Place(n) = 2 => e.data = <<Num(n), 1>>)
  <2>1. j + 1 \in 0 .. c - 1 /\ (j + 1) - 1 = j
    BY <1>0, <1>3, <1>14
  <2>2. PostedWell(t, d, h, j + 1)
    BY Zenon, <2>1 DEF Posts
  <2>3. TxDesc(t, j + 1) = n /\ TxDesc(t, (j + 1) - 1) = e
    BY Zenon, <1>1, <1>4, <2>1 DEF TxDesc
  <2> HIDE DEF n, e
  <2>4. Sound(n)
    BY Zenon, <2>2, <2>3 DEF PostedWell
  <2>5. Place(n) = 2 => TxDesc(t, (j + 1) - 1).data = <<Num(n), 1>>
    BY Zenon, <2>2, <2>3 DEF PostedWell
  <2> QED BY Zenon, <2>3, <2>4, <2>5
<1>15. CASE e.ld
  <2>1. TxTurn(x).frame = << >> /\ v = Sent(u, Frame(f), wanted)
    <3> DEFINE y == Sent(u, Frame(f), wanted)
    <3> HIDE DEF u, e, f
    <3>1. TxTurn(x) = [dev |-> y, frame |-> << >>, ioc |-> wanted]
      BY Zenon, <1>8, <1>9, <1>15
    <3> HIDE DEF v, y
    <3>2. TxTurn(x).dev = y /\ TxTurn(x).frame = << >>
      BY SMTT(30), Z3T(30), <3>1
    <3> QED BY Zenon, <3>2 DEF v, y
  <2>2. f \in h .. MaxFrames + d.posted /\ f > MaxFrames /\ f > g
    <3>1. f <= MaxFrames + d.posted + 0
      BY Zenon, <1>5, <1>15
    <3> QED BY SMTT(30), Z3T(30), <1>0, <1>3, <1>5, <1>6, <3>1
  <2>3. RxGood(v, d, w, f)
    <3> HIDE DEF u, v
    <3>1. RxGood(Sent(u, Frame(f), wanted), d, w, f)
      BY ZenonT(40), <1>3, <1>6, <1>11, <2>2, SentGood
    <3> QED BY Zenon, <2>1, <3>1
  <2>4. v.tx = u.tx /\ SameGate(t, v)
    <3> HIDE DEF u, v
    <3>1. KeepsTx(u, Sent(u, Frame(f), wanted)) /\ SameGate(u, Sent(u, Frame(f), wanted))
      BY <1>10, SentKeeps, SentGate
    <3> QED BY Zenon, <1>gate, <2>1, <3>1 DEF KeepsTx, SameGate
  <2>5. Left(v, t, p, j + 1, c)
    BY Zenon, <1>12, <2>4 DEF Left
  <2>6. Later(t, p, j + 1, c, f)
    <3> SUFFICES ASSUME NEW k \in j + 1 .. c - 1 PROVE f < Num(t.tx[Ahead(p, k)])
      BY Zenon DEF Later
    <3>1. k \in 0 .. c - 1 /\ j \in 0 .. k - 1
      BY <1>0, <1>3
    <3>2. PostedWell(t, d, h, k)
      BY Zenon, <3>1 DEF Posts
    <3>3. TxDesc(t, j) = e /\ TxDesc(t, k) = t.tx[Ahead(p, k)]
      BY Zenon, <1>1, <1>4 DEF TxDesc
    <3>4. TxDesc(t, j).ld => Num(TxDesc(t, j)) < Num(TxDesc(t, k))
      BY Zenon, <3>1, <3>2 DEF PostedWell
    <3> HIDE DEF e
    <3> QED BY Zenon, <1>15, <3>3, <3>4 DEF f
  <2>7. ~(j + 1 < b /\ Place(n) = 2)
    <3> SUFFICES ASSUME j + 1 < b, Place(n) = 2 PROVE FALSE
      OBVIOUS
    <3>1. e.data = <<Num(n), 1>> /\ Sound(n)
      BY Zenon, <1>14
    <3> HIDE DEF n, e
    <3>2. f = Num(n) /\ Place(e) = 1
      BY SMTT(30), Z3T(30), <3>1 DEF f, Num, Place
    <3>3. 2 \in 1 .. 1 + (f % 2)
      BY Zenon, <3>1, <3>2 DEF Sound
    <3>4. Place(e) = 1 + (f % 2)
      BY ZenonT(40), <1>5, <1>15 DEF Sound, f
    <3> QED BY SMTT(30), Z3T(30), <1>6, <3>2, <3>3, <3>4
  <2> HIDE DEF v, n
  <2>8. \E y \in h .. MaxFrames + d.posted : RxGood(v, d, w, y) /\ Later(t, p, j + 1, c, y)
    BY Zenon, <2>2, <2>3, <2>6
  <2> QED BY Zenon, <1>13, <2>4, <2>5, <2>7, <2>8 DEF WalkAt, v, n
<1>16. CASE ~e.ld
  <2>1. TxTurn(x).frame = <<<<f, 1>>>> /\ v = u
    <3> DEFINE y == <<<<f, 1>>>>
    <3> HIDE DEF u, e, f
    <3>1. TxTurn(x) = [dev |-> u, frame |-> y, ioc |-> wanted]
      BY Zenon, <1>8, <1>9, <1>16
    <3> HIDE DEF v, y
    <3>2. TxTurn(x).dev = u /\ TxTurn(x).frame = y
      BY <3>1
    <3> QED BY Zenon, <3>2 DEF v, y
  <2>2. Later(t, p, j + 1, c, g)
    <3>1. \A k \in j + 1 .. c - 1 : k \in j .. c - 1
      BY SMTT(30), Z3T(30), <1>3
    <3> QED BY Zenon, <1>2, <3>1 DEF Later
  <2>3. ASSUME j + 1 < b, Place(n) = 2 PROVE f = Num(n)
    <3>1. e.data = <<Num(n), 1>> /\ e.data = <<f, 1>>
      BY Zenon, <1>8, <1>14, <1>16, <2>3
    <3> HIDE DEF n, e
    <3> QED BY <3>1
  <2>4. TxTurn(x).dev = u
    BY <2>1 DEF v
  <2> HIDE DEF v, n, u
  <2> QED BY Zenon, <1>2, <1>11, <1>12, <1>13, <1>gate, <2>1, <2>2, <2>3, <2>4
        DEF WalkAt, v, n
<1> QED BY <1>15, <1>16

\* mcxn_enet_tx_process starts its walk with the device as it is.
LEMMA OutsetDev == \A t : Outset(t).dev = t
BY DEF Outset

\* A walk: every frame rung for leaves whole and in order, what was not rung for stays.
LEMMA WalkGood ==
  ASSUME Sizes, Fits, NEW t, NEW d, d.posted \in Nat, NEW w \in Nat, NEW h \in Nat,
         h >= MaxFrames, h <= MaxFrames + d.posted,
         NEW p, NEW c \in 0 .. TxLen - 1, NEW b \in 0 .. c, Posts(t, d, h, p, b, c),
         Owns(t, p, 0, c), t.tail = Ahead(p, b), RxGood(t, d, w, h)
  PROVE  \E x : /\ TxWalk(t, RingGuard) = x.dev
                /\ WalkAt(x, t, d, p, b, b, c, w, h)
<1>0. /\ TxLen \in Nat \ {0} /\ RingGuard \in Nat /\ RingGuard >= TxLen
      /\ b \in Nat /\ b < TxLen /\ MaxFrames \in Nat
  BY DEF Sizes, Fits
<1>1. PICK walk : Walks(walk, t)
  BY WalkRun
<1>2. /\ walk[0] = Outset(t)
      /\ \A n \in Nat : walk[n + 1] = TxTurn(walk[n])
      /\ TxWalk(t, RingGuard) = walk[RingGuard].dev
  BY <1>0, <1>1 DEF Walks
<1> DEFINE Reached(n) == IF n < b THEN n ELSE b
           Good(n) == WalkAt(walk[n], t, d, p, Reached(n), b, c, w, h)
           P == {n \in Nat : Good(n)}
<1>3. 0 \in P
  <2>1. walk[0].dev = t
    BY Zenon, <1>2, OutsetDev
  <2>2. Reached(0) = 0
    BY SMTT(30), Z3T(30), <1>0
  <2> HIDE DEF Reached
  <2>3. Left(t, t, p, 0, c) /\ SameGate(t, t)
    BY DEF Left, SameGate
  <2>4. h \in h .. MaxFrames + d.posted
    BY SMTT(30), Z3T(30), <1>0
  <2>5. Later(t, p, 0, c, h) /\ (c > 0 => Place(t.tx[Ahead(p, 0)]) # 2)
    <3>1. \A k \in 0 .. c - 1 : PostedWell(t, d, h, k) /\ TxDesc(t, k) = t.tx[Ahead(p, k)]
      BY Zenon DEF Posts, TxDesc
    <3>2. Later(t, p, 0, c, h)
      BY Zenon, <3>1 DEF Later, PostedWell
    <3>3. ASSUME c > 0, Place(t.tx[Ahead(p, 0)]) = 2 PROVE FALSE
      <4>1. 0 \in 0 .. c - 1 /\ ~(0 > 0)
        BY <1>0, <3>3
      <4> QED BY Zenon, <3>1, <3>3, <4>1 DEF PostedWell
    <3> QED BY Zenon, <3>2, <3>3
  <2>6. 0 < b => c > 0
    BY <1>0
  <2>7. WalkAt(walk[0], t, d, p, 0, b, c, w, h)
    BY Zenon, <2>1, <2>3, <2>4, <2>5, <2>6 DEF WalkAt
  <2>8. Good(0)
    BY <2>2, <2>7
  <2> QED BY <2>8
<1>4. ASSUME NEW n \in Nat, n \in P PROVE n + 1 \in P
  <2>1. Good(n) /\ walk[n + 1] = TxTurn(walk[n]) /\ n + 1 \in Nat
    BY <1>2, <1>4
  <2>2. CASE n < b
    <3>1. Reached(n) = n /\ Reached(n + 1) = n + 1 /\ n \in 0 .. b
      BY <1>0, <2>2
    <3> HIDE DEF Reached
    <3>2. WalkAt(walk[n], t, d, p, n, b, c, w, h)
      BY <2>1, <3>1
    <3>3. WalkAt(TxTurn(walk[n]), t, d, p, n + 1, b, c, w, h)
      BY ZenonT(60), <2>2, <3>1, <3>2, TurnGood
    <3>4. Good(n + 1)
      BY Zenon, <2>1, <3>1, <3>3
    <3> HIDE DEF Good
    <3> QED BY <2>1, <3>4
  <2>3. CASE ~(n < b)
    <3>1. Reached(n) = b /\ Reached(n + 1) = b
      BY <1>0, <2>3
    <3> HIDE DEF Reached
    <3>2. walk[n].dev.cur_tx = walk[n].dev.tail
      BY Zenon, <2>1, <3>1 DEF WalkAt, Owns
    <3>3. walk[n + 1] = walk[n]
      BY <2>1, <3>2 DEF TxTurn
    <3>4. Good(n + 1)
      BY <2>1, <3>1, <3>3
    <3> HIDE DEF Good
    <3> QED BY <2>1, <3>4
  <2> HIDE DEF P
  <2> QED BY Zenon, <2>2, <2>3
<1> HIDE DEF P
<1>5. RingGuard \in P
  BY <1>0, <1>3, <1>4, AllNumbers
<1>6. Reached(RingGuard) = b
  BY <1>0
<1>7. WalkAt(walk[RingGuard], t, d, p, b, b, c, w, h)
  BY <1>5, <1>6 DEF P
<1> QED BY <1>2, <1>7

\* The doorbell.
LEMMA DoorbellGood ==
  ASSUME Sizes, Fits, EnetInv, drv.posted \in Nat, NEW w \in Nat,
         NEW h \in MaxFrames .. MaxFrames + drv.posted,
         RxGood(s, drv, w, h), TxGood(s, drv, h), WriteTxTail
  PROVE  /\ \E g \in MaxFrames .. MaxFrames + drv.posted :
              RxGood(s', drv, w, g) /\ TxGood(s', drv, g)
         /\ SameGate(s, s')
<1> DEFINE p == s.cur_tx
           t == [s EXCEPT !.tail = drv.mark]
           u == TxWalk(t, RingGuard)
<1>0. /\ TxLen \in Nat \ {0, 1} /\ RxLen \in Nat \ {0} /\ TxSlot = 0 .. TxLen - 1
      /\ MaxFrames \in Nat /\ h \in Nat /\ h >= MaxFrames /\ h <= MaxFrames + drv.posted
  BY DEF Sizes, TxSlot, Fits
<1>1. PICK c \in 0 .. TxLen - 1 : \E b \in 0 .. c : \E a \in 0 .. b :
        RingOrder(s, drv, a, b, c)
  BY DEF WriteTxTail, EnetInv, TxInv
<1>2. PICK b \in 0 .. c : \E a \in 0 .. b : RingOrder(s, drv, a, b, c)
  BY <1>1
<1>3. /\ Owns(s, p, 0, c) /\ drv.mark = Ahead(p, b) /\ drv.put = Ahead(p, c)
      /\ p # NoRing
  BY <1>2 DEF RingOrder, WriteTxTail
<1>4. s' = (IF TxReady(t) THEN mcxn_enet_update_irq(u) ELSE t)
  BY DEF WriteTxTail, mcxn_enet_tx_process
<1>5. /\ DOMAIN t = Fields /\ t.tx = s.tx /\ t.cur_tx = p /\ t.tail = drv.mark
      /\ t.rx = s.rx /\ t.cur_rx = s.cur_rx /\ t.out = s.out
      /\ t.mac = s.mac /\ t.sr = s.sr
  BY Zenon DEF EnetInv, EnetType, Fields
<1>place. p \in 0 .. TxLen - 1 /\ s.cur_tx = p /\ IsRing(s)
  BY <1>0, <1>3 DEF Owns, EnetInv, EnetType
<1>good. /\ \A k \in 0 .. TxLen - 1 : TxDesc(s, k).own => PostedWell(s, drv, h, k)
         /\ drv.pieces \in 0 .. 1
         /\ drv.pieces = 1 =>
              /\ (MaxFrames + drv.posted + 1) % 2 = 1 /\ drv.put # drv.mark
              /\ \A k \in 0 .. TxLen - 2 : Ahead(p, k + 1) = drv.put =>
                   TxDesc(s, k).own /\ TxDesc(s, k).data = <<MaxFrames + drv.posted + 1, 1>>
  BY Zenon, <1>3 DEF TxGood
<1> HIDE DEF t, p
<1>6. Owns(t, p, 0, c) /\ IsRing(t)
  BY Zenon, <1>3, <1>5, <1>place DEF Owns, IsRing
<1>7. RxGood(t, drv, w, h) /\ TxGood(t, drv, h)
  BY Zenon, <1>5, <1>place, SameRx, SameTx
<1>8. CASE ~TxReady(t)
  <2>1. s' = t
    BY <1>4, <1>8
  <2> QED BY Zenon, <1>5, <1>7, <2>1 DEF SameGate
<1>9. CASE TxReady(t)
  <2>1. Posts(t, drv, h, p, b, c)
    <3> SUFFICES ASSUME NEW k \in 0 .. c - 1 PROVE PostedWell(t, drv, h, k)
      BY Zenon, <1>3, <1>5 DEF Posts
    <3>1. k \in 0 .. TxLen - 1 /\ 0 <= k /\ k < c
      BY <1>0
    <3>2. TxDesc(t, k).own
      BY Zenon, <1>5, <1>6, <3>1 DEF TxDesc, Owns
    <3> QED BY Zenon, <1>3, <1>5, <1>7, <3>1, <3>2 DEF TxGood
  <2>2. PICK x : u = x.dev /\ WalkAt(x, t, drv, p, b, b, c, w, h)
    BY ZenonT(60), <1>0, <1>3, <1>5, <1>6, <1>7, <2>1, WalkGood
  <2> HIDE DEF u
  <2>3. Owns(u, p, b, c) /\ Left(u, t, p, b, c) /\ SameGate(t, u)
    BY Zenon, <2>2 DEF WalkAt
  <2>4. PICK g \in h .. MaxFrames + drv.posted : RxGood(u, drv, w, g) /\ Later(t, p, b, c, g)
    BY Zenon, <2>2 DEF WalkAt
  <2>5. g \in MaxFrames .. MaxFrames + drv.posted /\ g \in Nat /\ g >= h
    BY <1>0
  <2>6. /\ DOMAIN s' = Fields /\ s'.tx = u.tx /\ s'.cur_tx = u.cur_tx
        /\ s'.rx = u.rx /\ s'.cur_rx = u.cur_rx /\ s'.out = u.out
        /\ s'.mac = u.mac /\ s'.sr = u.sr
    BY <1>4, <1>9, <2>3 DEF Owns, mcxn_enet_update_irq, Fields
  <2>7. RxGood(s', drv, w, g)
    BY Zenon, <2>4, <2>6, SameRx
  <2> DEFINE q == Ahead(p, b)
  <2>8. /\ b \in 0 .. TxLen - 1 /\ b \in 0 .. TxLen
    BY <1>0
  <2>ring. /\ \A k \in 0 .. TxLen : Ahead(p, k) \in 0 .. TxLen - 1
           /\ \A j, k \in 0 .. TxLen - 1 : Ahead(p, j) = Ahead(p, k) => j = k
           /\ \A j, k \in 0 .. TxLen - 1 :
                j + k <= TxLen => Ahead(Ahead(p, j), k) = Ahead(p, j + k)
    BY ZenonT(40), <1>place, AheadFacts
  <2>9. u.cur_tx = q /\ Owns(u, q, 0, c - b)
    <3>1. u.cur_tx = q
      BY Zenon, <2>3 DEF Owns
    <3>2. Owns(u, u.cur_tx, 0, c - b)
      BY ZenonT(40), <2>3, OwnsFromThere
    <3> QED BY <3>1, <3>2
  <2> HIDE DEF q
  <2>10. ASSUME NEW k \in 0 .. c - b - 1
         PROVE  /\ b + k \in 0 .. c - 1 /\ b + k \in b .. c - 1 /\ b + k \in 0 .. TxLen - 1
                /\ Ahead(q, k) = Ahead(p, b + k)
                /\ TxDesc(u, k) = TxDesc(t, b + k) /\ PostedWell(t, drv, h, b + k)
                /\ g < Num(TxDesc(t, b + k))
    <3>1. /\ b + k \in 0 .. c - 1 /\ b + k \in b .. c - 1 /\ b + k \in 0 .. TxLen - 1
          /\ k \in 0 .. TxLen - 1 /\ b + k <= TxLen
      BY <1>0
    <3>2. Ahead(q, k) = Ahead(p, b + k)
      BY Zenon, <2>8, <2>ring, <3>1 DEF q
    <3>3. TxDesc(u, k) = TxDesc(t, b + k)
      BY Zenon, <1>5, <2>3, <2>9, <3>1, <3>2 DEF TxDesc, Left
    <3>4. PostedWell(t, drv, h, b + k)
      BY Zenon, <2>1, <3>1 DEF Posts
    <3>5. g < Num(TxDesc(t, b + k))
      BY Zenon, <1>5, <2>4, <3>1 DEF Later, TxDesc
    <3> QED BY Zenon, <3>1, <3>2, <3>3, <3>4, <3>5
  <2>11. ASSUME NEW k \in 0 .. c - b - 1 PROVE PostedWell(u, drv, g, k)
    <3> DEFINE y == TxDesc(t, b + k)
    <3>1. TxDesc(u, k) = y /\ g < Num(y) /\ Ahead(q, k) = Ahead(p, b + k)
      BY <2>10
    <3>2. /\ Sound(y) /\ Num(y) <= MaxFrames + drv.posted + (IF y.ld THEN 0 ELSE 1)
          /\ Place(y) = 2 => /\ b + k > 0 /\ Ahead(p, b + k) # drv.mark
                             /\ TxDesc(t, (b + k) - 1).data = <<Num(y), 1>>
          /\ \A j \in 0 .. (b + k) - 1 : TxDesc(t, j).ld => Num(TxDesc(t, j)) < Num(y)
      <4>1. PostedWell(t, drv, h, b + k) /\ t.cur_tx = p
        BY <1>5, <2>10
      <4>2. Sound(y) /\ Num(y) <= MaxFrames + drv.posted + (IF y.ld THEN 0 ELSE 1)
        BY Zenon, <4>1 DEF PostedWell
      <4>3. Place(y) = 2 => /\ b + k > 0 /\ Ahead(t.cur_tx, b + k) # drv.mark
                            /\ TxDesc(t, (b + k) - 1).data = <<Num(y), 1>>
        BY Zenon, <4>1 DEF PostedWell
      <4>4. \A j \in 0 .. (b + k) - 1 : TxDesc(t, j).ld => Num(TxDesc(t, j)) < Num(y)
        BY Zenon, <4>1 DEF PostedWell
      <4> HIDE DEF y
      <4> QED BY ZenonT(40), <4>1, <4>2, <4>3, <4>4
    <3> HIDE DEF y
    <3>3. ASSUME Place(y) = 2
          PROVE  /\ k > 0 /\ Ahead(u.cur_tx, k) # drv.mark
                 /\ TxDesc(u, k - 1).data = <<Num(y), 1>>
      <4>1. Ahead(p, b + k) # Ahead(p, b) /\ TxDesc(t, (b + k) - 1).data = <<Num(y), 1>>
        BY <1>3, <3>2, <3>3
      <4>2. k # 0
        <5> SUFFICES ASSUME k = 0 PROVE FALSE
          OBVIOUS
        <5>1. b + k = b
          BY <1>0
        <5> QED BY Zenon, <4>1, <5>1
      <4>3. k > 0 /\ k - 1 \in 0 .. c - b - 1 /\ b + (k - 1) = (b + k) - 1
        BY SMTT(30), Z3T(30), <1>0, <4>2
      <4>4. TxDesc(u, k - 1) = TxDesc(t, (b + k) - 1)
        BY <2>10, <4>3
      <4> QED BY ZenonT(40), <1>3, <2>9, <3>1, <4>1, <4>3, <4>4
    <3>4. ASSUME NEW j \in 0 .. k - 1, TxDesc(u, j).ld PROVE Num(TxDesc(u, j)) < Num(y)
      <4>1. j \in 0 .. c - b - 1 /\ b + j \in 0 .. (b + k) - 1
        BY <1>0
      <4>2. TxDesc(u, j) = TxDesc(t, b + j)
        BY <2>10, <4>1
      <4> QED BY Zenon, <3>2, <3>4, <4>1, <4>2
    <3> QED BY Zenon, <3>1, <3>2, <3>3, <3>4 DEF PostedWell
  <2>12. ASSUME NEW k \in 0 .. TxLen - 1, TxDesc(u, k).own PROVE PostedWell(u, drv, g, k)
    <3>1. 0 <= k /\ k < c - b
      BY Zenon, <2>9, <2>12 DEF Owns, TxDesc
    <3>2. k \in 0 .. c - b - 1
      BY SMTT(30), Z3T(30), <1>0, <3>1
    <3> QED BY <2>11, <3>2
  <2>13. ASSUME drv.pieces = 1, NEW k \in 0 .. TxLen - 2, Ahead(q, k + 1) = drv.put
         PROVE  TxDesc(u, k).own /\ TxDesc(u, k).data = <<MaxFrames + drv.posted + 1, 1>>
    <3>1. /\ c - b \in 0 .. TxLen - 1 /\ b + (c - b) <= TxLen /\ b + (c - b) = c
          /\ k + 1 \in 0 .. TxLen - 1
      BY <1>0
    <3>2. Ahead(q, c - b) = drv.put
      <4>1. Ahead(Ahead(p, b), c - b) = Ahead(p, b + (c - b))
        BY Zenon, <2>8, <2>ring, <3>1
      <4> QED BY Zenon, <1>3, <3>1, <4>1 DEF q
    <3>3. q \in 0 .. TxLen - 1
      BY <2>8, <2>ring DEF q
    <3>4. k + 1 = c - b
      <4>1. \A l, m \in 0 .. TxLen - 1 : Ahead(q, l) = Ahead(q, m) => l = m
        BY ZenonT(40), <3>3, AheadFacts
      <4> QED BY Zenon, <2>13, <3>1, <3>2, <4>1
    <3>5. k \in 0 .. c - b - 1 /\ b + k \in 0 .. TxLen - 2 /\ (b + k) + 1 = c
      BY <1>0, <3>4
    <3>6. TxDesc(s, b + k).own /\ TxDesc(s, b + k).data = <<MaxFrames + drv.posted + 1, 1>>
      BY Zenon, <1>3, <1>good, <2>13, <3>5
    <3>7. TxDesc(u, k) = TxDesc(s, b + k)
      <4>1. TxDesc(u, k) = TxDesc(t, b + k)
        BY <2>10, <3>5
      <4> QED BY Zenon, <1>5, <1>place, <4>1 DEF TxDesc
    <3> QED BY <3>6, <3>7
  <2>14. TxGood(u, drv, g)
    BY Zenon, <1>good, <2>9, <2>12, <2>13 DEF TxGood
  <2>15. TxGood(s', drv, g)
    BY Zenon, <2>6, <2>14, SameTx
  <2>16. SameGate(s, s')
    BY Zenon, <1>5, <2>3, <2>6 DEF SameGate
  <2> QED BY <2>5, <2>7, <2>15, <2>16
<1> QED BY <1>8, <1>9

-----------------------------------------------------------------------------
\* The driver's side of the receiver is its slot, the part it has and what it got.
LEMMA SameTaker ==
  ASSUME NEW t, NEW d, NEW e, NEW w, NEW h, RxGood(t, d, w, h),
         e.take = d.take, e.part = d.part, e.got = d.got
  PROVE  RxGood(t, e, w, h)
<1>1. \A r : RxHolds(t, d, r, w, h) => RxHolds(t, e, r, w, h)
  BY Zenon DEF RxHolds
<1> QED BY Zenon, <1>1 DEF RxGood

\* The frames, for the number h of the last frame of the driver's that left.
Goes(t, d, w, h) == RxGood(t, d, w, h) /\ TxGood(t, d, h)

\* A step that touches neither ring.
LEMMA QuietGood ==
  ASSUME NEW t, NEW u, NEW d, NEW w, NEW h, Goes(t, d, w, h), DOMAIN u = Fields,
         u.rx = t.rx, u.cur_rx = t.cur_rx, u.out = t.out, u.tx = t.tx, u.cur_tx = t.cur_tx
  PROVE  Goes(u, d, w, h)
<1>1. RxGood(t, d, w, h) /\ TxGood(t, d, h)
  BY DEF Goes
<1>2. RxGood(u, d, w, h)
  BY Zenon, <1>1, SameRx
<1>3. TxGood(u, d, h)
  BY ZenonT(40), <1>1, SameTx
<1> QED BY Zenon, <1>2, <1>3 DEF Goes

\* A step that delivers what the net layer held back.
LEMMA FlushStep ==
  ASSUME Sizes, Fits, EnetInv, FrameInv, NEW t, DOMAIN t = Fields, t.rx = s.rx,
         t.cur_rx = s.cur_rx, t.out = s.out, t.tx = s.tx, t.cur_tx = s.cur_tx
  PROVE  /\ DOMAIN Flushed(t, netq) = Fields
         /\ \E h \in MaxFrames .. MaxFrames + drv.posted :
              Goes(Flushed(t, netq), drv, arrived, h)
<1> DEFINE u == Flushed(t, netq)
           w == Behind
<1>0. /\ Len(netq) \in Nat /\ arrived \in Nat /\ w \in Nat /\ w + Len(netq) = arrived
      /\ w + Len(netq) <= MaxFrames /\ drv.posted \in Nat /\ MaxFrames \in Nat
      /\ \A i \in 1 .. Len(netq) : netq[i] = Frame(w + i)
  <2>1. netq \in Seq({Frame(f) : f \in Nat}) /\ arrived \in Nat
    BY DEF EnetInv, EnetType
  <2>2. Len(netq) \in Nat
    BY <2>1
  <2>3. NetGood /\ drv.posted \in Nat
    BY DEF FrameInv
  <2> QED BY <2>1, <2>2, <2>3 DEF NetGood, Behind, Fits
<1>1. PICK h \in MaxFrames .. MaxFrames + drv.posted : RxGood(s, drv, w, h) /\ TxGood(s, drv, h)
  BY DEF FrameInv
<1>2. h \in Nat
  BY <1>0
<1> HIDE DEF w
<1>3. Goes(t, drv, w, h)
  BY Zenon, <1>1, QuietGood DEF Goes
<1>4. RxGood(t, drv, w, h) /\ TxGood(t, drv, h)
  BY <1>3 DEF Goes
<1>5. RxGood(u, drv, w + Len(netq), h)
  BY ZenonT(40), <1>0, <1>2, <1>4, FlushGood
<1>6. RxGood(u, drv, arrived, h)
  BY Zenon, <1>0, <1>5
<1>7. KeepsTx(t, u)
  BY <1>0, FlushKeeps
<1> HIDE DEF u
<1>8. DOMAIN u = Fields /\ TxGood(u, drv, h)
  BY Zenon, <1>4, <1>7, SameTx DEF KeepsTx
<1> QED BY <1>6, <1>8 DEF Goes, u

\* Nothing waits in an empty queue.
LEMMA NoneWait == Len(<< >>) = 0 /\ \A n \in Nat : n - 0 = n
OBVIOUS

\* After a step that empties the queue.
LEMMA EmptiedGood ==
  ASSUME Fits, EnetInv, FrameInv, netq' = << >>, arrived' \in Nat, arrived' <= MaxFrames,
         drv' = drv, \E h \in MaxFrames .. MaxFrames + drv.posted : Goes(s', drv, arrived', h)
  PROVE  FrameInv'
<1>1. Len(netq') = 0 /\ arrived' - Len(netq') = arrived'
  BY Zenon, NoneWait
<1>2. NetGood'
  <2>1. \A i \in 1 .. Len(netq') : netq'[i] = Frame(arrived' - Len(netq') + i)
    BY <1>1
  <2> QED BY Zenon, <1>1, <2>1 DEF NetGood, Behind, mcxn_enet_can_receive
<1>3. Behind' = arrived' /\ drv'.posted \in Nat
  BY ZenonT(40), <1>1 DEF Behind, FrameInv
<1> QED BY Zenon, <1>2, <1>3 DEF FrameInv, Goes

\* After a step that leaves the queue as it is.
LEMMA WaitingGood ==
  ASSUME FrameInv, netq' = netq, arrived' = arrived,
         mcxn_enet_can_receive(s') => mcxn_enet_can_receive(s), drv'.posted \in Nat,
         \E h \in MaxFrames .. MaxFrames + drv'.posted : Goes(s', drv', Behind, h)
  PROVE  FrameInv'
<1>1. Behind' = Behind
  BY DEF Behind
<1>2. NetGood'
  BY Zenon, <1>1 DEF FrameInv, NetGood, mcxn_enet_can_receive
<1> QED BY Zenon, <1>1, <1>2 DEF FrameInv, Goes

\* A frame from the network.
LEMMA ArrivalGood ==
  ASSUME Sizes, Fits, EnetInv, FrameInv, qemu_net_queue_send
  PROVE  FrameInv'
<1> DEFINE f == arrived + 1
           u == mcxn_enet_deliver(s, Frame(f))
<1>0. /\ netq \in Seq({Frame(x) : x \in Nat}) /\ arrived \in Nat /\ DOMAIN s = Fields
      /\ drv' = drv /\ arrived' = arrived + 1
  BY DEF EnetInv, EnetType, qemu_net_queue_send
<1>1. /\ NetGood /\ drv.posted \in Nat /\ MaxFrames \in Nat /\ Len(netq) \in Nat
      /\ Behind = arrived - Len(netq) /\ Behind \in Nat
      /\ \A i \in 1 .. Len(netq) : netq[i] = Frame(Behind + i)
  BY <1>0 DEF FrameInv, Fits, NetGood, Behind
<1>2. f \in Nat /\ f <= MaxFrames /\ arrived <= f
  BY <1>0, <1>1 DEF qemu_net_queue_send
<1>3. PICK h \in MaxFrames .. MaxFrames + drv.posted :
        RxGood(s, drv, Behind, h) /\ TxGood(s, drv, h)
  BY DEF FrameInv
<1>4. h \in Nat /\ h <= h
  BY <1>1
<1>5. CASE mcxn_enet_can_receive(s)
  <2>1. netq = << >> /\ Len(netq) = 0 /\ Behind = arrived
    <3>1. netq = << >>
      BY <1>1, <1>5 DEF NetGood
    <3>2. Len(netq) = 0
      BY <3>1
    <3> QED BY <1>0, <1>1, <3>1, <3>2
  <2>2. s' = Flushed(u, netq) /\ netq' = << >>
    BY <1>5 DEF qemu_net_queue_send
  <2>3. Past(f, arrived, h) /\ UpTo(f, f, h)
    BY <1>0, <1>1, <1>2 DEF Past, UpTo
  <2> HIDE DEF f
  <2>4. RxGood(u, drv, f, h)
    <3>1. RxGood(s, drv, arrived, h)
      BY <1>3, <2>1
    <3> QED BY ZenonT(40), <1>0, <1>2, <1>4, <2>3, <3>1, DeliverGood
  <2>5. KeepsTx(s, u)
    BY <1>0, DeliverKeeps
  <2> HIDE DEF u
  <2>6. DOMAIN u = Fields /\ TxGood(u, drv, h)
    BY Zenon, <1>3, <2>5, SameTx DEF KeepsTx
  <2>7. RxGood(Flushed(u, netq), drv, f + Len(netq), h)
    <3>1. f + Len(netq) <= MaxFrames /\ \A i \in 1 .. Len(netq) : netq[i] = Frame(f + i)
      BY <1>2, <2>1
    <3> QED BY ZenonT(40), <1>1, <1>2, <1>4, <2>4, <3>1, FlushGood
  <2>8. f + Len(netq) = f
    BY <1>2, <2>1
  <2>9. KeepsTx(u, s')
    BY <1>1, <2>2, <2>6, FlushKeeps
  <2>10. TxGood(s', drv, h)
    BY Zenon, <2>6, <2>9, SameTx DEF KeepsTx
  <2>11. Goes(s', drv, arrived', h)
    BY Zenon, <1>0, <2>2, <2>7, <2>8, <2>10 DEF Goes, f
  <2>12. arrived' \in Nat /\ arrived' <= MaxFrames
    BY <1>0, <1>2 DEF f
  <2> QED BY Zenon, <1>0, <1>3, <2>2, <2>11, <2>12, EmptiedGood
<1>6. CASE ~mcxn_enet_can_receive(s)
  <2> HIDE DEF u
  <2>1. s' = s /\ netq' = Append(netq, Frame(f))
    BY <1>6 DEF qemu_net_queue_send
  <2>2. Frame(f) \in {Frame(x) : x \in Nat}
    BY <1>2
  <2> HIDE DEF f
  <2>3. /\ Len(netq') = Len(netq) + 1 /\ netq'[Len(netq) + 1] = Frame(f)
        /\ \A i \in 1 .. Len(netq) : netq'[i] = netq[i]
    BY SMTT(30), Z3T(30), <1>0, <2>1, <2>2, Appended
  <2>4. Behind' = Behind
    <3>1. Behind' = arrived' - Len(netq')
      BY DEF Behind
    <3> QED BY SMTT(30), Z3T(30), <1>0, <1>1, <2>3, <3>1
  <2>5. ASSUME NEW i \in 1 .. Len(netq') PROVE netq'[i] = Frame(Behind + i)
    <3>1. CASE i = Len(netq) + 1
      <4>1. Behind + i = f
        BY <1>0, <1>1, <3>1 DEF f
      <4> QED BY <2>3, <3>1, <4>1
    <3>2. CASE i \in 1 .. Len(netq)
      BY <1>1, <2>3, <3>2
    <3> QED BY SMTT(30), Z3T(30), <1>1, <2>3, <3>1, <3>2
  <2>6. arrived' <= MaxFrames
    BY <1>0, <1>2 DEF f
  <2>7. NetGood'
    BY Zenon, <1>1, <1>6, <2>1, <2>4, <2>5, <2>6 DEF NetGood, mcxn_enet_can_receive
  <2> QED BY Zenon, <1>0, <1>1, <1>3, <2>1, <2>4, <2>7 DEF FrameInv
<1> QED BY <1>5, <1>6

\* A register write that may turn the receiver on.
LEMMA StoreGood ==
  ASSUME Sizes, Fits, EnetInv, FrameInv, NEW t, DOMAIN t = Fields, t.rx = s.rx,
         t.cur_rx = s.cur_rx, t.out = s.out, t.tx = s.tx, t.cur_tx = s.cur_tx, StoreAndFlush(t)
  PROVE  FrameInv'
<1>0. /\ arrived \in Nat /\ arrived <= MaxFrames /\ drv.posted \in Nat
      /\ arrived' = arrived /\ drv' = drv
  BY DEF EnetInv, EnetType, FrameInv, NetGood, StoreAndFlush
<1>1. CASE mcxn_enet_can_receive(t)
  <2>1. s' = Flushed(t, netq) /\ netq' = << >>
    BY <1>1 DEF StoreAndFlush
  <2>2. \E h \in MaxFrames .. MaxFrames + drv.posted : Goes(Flushed(t, netq), drv, arrived, h)
    BY ZenonT(40), FlushStep
  <2> QED BY Zenon, <1>0, <2>1, <2>2, EmptiedGood
<1>2. CASE ~mcxn_enet_can_receive(t)
  <2>1. s' = t /\ netq' = netq
    BY Zenon, <1>2 DEF StoreAndFlush
  <2>2. PICK h \in MaxFrames .. MaxFrames + drv.posted :
          RxGood(s, drv, Behind, h) /\ TxGood(s, drv, h)
    BY DEF FrameInv
  <2>3. Goes(t, drv, Behind, h)
    BY Zenon, <2>2, QuietGood DEF Goes
  <2> QED BY Zenon, <1>0, <1>2, <2>1, <2>3, WaitingGood
<1> QED BY Zenon, <1>1, <1>2

\* Every step of the ENET's machine keeps the frames whole and in order.
LEMMA FrameStep ==
  ASSUME Sizes, Fits, EnetInv, FrameInv, EnetNext
  PROVE  FrameInv'
<1>0. /\ DOMAIN s = Fields /\ DOMAIN drv = Notes /\ arrived \in Nat /\ Behind \in Nat
      /\ arrived <= MaxFrames /\ drv.posted \in Nat /\ MaxFrames \in Nat
      /\ mcxn_enet_can_receive(s) => netq = << >>
  BY DEF EnetInv, EnetType, FrameInv, NetGood, Fits
<1>1. PICK h \in MaxFrames .. MaxFrames + drv.posted :
        RxGood(s, drv, Behind, h) /\ TxGood(s, drv, h)
  BY DEF FrameInv
<1>2. h \in Nat
  BY <1>0
<1>3. Goes(s, drv, Behind, h)
  BY <1>1 DEF Goes
<1>4. CASE qemu_net_queue_send
  BY <1>4, ArrivalGood
<1>5. ASSUME NEW v \in MacIn, WriteMacConfiguration(v) PROVE FrameInv'
  <2> DEFINE t == [s EXCEPT !.mac = v]
  <2>1. /\ DOMAIN t = Fields /\ t.rx = s.rx /\ t.cur_rx = s.cur_rx /\ t.out = s.out
        /\ t.tx = s.tx /\ t.cur_tx = s.cur_tx
    BY <1>0 DEF Fields
  <2>2. StoreAndFlush(t)
    BY <1>5 DEF WriteMacConfiguration
  <2> HIDE DEF t
  <2> QED BY <2>1, <2>2, StoreGood
<1>6. ASSUME NEW v \in BOOLEAN, WriteRxCtrl(v) PROVE FrameInv'
  <2> DEFINE t == [s EXCEPT !.sr = v]
  <2>1. /\ DOMAIN t = Fields /\ t.rx = s.rx /\ t.cur_rx = s.cur_rx /\ t.out = s.out
        /\ t.tx = s.tx /\ t.cur_tx = s.cur_tx
    BY <1>0 DEF Fields
  <2>2. StoreAndFlush(t)
    BY <1>6 DEF WriteRxCtrl
  <2> HIDE DEF t
  <2> QED BY <2>1, <2>2, StoreGood
<1>7. ASSUME \/ \E v \in BOOLEAN : WriteTxCtrl(v)
             \/ WriteStatus
             \/ \E v \in IntIn : WriteIntEn(v)
      PROVE  FrameInv'
  <2>1. /\ DOMAIN s' = Fields /\ s'.rx = s.rx /\ s'.cur_rx = s.cur_rx /\ s'.out = s.out
        /\ s'.tx = s.tx /\ s'.cur_tx = s.cur_tx /\ SameGate(s, s')
    <3>1. CASE \E v \in BOOLEAN : WriteTxCtrl(v)
      BY <1>0, <3>1 DEF WriteTxCtrl, Fields, SameGate
    <3>2. CASE WriteStatus
      BY <1>0, <3>2 DEF WriteStatus, mcxn_enet_update_irq, Fields, SameGate
    <3>3. CASE \E v \in IntIn : WriteIntEn(v)
      BY <1>0, <3>3 DEF WriteIntEn, mcxn_enet_update_irq, Fields, SameGate
    <3> QED BY <1>7, <3>1, <3>2, <3>3
  <2>2. netq' = netq /\ arrived' = arrived /\ drv' = drv
    BY ZenonT(40), <1>7 DEF WriteTxCtrl, WriteStatus, WriteIntEn
  <2>3. Goes(s', drv', Behind, h)
    BY Zenon, <1>3, <2>1, <2>2, QuietGood
  <2>4. mcxn_enet_can_receive(s') => mcxn_enet_can_receive(s)
    BY Zenon, <2>1 DEF SameGate, mcxn_enet_can_receive
  <2> QED BY ZenonT(40), <1>0, <2>2, <2>3, <2>4, WaitingGood
<1>8. CASE WriteRxTail
  <2>1. s' = Flushed(s, netq) /\ netq' = << >> /\ arrived' = arrived /\ drv' = drv
    BY <1>8 DEF WriteRxTail
  <2>2. \E g \in MaxFrames .. MaxFrames + drv.posted : Goes(Flushed(s, netq), drv, arrived, g)
    BY ZenonT(40), <1>0, FlushStep
  <2> QED BY Zenon, <1>0, <2>1, <2>2, EmptiedGood
<1>9. CASE VmStop
  <2> DEFINE u == Flushed(s, netq)
  <2>1. s' = mcxn_enet_update_irq(u) /\ netq' = << >> /\ arrived' = arrived /\ drv' = drv
    BY <1>9 DEF VmStop
  <2>2. DOMAIN u = Fields /\ \E g \in MaxFrames .. MaxFrames + drv.posted : Goes(u, drv, arrived, g)
    BY ZenonT(40), <1>0, FlushStep
  <2> HIDE DEF u
  <2>3. PICK g \in MaxFrames .. MaxFrames + drv.posted : Goes(u, drv, arrived, g)
    BY <2>2
  <2>4. /\ DOMAIN s' = Fields /\ s'.rx = u.rx /\ s'.cur_rx = u.cur_rx /\ s'.out = u.out
        /\ s'.tx = u.tx /\ s'.cur_tx = u.cur_tx
    BY <2>1, <2>2 DEF mcxn_enet_update_irq, Fields
  <2>5. Goes(s', drv, arrived, g)
    BY Zenon, <2>3, <2>4, QuietGood
  <2> QED BY Zenon, <1>0, <2>1, <2>5, EmptiedGood
<1>10. CASE mcxn_enet_reset
  <2>1. /\ DOMAIN s' = Fields /\ s'.rx = s.rx /\ s'.tx = s.tx /\ s'.out = s.out
        /\ s'.cur_rx = NoRing /\ s'.cur_tx = NoRing /\ s'.mac = {}
        /\ drv'.got = drv.got /\ drv'.posted = drv.posted /\ netq' = netq /\ arrived' = arrived
    BY <1>0, <1>10 DEF mcxn_enet_reset, Regs, Fields, Notes
  <2>2. RxRing(s')
    BY Zenon, <1>1, <2>1 DEF RxGood, RxRing
  <2>3. Goes(s', drv', Behind, h)
    BY Zenon, <1>1, <2>1, <2>2 DEF RxGood, TxGood, Goes
  <2>4. ~mcxn_enet_can_receive(s')
    BY <2>1 DEF mcxn_enet_can_receive
  <2> QED BY Zenon, <1>0, <2>1, <2>3, <2>4, WaitingGood
<1>11. CASE SetupRx
  <2>1. RxGood(s', drv', Behind, h)
    BY Zenon, <1>0, <1>1, <1>2, <1>11, SetupGood
  <2>2. /\ s'.tx = s.tx /\ s'.cur_tx = s.cur_tx /\ SameGate(s, s') /\ netq' = netq
        /\ arrived' = arrived /\ drv'.posted = drv.posted /\ drv'.pieces = drv.pieces
        /\ drv'.put = drv.put /\ drv'.mark = drv.mark
    BY <1>0, <1>11 DEF SetupRx, Fields, Notes, SameGate
  <2>3. TxGood(s', drv', h)
    BY Zenon, <1>1, <2>2, SameTx
  <2>4. mcxn_enet_can_receive(s') => mcxn_enet_can_receive(s)
    BY Zenon, <2>2 DEF SameGate, mcxn_enet_can_receive
  <2> QED BY Zenon, <1>0, <2>1, <2>2, <2>3, <2>4, WaitingGood DEF Goes
<1>12. CASE RxTake
  <2>1. RxGood(s', drv', Behind, h)
    BY Zenon, <1>0, <1>1, <1>2, <1>12, TakeGood
  <2>2. /\ s'.tx = s.tx /\ s'.cur_tx = s.cur_tx /\ SameGate(s, s') /\ netq' = netq
        /\ arrived' = arrived /\ drv'.posted = drv.posted /\ drv'.pieces = drv.pieces
        /\ drv'.put = drv.put /\ drv'.mark = drv.mark
    BY Zenon, <1>0, <1>12 DEF RxTake, Fields, Notes, SameGate
  <2>3. TxGood(s', drv', h)
    BY Zenon, <1>1, <2>2, SameTx
  <2>4. mcxn_enet_can_receive(s') => mcxn_enet_can_receive(s)
    BY Zenon, <2>2 DEF SameGate, mcxn_enet_can_receive
  <2> QED BY Zenon, <1>0, <2>1, <2>2, <2>3, <2>4, WaitingGood DEF Goes
<1>13. CASE SetupTx
  <2>1. /\ DOMAIN s' = Fields /\ s'.rx = s.rx /\ s'.cur_rx = s.cur_rx /\ s'.out = s.out
        /\ s'.tx = [i \in TxSlot |-> Spent] /\ s'.cur_tx = 0 /\ SameGate(s, s')
        /\ netq' = netq /\ arrived' = arrived /\ drv'.posted = drv.posted /\ drv'.pieces = 0
        /\ drv'.take = drv.take /\ drv'.part = drv.part /\ drv'.got = drv.got
    BY <1>0, <1>13 DEF SetupTx, Fields, Notes, SameGate
  <2>2. RxGood(s', drv, Behind, h)
    BY Zenon, <1>1, <2>1, SameRx
  <2>3. RxGood(s', drv', Behind, h)
    BY Zenon, <2>1, <2>2, SameTaker
  <2>4. ASSUME NEW k \in 0 .. TxLen - 1 PROVE ~TxDesc(s', k).own
    <3>1. TxLen \in Nat \ {0} /\ 0 \in 0 .. TxLen - 1 /\ k \in 0 .. TxLen
      BY DEF Sizes
    <3>2. Ahead(0, k) \in 0 .. TxLen - 1
      BY Zenon, <3>1, AheadFacts
    <3>3. s'.tx[Ahead(0, k)] = Spent
      BY <2>1, <3>2 DEF TxSlot
    <3>4. TxDesc(s', k) = Spent
      BY Zenon, <2>1, <3>3 DEF TxDesc
    <3> QED BY <3>4 DEF Spent
  <2>5. TxGood(s', drv', h)
    <3>1. drv'.pieces \in 0 .. 1 /\ drv'.pieces # 1
      BY <2>1
    <3> QED BY Zenon, <2>4, <3>1 DEF TxGood
  <2>6. mcxn_enet_can_receive(s') => mcxn_enet_can_receive(s)
    BY Zenon, <2>1 DEF SameGate, mcxn_enet_can_receive
  <2> QED BY Zenon, <1>0, <2>1, <2>3, <2>5, <2>6, WaitingGood DEF Goes
<1>14. ASSUME NEW ioc \in BOOLEAN, TxPut(ioc) PROVE FrameInv'
  <2>1. TxGood(s', drv', h) /\ drv'.posted \in Nat /\ drv'.posted >= drv.posted
    BY Zenon, <1>0, <1>1, <1>14, PostGood
  <2>2. /\ DOMAIN s' = Fields /\ s'.rx = s.rx /\ s'.cur_rx = s.cur_rx /\ s'.out = s.out
        /\ SameGate(s, s') /\ netq' = netq /\ arrived' = arrived
        /\ drv'.take = drv.take /\ drv'.part = drv.part /\ drv'.got = drv.got
    BY <1>0, <1>14 DEF TxPut, Fields, Notes, SameGate
  <2>3. RxGood(s', drv, Behind, h)
    BY Zenon, <1>1, <2>2, SameRx
  <2>4. RxGood(s', drv', Behind, h)
    BY Zenon, <2>2, <2>3, SameTaker
  <2>5. mcxn_enet_can_receive(s') => mcxn_enet_can_receive(s)
    BY Zenon, <2>2 DEF SameGate, mcxn_enet_can_receive
  <2>6. h \in MaxFrames .. MaxFrames + drv'.posted
    BY <1>0, <1>1, <2>1
  <2> QED BY Zenon, <2>1, <2>2, <2>4, <2>5, <2>6, WaitingGood DEF Goes
<1>15. CASE WriteTxTail
  <2>1. netq' = netq /\ arrived' = arrived /\ drv' = drv
    BY <1>15 DEF WriteTxTail
  <2>2. /\ \E g \in MaxFrames .. MaxFrames + drv.posted :
             RxGood(s', drv, Behind, g) /\ TxGood(s', drv, g)
        /\ SameGate(s, s')
    BY ZenonT(40), <1>0, <1>1, <1>15, DoorbellGood
  <2>3. mcxn_enet_can_receive(s') => mcxn_enet_can_receive(s)
    BY Zenon, <2>2 DEF SameGate, mcxn_enet_can_receive
  <2> QED BY Zenon, <1>0, <2>1, <2>2, <2>3, WaitingGood DEF Goes
<1> QED BY Zenon, <1>4, <1>5, <1>6, <1>7, <1>8, <1>9, <1>10, <1>11, <1>12, <1>13, <1>14, <1>15
        DEF EnetNext

\* Out of reset nothing was received or sent.
LEMMA FrameInitInv ==
  ASSUME Sizes, Fits, EnetInit
  PROVE  FrameInv
<1>0. MaxFrames \in Nat /\ Len(<< >>) = 0
  BY ZenonT(40) DEF Fits
<1>1. /\ DOMAIN s = Fields /\ s.rx = [i \in RxSlot |-> Free] /\ s.cur_rx = NoRing
      /\ s.cur_tx = NoRing /\ s.out = << >> /\ s.mac = {}
  BY DEF EnetInit, Regs, Fields
<1>2. drv.got = << >> /\ drv.posted = 0 /\ arrived = 0 /\ netq = << >>
  BY DEF EnetInit
<1>3. NetGood /\ Behind = 0
  <2>0. 0 \in Nat
    OBVIOUS
  <2>1. Behind = 0
    BY Zenon, <1>2, <2>0, NoneWait DEF Behind
  <2>2. \A i \in 1 .. Len(netq) : netq[i] = Frame(Behind + i)
    BY <1>0, <1>2
  <2> QED BY <1>0, <1>2, <2>1, <2>2 DEF NetGood
<1>4. RxRing(s)
  <2>1. Free.own \in BOOLEAN
    BY Zenon DEF Free
  <2> QED BY <1>1, <2>1 DEF RxRing
<1>5. InSequence(s.out, 0, MaxFrames) /\ InSequence(drv.got, 0, MaxFrames)
  BY <1>0, <1>1, <1>2 DEF InSequence
<1>6. s.out \in Seq({Frame(f) : f \in Nat}) /\ drv.got \in Seq({Frame(f) : f \in Nat})
  <2> DEFINE F == {Frame(f) : f \in Nat}
  <2> HIDE DEF F
  <2>1. s.out \in Seq(F) /\ drv.got \in Seq(F)
    BY <1>1, <1>2
  <2> QED BY Zenon, <2>1 DEF F
<1>7. RxGood(s, drv, Behind, MaxFrames) /\ TxGood(s, drv, MaxFrames)
  BY Zenon, <1>1, <1>3, <1>4, <1>5, <1>6 DEF RxGood, TxGood
<1>8. drv.posted \in Nat /\ MaxFrames \in MaxFrames .. MaxFrames + drv.posted
  BY <1>0, <1>2
<1> QED BY Zenon, <1>3, <1>7, <1>8 DEF FrameInv

\* The frames the invariant describes are whole and in order.
LEMMA InOrderIsWhole ==
  ASSUME NEW frames, NEW w, NEW h, InSequence(frames, w, h), NEW i \in 1 .. Len(frames)
  PROVE  /\ frames[i] = Frame(Id(frames[i]))
         /\ \A j \in 1 .. i - 1 :
              FromWire(frames[j]) = FromWire(frames[i]) => Id(frames[j]) < Id(frames[i])
BY Zenon DEF InSequence, Alike, FromWire

\* So the invariant says what FramesWhole says of the driver's and the network's frames.
LEMMA WholeFromInv ==
  ASSUME FrameInv
  PROVE  FramesWhole
<1>1. PICK h : RxGood(s, drv, Behind, h)
  BY DEF FrameInv
<1>2. InSequence(s.out, 0, h) /\ InSequence(drv.got, Behind, h)
  BY <1>1 DEF RxGood
<1>3. \A frames \in {drv.got, s.out} : \E w : InSequence(frames, w, h)
  BY Zenon, <1>2
<1> QED BY Zenon, <1>3, InOrderIsWhole DEF FramesWhole

-----------------------------------------------------------------------------
\* The last piece of frame f is in the ring, for the driver to take.
InHand(t, f) ==
  \E i \in RxSlot : ~t.rx[i].own /\ t.rx[i].ld /\ t.rx[i].data = <<f, 1 + (f % 2)>>

OutOf(t) == t.cur_rx = NoRing \/ ("RBU" \in t.status /\ ~t.rx[t.cur_rx].own)

Safe(t, f) == InHand(t, f) \/ OutOf(t)

\* A delivery to a receiver that runs puts the frame into the ring or says that it is
\* out of buffers, and overwrites no other frame.
LEMMA DeliverSafe ==
  ASSUME Sizes, Fits, NEW t, RxRing(t), mcxn_enet_can_receive(t), NEW f \in Nat
  PROVE  /\ RxRing(mcxn_enet_deliver(t, Frame(f)))
         /\ mcxn_enet_can_receive(mcxn_enet_deliver(t, Frame(f)))
         /\ Safe(mcxn_enet_deliver(t, Frame(f)), f)
         /\ \A g : Safe(t, g) => Safe(mcxn_enet_deliver(t, Frame(f)), g)
<1> DEFINE z == mcxn_enet_deliver(t, Frame(f))
           c == t.cur_rx
<1>0. \/ z = t /\ c = NoRing
      \/ c \in RxSlot /\ \E m \in 0 .. 1 + (f % 2) : Stored(t, z, f, m)
  BY DeliverStores DEF Fits
<1> HIDE DEF z
<1>1. CASE z = t /\ c = NoRing
  BY Zenon, <1>1 DEF Safe, OutOf, z
<1>2. CASE c \in RxSlot /\ \E m \in 0 .. 1 + (f % 2) : Stored(t, z, f, m)
  <2>0. PICK m \in 0 .. 1 + (f % 2) : Stored(t, z, f, m)
    BY Zenon, <1>2
  <2>1. /\ DOMAIN z = Fields /\ z.mac = t.mac /\ z.sr = t.sr /\ m <= RxLen
        /\ \A k \in 0 .. m - 1 : t.rx[RxAhead(c, k)].own
        /\ z.cur_rx = RxAhead(c, m) /\ z.cur_rx \in RxSlot /\ DOMAIN z.rx = RxSlot
        /\ t.status \subseteq z.status
        /\ m < 1 + (f % 2) => "RBU" \in z.status /\ ~z.rx[z.cur_rx].own
    BY ZenonT(40), <2>0 DEF Stored
  <2>2. \A i \in RxSlot : z.rx[i] = IF RxFrom(c, i) < m THEN Piece(f, RxFrom(c, i) + 1)
                                    ELSE t.rx[i]
    BY <2>0 DEF Stored
  <2>3. /\ RxLen \in Nat \ {0} /\ f % 2 \in 0 .. 1 /\ m \in 0 .. 2
    BY DEF Sizes
  <2>ring. /\ \A k \in 0 .. RxLen : RxAhead(c, k) \in RxSlot
           /\ \A i \in RxSlot : RxFrom(c, i) \in 0 .. RxLen - 1 /\ RxAhead(c, RxFrom(c, i)) = i
           /\ \A k \in 0 .. RxLen - 1 : RxFrom(c, RxAhead(c, k)) = k
           /\ RxAhead(c, 0) = c
    BY <1>2, RxAheadFacts
  <2>4. RxRing(z)
    <3>1. \A k : Piece(f, k).own = FALSE
      BY Zenon DEF Piece
    <3>2. \A i \in RxSlot : t.rx[i].own \in BOOLEAN
      BY DEF RxRing
    <3>3. \A i \in RxSlot : z.rx[i].own \in BOOLEAN
      BY Zenon, <2>2, <3>1, <3>2
    <3> QED BY Zenon, <2>1, <3>3 DEF RxRing
  <2>5. mcxn_enet_can_receive(z)
    BY Zenon, <2>1 DEF mcxn_enet_can_receive
  <2>6. Safe(z, f)
    <3>1. CASE m < 1 + (f % 2)
      BY Zenon, <2>1, <3>1 DEF Safe, OutOf
    <3>2. CASE m = 1 + (f % 2)
      <4> DEFINE k == f % 2
                 i == RxAhead(c, k)
      <4>1. k \in 0 .. RxLen - 1 /\ k < m /\ k + 1 = 1 + (f % 2) /\ k \in 0 .. RxLen
        BY <2>1, <2>3, <3>2
      <4> HIDE DEF k
      <4>2. i \in RxSlot /\ RxFrom(c, i) = k
        BY Zenon, <2>ring, <4>1
      <4> HIDE DEF i
      <4>3. z.rx[i] = Piece(f, 1 + (f % 2))
        BY Zenon, <2>2, <4>1, <4>2
      <4>4. \A x : /\ ~Piece(f, x).own /\ Piece(f, x).data = <<f, x>>
                    /\ Piece(f, x).ld = (x = 1 + (f % 2))
        BY DEF Piece
      <4>5. ~z.rx[i].own /\ z.rx[i].ld /\ z.rx[i].data = <<f, 1 + (f % 2)>>
        BY Zenon, <4>3, <4>4
      <4> QED BY Zenon, <4>2, <4>5 DEF Safe, InHand
    <3> QED BY <2>3, <3>1, <3>2
  <2>7. ASSUME NEW g, Safe(t, g) PROVE Safe(z, g)
    <3>1. CASE InHand(t, g)
      <4>1. PICK i \in RxSlot : ~t.rx[i].own /\ t.rx[i].ld /\ t.rx[i].data = <<g, 1 + (g % 2)>>
        BY <3>1 DEF InHand
      <4>2. ~(RxFrom(c, i) < m)
        <5>1. RxFrom(c, i) \in Nat /\ (RxFrom(c, i) < m => RxFrom(c, i) \in 0 .. m - 1)
          BY <2>3, <2>ring
        <5> QED BY Zenon, <2>1, <2>ring, <4>1, <5>1
      <4>3. z.rx[i] = t.rx[i]
        BY Zenon, <2>2, <4>2
      <4> QED BY Zenon, <4>1, <4>3 DEF Safe, InHand
    <3>2. CASE OutOf(t)
      <4>1. c # NoRing
        BY SMTT(30), Z3T(30), <1>2 DEF Sizes, NoRing, RxSlot
      <4>2. "RBU" \in t.status /\ ~t.rx[c].own
        BY <3>2, <4>1 DEF OutOf
      <4>3. m = 0
        <5>1. m > 0 => 0 \in 0 .. m - 1
          BY <2>3
        <5>2. ~(m > 0)
          BY ZenonT(40), <2>1, <2>ring, <4>2, <5>1
        <5> QED BY <2>3, <5>2
      <4>4. z.cur_rx = c /\ RxFrom(c, c) \in Nat /\ ~(RxFrom(c, c) < m)
        BY <1>2, <2>1, <2>ring, <4>3
      <4>5. z.rx[c] = t.rx[c]
        BY Zenon, <1>2, <2>2, <4>4
      <4> QED BY Zenon, <2>1, <4>2, <4>4, <4>5 DEF Safe, OutOf
    <3> QED BY <2>7, <3>1, <3>2 DEF Safe
  <2> QED BY <2>4, <2>5, <2>6, <2>7 DEF z
<1> QED BY <1>0, <1>1, <1>2

\* So does the delivery of a queue, for each of its frames.
LEMMA FlushSafe ==
  ASSUME Sizes, Fits, NEW t, RxRing(t), mcxn_enet_can_receive(t), NEW w \in Nat,
         NEW q, Len(q) \in Nat, \A i \in 1 .. Len(q) : q[i] = Frame(w + i)
  PROVE  \A i \in 1 .. Len(q) : Safe(Flushed(t, q), w + i)
<1>0. PICK run : DeliversAll(run, t, q)
  BY Zenon, FlushedRun
<1>1. /\ run[0] = t
      /\ \A n \in Nat : run[n + 1] = mcxn_enet_deliver(run[n], q[n + 1])
      /\ Flushed(t, q) = run[Len(q)]
  BY <1>0 DEF DeliversAll
<1> DEFINE Good(n) == /\ RxRing(run[n]) /\ mcxn_enet_can_receive(run[n])
                      /\ \A i \in 1 .. n : Safe(run[n], w + i)
           P == {n \in Nat : n <= Len(q) => Good(n)}
<1>2. 0 \in P
  <2>1. 1 .. 0 = {}
    OBVIOUS
  <2>2. Good(0)
    BY Zenon, <1>1, <2>1
  <2> HIDE DEF Good
  <2> QED BY <2>2
<1>3. ASSUME NEW n \in Nat, n \in P PROVE n + 1 \in P
  <2> SUFFICES ASSUME n + 1 <= Len(q) PROVE Good(n + 1)
    BY DEF P
  <2>1. n + 1 \in 1 .. Len(q) /\ n <= Len(q) /\ w + (n + 1) \in Nat
        /\ 1 .. n + 1 = (1 .. n) \cup {n + 1}
    OBVIOUS
  <2>2. Good(n)
    <3> HIDE DEF Good
    <3> QED BY <1>3, <2>1
  <2> DEFINE b == w + (n + 1)
             z == run[n + 1]
  <2>3. z = mcxn_enet_deliver(run[n], Frame(b))
    BY <1>1, <2>1
  <2>4. b \in Nat
    BY <2>1
  <2> HIDE DEF b, z
  <2>5. RxRing(z) /\ mcxn_enet_can_receive(z) /\ Safe(z, b)
        /\ \A g : Safe(run[n], g) => Safe(z, g)
    BY ZenonT(40), <2>2, <2>3, <2>4, DeliverSafe
  <2>6. \A i \in 1 .. n + 1 : Safe(z, w + i)
    BY Zenon, <2>1, <2>2, <2>5 DEF b
  <2> QED BY Zenon, <2>5, <2>6 DEF z
<1> HIDE DEF P
<1>4. Len(q) \in P
  BY Zenon, <1>2, <1>3, AllNumbers
<1>5. Good(Len(q))
  <2> HIDE DEF Good
  <2> QED BY <1>4 DEF P
<1> QED BY Zenon, <1>1, <1>5

\* What is safe in the device's state after a step is in the ring, or it is out of buffers.
LEMMA SafeIsKept ==
  ASSUME NEW f \in Nat, Safe(s', f)
  PROVE  (InRing(f) \/ OutOfBuffers)'
<1>1. Frame(f)[Len(Frame(f))] = <<f, 1 + (f % 2)>>
  <2>1. f % 2 \in 0 .. 1 /\ Len(Frame(f)) = 1 + (f % 2)
    BY FrameIs
  <2>2. Len(Frame(f)) \in 1 .. Len(Frame(f))
    BY <2>1
  <2> QED BY Zenon, <2>1, <2>2, FrameIs
<1>2. OutOf(s') => OutOfBuffers'
  BY DEF OutOf, OutOfBuffers
<1>3. InHand(s', f) => InRing(f)'
  BY Zenon, <1>1 DEF InHand, InRing
<1> QED BY Zenon, <1>2, <1>3 DEF Safe

\* A step that leaves the queue alone: what waits, waits for a receiver that is off.
LEMMA KeptStill ==
  ASSUME FrameInv', netq' = netq, arrived' = arrived, NEW f
  PROVE  FrameKept(f)
<1>1. Waiting(f) => Waiting(f)'
  BY Zenon DEF Waiting
<1>2. Waiting(f)' => ~mcxn_enet_can_receive(s')
  BY DEF FrameInv, NetGood, Waiting, mcxn_enet_can_receive
<1>3. Waiting(f)' => Held(f)'
  BY Zenon, <1>2 DEF Held, mcxn_enet_can_receive
<1> QED BY Zenon, <1>1, <1>3 DEF FrameKept

\* A queue emptied into a receiver that is off.
LEMMA KeptEarly ==
  ASSUME FrameInv, SameGate(s, s'), netq' = << >>, arrived' = arrived, NEW f
  PROVE  FrameKept(f)
<1>1. Waiting(f) => ~mcxn_enet_can_receive(s)
  BY DEF FrameInv, NetGood, Waiting
<1>2. Waiting(f) => ~mcxn_enet_can_receive(s)'
  BY Zenon, <1>1 DEF SameGate, mcxn_enet_can_receive
<1> QED BY Zenon, <1>2 DEF FrameKept

\* A register write that turns the receiver on.
LEMMA KeptStored ==
  ASSUME Sizes, Fits, EnetInv, FrameInv, FrameInv', NEW t, DOMAIN t = Fields, t.rx = s.rx,
         t.cur_rx = s.cur_rx, StoreAndFlush(t), NEW f \in 1 .. MaxFrames
  PROVE  FrameKept(f)
<1>0. arrived' = arrived /\ f \in Nat /\ Len(netq) \in Nat /\ Behind \in Nat
      /\ \A i \in 1 .. Len(netq) : netq[i] = Frame(Behind + i)
  BY DEF StoreAndFlush, EnetInv, EnetType, FrameInv, NetGood, Fits
<1>1. CASE mcxn_enet_can_receive(t)
  <2>1. s' = Flushed(t, netq)
    BY ZenonT(40), <1>1 DEF StoreAndFlush
  <2>2. RxRing(s)
    BY DEF FrameInv, RxGood
  <2>3. RxRing(t)
    BY Zenon, <2>2 DEF RxRing
  <2>4. \A i \in 1 .. Len(netq) : Safe(s', Behind + i)
    BY ZenonT(40), <1>0, <1>1, <2>1, <2>3, FlushSafe
  <2>5. Waiting(f) => Safe(s', f)
    <3> SUFFICES ASSUME Waiting(f) PROVE Safe(s', f)
      OBVIOUS
    <3>1. PICK i \in 1 .. Len(netq) : netq[i] = Frame(f)
      BY DEF Waiting
    <3>2. Behind + i \in Nat /\ Frame(Behind + i) = Frame(f)
      BY <1>0, <3>1
    <3>3. Behind + i = f
      BY Zenon, <1>0, <3>2, FrameIs
    <3> QED BY Zenon, <2>4, <3>3
  <2> QED BY Zenon, <1>0, <2>5, SafeIsKept DEF FrameKept
<1>2. CASE ~mcxn_enet_can_receive(t)
  <2>1. netq' = netq
    BY <1>2 DEF StoreAndFlush
  <2> QED BY Zenon, <1>0, <2>1, KeptStill
<1> QED BY Zenon, <1>1, <1>2

\* A frame arrives.
LEMMA KeptArrived ==
  ASSUME Sizes, Fits, EnetInv, FrameInv, FrameInv', qemu_net_queue_send,
         NEW f \in 1 .. MaxFrames
  PROVE  FrameKept(f)
<1>0. arrived' = arrived + 1 /\ arrived \in Nat /\ f \in Nat
      /\ netq \in Seq({Frame(x) : x \in Nat}) /\ Len(netq) \in Nat
  BY DEF qemu_net_queue_send, EnetInv, EnetType, Fits
<1>1. CASE mcxn_enet_can_receive(s)
  <2> DEFINE b == arrived + 1
             u == mcxn_enet_deliver(s, Frame(b))
  <2>1. s' = Flushed(u, netq) /\ netq = << >>
    BY <1>1 DEF qemu_net_queue_send, FrameInv, NetGood
  <2>2. ~Waiting(f)
    BY SMTT(30), Z3T(30), <2>1 DEF Waiting
  <2>3. RxRing(s) /\ b \in Nat
    BY <1>0 DEF FrameInv, RxGood
  <2> HIDE DEF b
  <2>4. Safe(u, b)
    BY Zenon, <1>1, <2>3, DeliverSafe
  <2> HIDE DEF u
  <2>5. Flushed(u, netq) = u
    <3>1. PICK run : DeliversAll(run, u, netq)
      BY FlushedRun
    <3>2. run[0] = u /\ Flushed(u, netq) = run[Len(netq)]
      BY <3>1 DEF DeliversAll
    <3> QED BY Zenon, <2>1, <3>2, NoneWait
  <2>6. Safe(s', b)
    BY Zenon, <2>1, <2>4, <2>5
  <2>7. f = arrived' => (InRing(f) \/ OutOfBuffers)'
    BY Zenon, <1>0, <2>6, SafeIsKept DEF b
  <2> QED BY Zenon, <2>2, <2>7 DEF FrameKept
<1>2. CASE ~mcxn_enet_can_receive(s)
  <2>1. netq' = Append(netq, Frame(arrived + 1))
    BY <1>2 DEF qemu_net_queue_send
  <2>2. Frame(arrived + 1) \in {Frame(x) : x \in Nat}
    BY <1>0
  <2> DEFINE b == Len(netq) + 1
  <2>3. Len(netq') = b /\ netq'[b] = Frame(arrived + 1)
        /\ \A i \in 1 .. Len(netq) : netq'[i] = netq[i]
    BY <1>0, <2>1, <2>2, Appended
  <2>4. b \in 1 .. b /\ \A i \in 1 .. Len(netq) : i \in 1 .. b
    BY <1>0
  <2> HIDE DEF b
  <2>5. Waiting(f) => Waiting(f)'
    BY Zenon, <2>3, <2>4 DEF Waiting
  <2>6. f = arrived' => Waiting(f)'
    BY Zenon, <1>0, <2>3, <2>4 DEF Waiting
  <2>7. Waiting(f)' => ~mcxn_enet_can_receive(s')
    BY DEF FrameInv, NetGood, Waiting, mcxn_enet_can_receive
  <2>8. Waiting(f)' => Held(f)'
    BY Zenon, <2>7 DEF Held, mcxn_enet_can_receive
  <2> QED BY Zenon, <2>5, <2>6, <2>8 DEF FrameKept
<1> QED BY <1>1, <1>2

\* Every step keeps every frame from the network that waits or arrives.
LEMMA KeptStep ==
  ASSUME Sizes, Fits, EnetInv, FrameInv, EnetNext, NEW f \in 1 .. MaxFrames
  PROVE  FrameKept(f)
<1>0. FrameInv' /\ DOMAIN s = Fields /\ Len(netq) \in Nat
  BY FrameStep DEF EnetInv, EnetType
<1>1. CASE qemu_net_queue_send
  BY <1>0, <1>1, KeptArrived
<1>2. ASSUME NEW v \in MacIn, WriteMacConfiguration(v) PROVE FrameKept(f)
  <2> DEFINE t == [s EXCEPT !.mac = v]
  <2>1. DOMAIN t = Fields /\ t.rx = s.rx /\ t.cur_rx = s.cur_rx
    BY <1>0 DEF Fields
  <2>2. StoreAndFlush(t)
    BY <1>2 DEF WriteMacConfiguration
  <2> HIDE DEF t
  <2> QED BY <1>0, <2>1, <2>2, KeptStored
<1>3. ASSUME NEW v \in BOOLEAN, WriteRxCtrl(v) PROVE FrameKept(f)
  <2> DEFINE t == [s EXCEPT !.sr = v]
  <2>1. DOMAIN t = Fields /\ t.rx = s.rx /\ t.cur_rx = s.cur_rx
    BY <1>0 DEF Fields
  <2>2. StoreAndFlush(t)
    BY <1>3 DEF WriteRxCtrl
  <2> HIDE DEF t
  <2> QED BY <1>0, <2>1, <2>2, KeptStored
<1>4. CASE WriteRxTail
  <2>1. s' = Flushed(s, netq) /\ netq' = << >> /\ arrived' = arrived
    BY <1>4 DEF WriteRxTail
  <2>2. SameGate(s, s')
    BY Zenon, <1>0, <2>1, FlushGate
  <2> QED BY Zenon, <2>1, <2>2, KeptEarly
<1>5. CASE VmStop
  <2> DEFINE u == Flushed(s, netq)
  <2>1. s' = mcxn_enet_update_irq(u) /\ netq' = << >> /\ arrived' = arrived
    BY Zenon, <1>5 DEF VmStop
  <2>2. SameGate(s, u) /\ DOMAIN u = Fields
    BY <1>0, FlushGate, FlushKeeps DEF KeepsTx
  <2> HIDE DEF u
  <2>3. SameGate(s, s')
    BY <2>1, <2>2 DEF SameGate, mcxn_enet_update_irq, Fields
  <2> QED BY Zenon, <2>1, <2>3, KeptEarly
<1>6. CASE \/ \E v \in BOOLEAN : WriteTxCtrl(v)
           \/ WriteStatus
           \/ \E v \in IntIn : WriteIntEn(v)
           \/ mcxn_enet_reset \/ SetupRx \/ SetupTx \/ RxTake
           \/ \E ioc \in BOOLEAN : TxPut(ioc)
           \/ WriteTxTail
  <2>1. netq' = netq /\ arrived' = arrived
    BY Zenon, <1>6 DEF WriteTxCtrl, WriteStatus, WriteIntEn, mcxn_enet_reset, SetupRx, SetupTx,
                       RxTake, TxPut, WriteTxTail
  <2> QED BY Zenon, <1>0, <2>1, KeptStill
<1> QED BY Zenon, <1>1, <1>2, <1>3, <1>4, <1>5, <1>6 DEF EnetNext
=============================================================================

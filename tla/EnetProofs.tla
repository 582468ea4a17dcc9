----------------------------- MODULE EnetProofs -----------------------------
(***************************************************************************)
(* Proofs about the ENET and its driver, for rings of any length: what the *)
(* receiver's and the transmitter's loops compute, and that the ring is    *)
(* walked to its tail.                                                     *)
(***************************************************************************)
EXTENDS Enet, WellFoundedInduction, TLAPS

\* The rings' lengths, and a guard that lets a walk go once around.
Sizes ==
  /\ RxLen \in Nat \ {0} /\ TxLen \in Nat \ {0, 1}
  /\ RingGuard \in Nat /\ RingGuard >= TxLen

-----------------------------------------------------------------------------
\* Induction over a set of numbers, for what the ENET's loops compute.
LEMMA AllNumbers ==
  ASSUME NEW P, 0 \in P, \A n \in Nat : n \in P => n + 1 \in P
  PROVE  Nat \subseteq P
<1> DEFINE R == OpToRel(<, Nat)
           T == Nat \ P
<1> SUFFICES ASSUME T # {} PROVE FALSE
  OBVIOUS
<1>1. IsWellFoundedOn(R, Nat)
  BY ZenonT(40), NatLessThanWellFounded
<1>2. \A x, y \in Nat : <<y, x>> \in R <=> y < x
  BY DEF OpToRel
<1> HIDE DEF R
<1>3. PICK x \in T : \A y \in T : ~(<<y, x>> \in R)
  BY Zenon, <1>1, WFMin
<1>4. \A y \in T : ~(y < x)
  BY ZenonT(40), <1>2, <1>3
<1>5. x \in Nat /\ x # 0 /\ x - 1 \in Nat /\ x - 1 < x /\ (x - 1) + 1 = x
  BY <1>3
<1>6. x - 1 \in P
  BY <1>4, <1>5
<1> QED BY <1>3, <1>5, <1>6

\* The device before and after each frame of the queue.
DeliversAll(run, t, q) ==
  /\ run[0] = t
  /\ \A n \in Nat : run[n + 1] = mcxn_enet_deliver(run[n], q[n + 1])
  /\ Flushed(t, q) = run[Len(q)]

\* The net layer's loop over its queue delivers one frame after the other.
LEMMA FlushedRun ==
  ASSUME NEW t, NEW q
  PROVE  \E run : DeliversAll(run, t, q)
<1> DEFINE Turn(w, n) == mcxn_enet_deliver(w, q[n])
           Prefix(g, n) == g = [i \in 0 .. n |-> IF i = 0 THEN t ELSE Turn(g[i - 1], i)]
           first(n) == CHOOSE g : Prefix(g, n)
           G == [n \in Nat |-> first(n)[n]]
           run == CHOOSE f : f = [n \in Nat |-> IF n = 0 THEN t ELSE Turn(f[n - 1], n)]
<1>0. Flushed(t, q) = run[Len(q)]
  BY DEF Flushed
<1> HIDE DEF Turn
<1>1. \A n \in Nat : \E g : Prefix(g, n)
  <2> DEFINE P == {n \in Nat : \E g : Prefix(g, n)}
  <2>1. 0 \in P
    <3>1. Prefix([i \in 0 .. 0 |-> t], 0)
      OBVIOUS
    <3> QED BY ZenonT(40), <3>1
  <2>2. ASSUME NEW n \in Nat, n \in P PROVE n + 1 \in P
    <3>1. PICK g : Prefix(g, n)
      BY <2>2
    <3> DEFINE h == [i \in 0 .. n + 1 |-> IF i = n + 1 THEN Turn(g[n], n + 1) ELSE g[i]]
    <3>2. Prefix(h, n + 1)
      <4>1. \A i \in 0 .. n : g[i] = IF i = 0 THEN t ELSE Turn(g[i - 1], i)
        BY <3>1
      <4>2. \A i \in 0 .. n + 1 : h[i] = IF i = 0 THEN t ELSE Turn(h[i - 1], i)
        <5> TAKE i \in 0 .. n + 1
        <5>1. CASE i = n + 1
          BY <5>1
        <5>2. CASE i # n + 1
          <6>1. i \in 0 .. n /\ (i # 0 => i - 1 \in 0 .. n + 1 /\ i - 1 # n + 1)
            BY <5>2
          <6>2. h[i] = g[i] /\ (i # 0 => h[i - 1] = g[i - 1])
            BY <6>1
          <6> QED BY <4>1, <6>1, <6>2
        <5> QED BY <5>1, <5>2
      <4> QED BY <4>2
    <3> HIDE DEF h
    <3>3. \E f : Prefix(f, n + 1)
      BY <3>2
    <3> QED BY <3>3
  <2> HIDE DEF P
  <2>3. Nat \subseteq P
    BY <2>1, <2>2, AllNumbers
  <2> QED BY ZenonT(40), <2>3 DEF P
<1>2. \A n \in Nat : Prefix(first(n), n)
  BY Zenon, <1>1
<1> HIDE DEF first
<1>3. ASSUME NEW n \in Nat PROVE first(n + 1)[n] = first(n)[n]
  <2> DEFINE P == {i \in Nat : i <= n => first(n + 1)[i] = first(n)[i]}
  <2>0. /\ \A i \in 0 .. n : first(n)[i] = IF i = 0 THEN t ELSE Turn(first(n)[i - 1], i)
        /\ \A i \in 0 .. n + 1 :
             first(n + 1)[i] = IF i = 0 THEN t ELSE Turn(first(n + 1)[i - 1], i)
    BY <1>2
  <2>1. 0 \in P
    BY <2>0
  <2>2. ASSUME NEW i \in Nat, i \in P PROVE i + 1 \in P
    <3> SUFFICES ASSUME i + 1 <= n PROVE first(n + 1)[i + 1] = first(n)[i + 1]
      OBVIOUS
    <3>1. i <= n /\ i + 1 \in 0 .. n /\ i + 1 \in 0 .. n + 1 /\ i + 1 # 0 /\ (i + 1) - 1 = i
      OBVIOUS
    <3>2. first(n + 1)[i] = first(n)[i]
      BY <2>2, <3>1
    <3> QED BY <2>0, <3>1, <3>2
  <2> HIDE DEF P
  <2>3. Nat \subseteq P
    BY <2>1, <2>2, AllNumbers
  <2> QED BY <2>3 DEF P
<1>4. G[0] = t
  BY <1>2
<1>5. ASSUME NEW n \in Nat PROVE G[n + 1] = Turn(G[n], n + 1)
  <2>1. first(n + 1)[n + 1] = Turn(first(n + 1)[n], n + 1)
    BY <1>2
  <2> QED BY <1>3, <2>1
<1>6. G = [n \in Nat |-> IF n = 0 THEN t ELSE Turn(G[n - 1], n)]
  <2>1. ASSUME NEW n \in Nat PROVE G[n] = IF n = 0 THEN t ELSE Turn(G[n - 1], n)
    <3>1. CASE n = 0
      BY <1>4, <3>1
    <3>2. CASE n # 0
      <4>1. n - 1 \in Nat /\ (n - 1) + 1 = n
        BY <3>2
      <4> HIDE DEF G
      <4> QED BY <1>5, <3>2, <4>1
    <3> QED BY <3>1, <3>2
  <2>2. DOMAIN G = Nat /\ G = [n \in Nat |-> G[n]]
    OBVIOUS
  <2> HIDE DEF G
  <2> QED BY ZenonT(40), <2>1, <2>2
<1> HIDE DEF G
<1>7. run = [n \in Nat |-> IF n = 0 THEN t ELSE Turn(run[n - 1], n)]
  BY <1>6
<1> HIDE DEF run
<1>8. run[0] = t /\ \A n \in Nat : run[n + 1] = Turn(run[n], n + 1)
  <2>1. \A n \in Nat : run[n] = IF n = 0 THEN t ELSE Turn(run[n - 1], n)
    BY <1>7
  <2>2. \A n \in Nat : n + 1 \in Nat /\ n + 1 # 0 /\ (n + 1) - 1 = n
    OBVIOUS
  <2> QED BY <2>1, <2>2
<1>9. DeliversAll(run, t, q)
  BY <1>0, <1>8 DEF Turn, DeliversAll
<1> QED BY <1>9

-----------------------------------------------------------------------------
\* The ENET's registers and rings, and the driver's notes.
Fields == {"mac", "sr", "st", "status", "int_en", "tail", "cur_rx", "cur_tx", "irq",
           "rx", "tx", "out"}
Notes == {"take", "part", "got", "put", "mark", "posted", "pieces"}

\* The receiver leaves the transmitter's state alone.
KeepsTx(t, u) ==
  /\ DOMAIN u = Fields
  /\ u.tx = t.tx /\ u.cur_tx = t.cur_tx /\ u.tail = t.tail

\* The interrupt line is up to date.
LineDrawn(t) == t.irq = IrqWanted(t)

\* mcxn_enet_update_irq writes the line and nothing else.
LEMMA LineUpdated ==
  ASSUME NEW t, DOMAIN t = Fields
  PROVE  KeepsTx(t, mcxn_enet_update_irq(t)) /\ LineDrawn(mcxn_enet_update_irq(t))
<1> DEFINE u == mcxn_enet_update_irq(t)
<1>1. /\ DOMAIN u = Fields /\ u.tx = t.tx /\ u.cur_tx = t.cur_tx /\ u.tail = t.tail
      /\ u.status = t.status /\ u.int_en = t.int_en /\ u.irq = IrqWanted(t)
  BY DEF mcxn_enet_update_irq, Fields
<1> HIDE DEF u
<1>2. IrqWanted(u) = IrqWanted(t)
  BY <1>1 DEF IrqWanted
<1>3. KeepsTx(t, u) /\ LineDrawn(u)
  BY <1>1, <1>2 DEF KeepsTx, LineDrawn
<1> QED BY <1>3 DEF u

\* A frame delivered, or dropped, leaves the line as it should be.
LEMMA DeliverKeeps ==
  ASSUME NEW t, NEW whole, DOMAIN t = Fields
  PROVE  /\ KeepsTx(t, mcxn_enet_deliver(t, whole))
         /\ LineDrawn(t) => LineDrawn(mcxn_enet_deliver(t, whole))
<1> DEFINE z == mcxn_enet_deliver(t, whole)
<1>1. z = t \/ \E frame, m, ok : z = mcxn_enet_update_irq(Status(Written(t, frame, m), ok))
  BY DEF mcxn_enet_deliver
<1> HIDE DEF z
<1>2. CASE z = t
  BY <1>2 DEF KeepsTx, z
<1>3. CASE z # t
  <2>1. PICK frame, m, ok :
          z = mcxn_enet_update_irq(Status(Written(t, frame, m), ok))
    BY <1>1, <1>3
  <2> DEFINE w == Written(t, frame, m)
             v == Status(w, ok)
  <2>2. KeepsTx(t, w)
    BY DEF Written, KeepsTx, Fields
  <2> HIDE DEF w
  <2>3. KeepsTx(t, v)
    BY <2>2 DEF Status, KeepsTx, Fields
  <2> HIDE DEF v
  <2>4. z = mcxn_enet_update_irq(v)
    BY <2>1 DEF v, w
  <2>5. KeepsTx(v, z) /\ LineDrawn(z)
    BY <2>3, <2>4, LineUpdated DEF KeepsTx
  <2>6. KeepsTx(t, z)
    BY <2>3, <2>5 DEF KeepsTx
  <2> QED BY <2>5, <2>6 DEF z
<1> QED BY <1>2, <1>3

\* So does the whole queue.
LEMMA FlushKeeps ==
  ASSUME NEW t, NEW q, Len(q) \in Nat, DOMAIN t = Fields
  PROVE  /\ KeepsTx(t, Flushed(t, q))
         /\ LineDrawn(t) => LineDrawn(Flushed(t, q))
<1>0. PICK run : DeliversAll(run, t, q)
  BY FlushedRun
<1>1. /\ run[0] = t
      /\ \A n \in Nat : run[n + 1] = mcxn_enet_deliver(run[n], q[n + 1])
      /\ Flushed(t, q) = run[Len(q)]
  BY <1>0 DEF DeliversAll
<1> DEFINE P == {n \in Nat : KeepsTx(t, run[n]) /\ (LineDrawn(t) => LineDrawn(run[n]))}
<1>2. 0 \in P
  BY ZenonT(40), <1>1 DEF KeepsTx
<1>3. ASSUME NEW n \in Nat, n \in P PROVE n + 1 \in P
  <2>1. DOMAIN run[n] = Fields
    BY <1>3 DEF KeepsTx
  <2>2. /\ KeepsTx(run[n], run[n + 1])
        /\ LineDrawn(run[n]) => LineDrawn(run[n + 1])
    BY ZenonT(40), <1>1, <2>1, DeliverKeeps
  <2> QED BY <1>3, <2>2 DEF KeepsTx
<1> HIDE DEF P
<1>4. Nat \subseteq P
  BY <1>2, <1>3, AllNumbers
<1>5. Len(q) \in P
  BY <1>4
<1> QED BY <1>1, <1>5 DEF P

-----------------------------------------------------------------------------
\* The transmitter before and after each turn of its loop.
Outset(t) == [dev |-> t, frame |-> << >>, ioc |-> FALSE]

Walks(walk, t) ==
  /\ walk[0] = Outset(t)
  /\ \A n \in Nat : walk[n + 1] = TxTurn(walk[n])
  /\ \A guard \in Nat : TxWalk(t, guard) = walk[guard].dev

\* The transmitter's loop takes one turn after the other.
LEMMA WalkRun ==
  ASSUME NEW t
  PROVE  \E walk : Walks(walk, t)
<1> DEFINE x == Outset(t)
           Turn(w) == TxTurn(w)
           Prefix(g, n) == g = [i \in 0 .. n |-> IF i = 0 THEN x ELSE Turn(g[i - 1])]
           first(n) == CHOOSE g : Prefix(g, n)
           G == [n \in Nat |-> first(n)[n]]
           walk == CHOOSE f : f = [n \in Nat |-> IF n = 0 THEN x ELSE Turn(f[n - 1])]
<1>0. \A guard \in Nat : TxWalk(t, guard) = walk[guard].dev
  BY DEF TxWalk, Outset
<1> HIDE DEF Turn, x
<1>1. \A n \in Nat : \E g : Prefix(g, n)
  <2> DEFINE P == {n \in Nat : \E g : Prefix(g, n)}
  <2>1. 0 \in P
    <3>1. Prefix([i \in 0 .. 0 |-> x], 0)
      OBVIOUS
    <3> QED BY Zenon, <3>1
  <2>2. ASSUME NEW n \in Nat, n \in P PROVE n + 1 \in P
    <3>1. PICK g : Prefix(g, n)
      BY <2>2
    <3> DEFINE h == [i \in 0 .. n + 1 |-> IF i = n + 1 THEN Turn(g[n]) ELSE g[i]]
    <3>2. Prefix(h, n + 1)
      <4>1. \A i \in 0 .. n : g[i] = IF i = 0 THEN x ELSE Turn(g[i - 1])
        BY <3>1
      <4>2. \A i \in 0 .. n + 1 : h[i] = IF i = 0 THEN x ELSE Turn(h[i - 1])
        <5> TAKE i \in 0 .. n + 1
        <5>1. CASE i = n + 1
          BY <5>1
        <5>2. CASE i # n + 1
          <6>1. i \in 0 .. n /\ (i # 0 => i - 1 \in 0 .. n + 1 /\ i - 1 # n + 1)
            BY <5>2
          <6>2. h[i] = g[i] /\ (i # 0 => h[i - 1] = g[i - 1])
            BY <6>1
          <6> QED BY <4>1, <6>1, <6>2
        <5> QED BY <5>1, <5>2
      <4> QED BY <4>2
    <3> HIDE DEF h
    <3>3. \E f : Prefix(f, n + 1)
      BY <3>2
    <3> QED BY <3>3
  <2> HIDE DEF P
  <2>3. Nat \subseteq P
    BY <2>1, <2>2, AllNumbers
  <2> QED BY ZenonT(40), <2>3 DEF P
<1>2. \A n \in Nat : Prefix(first(n), n)
  BY ZenonT(40), <1>1
<1> HIDE DEF first
<1>3. ASSUME NEW n \in Nat PROVE first(n + 1)[n] = first(n)[n]
  <2> DEFINE P == {i \in Nat : i <= n => first(n + 1)[i] = first(n)[i]}
  <2>0. /\ \A i \in 0 .. n : first(n)[i] = IF i = 0 THEN x ELSE Turn(first(n)[i - 1])
        /\ \A i \in 0 .. n + 1 :
             first(n + 1)[i] = IF i = 0 THEN x ELSE Turn(first(n + 1)[i - 1])
    BY <1>2
  <2>1. 0 \in P
    BY <2>0
  <2>2. ASSUME NEW i \in Nat, i \in P PROVE i + 1 \in P
    <3> SUFFICES ASSUME i + 1 <= n PROVE first(n + 1)[i + 1] = first(n)[i + 1]
      OBVIOUS
    <3>1. i <= n /\ i + 1 \in 0 .. n /\ i + 1 \in 0 .. n + 1 /\ i + 1 # 0 /\ (i + 1) - 1 = i
      OBVIOUS
    <3>2. first(n + 1)[i] = first(n)[i]
      BY <2>2, <3>1
    <3> QED BY <2>0, <3>1, <3>2
  <2> HIDE DEF P
  <2>3. Nat \subseteq P
    BY <2>1, <2>2, AllNumbers
  <2> QED BY <2>3 DEF P
<1>4. G[0] = x
  BY <1>2
<1>5. ASSUME NEW n \in Nat PROVE G[n + 1] = Turn(G[n])
  <2>1. first(n + 1)[n + 1] = Turn(first(n + 1)[n])
    BY <1>2
  <2> QED BY <1>3, <2>1
<1>6. G = [n \in Nat |-> IF n = 0 THEN x ELSE Turn(G[n - 1])]
  <2>1. ASSUME NEW n \in Nat PROVE G[n] = IF n = 0 THEN x ELSE Turn(G[n - 1])
    <3>1. CASE n = 0
      BY <1>4, <3>1
    <3>2. CASE n # 0
      <4>1. n - 1 \in Nat /\ (n - 1) + 1 = n
        BY <3>2
      <4> HIDE DEF G
      <4> QED BY <1>5, <3>2, <4>1
    <3> QED BY <3>1, <3>2
  <2>2. DOMAIN G = Nat /\ G = [n \in Nat |-> G[n]]
    OBVIOUS
  <2> HIDE DEF G
  <2> QED BY <2>1, <2>2
<1> HIDE DEF G
<1>7. walk = [n \in Nat |-> IF n = 0 THEN x ELSE Turn(walk[n - 1])]
  BY <1>6
<1> HIDE DEF walk
<1>8. walk[0] = x /\ \A n \in Nat : walk[n + 1] = Turn(walk[n])
  <2>1. \A n \in Nat : walk[n] = IF n = 0 THEN x ELSE Turn(walk[n - 1])
    BY <1>7
  <2>2. \A n \in Nat : n + 1 \in Nat /\ n + 1 # 0 /\ (n + 1) - 1 = n
    OBVIOUS
  <2> QED BY <2>1, <2>2
<1>9. Walks(walk, t)
  BY <1>0, <1>8 DEF Turn, x, Walks
<1> QED BY <1>9

-----------------------------------------------------------------------------
\* The slot k places ahead of slot c of the transmit ring.
Ahead(c, k) == (c + k) % TxLen

\* What counting on a ring is.
LEMMA AheadIs ==
  ASSUME Sizes, NEW c \in 0 .. TxLen - 1, NEW k \in 0 .. TxLen
  PROVE  Ahead(c, k) = IF c + k < TxLen THEN c + k ELSE c + k - TxLen
<1>1. TxLen \in Nat \ {0}
  BY DEF Sizes
<1>2. CASE c + k < TxLen
  BY <1>1, <1>2 DEF Ahead
<1>3. CASE ~(c + k < TxLen)
  <2>1. c + k - TxLen \in 0 .. TxLen - 1 /\ c + k = (c + k - TxLen) + TxLen
    BY <1>1, <1>3
  <2>2. ((c + k - TxLen) + TxLen) % TxLen = c + k - TxLen
    BY <1>1, <2>1
  <2> QED BY <1>3, <2>1, <2>2 DEF Ahead
<1> QED BY <1>2, <1>3

\* Two counts from one slot meet only when they are equal; every slot is at some count.
LEMMA AheadFacts ==
  ASSUME Sizes, NEW c \in 0 .. TxLen - 1
  PROVE  /\ \A k \in 0 .. TxLen : Ahead(c, k) \in 0 .. TxLen - 1
         /\ \A j, k \in 0 .. TxLen - 1 : Ahead(c, j) = Ahead(c, k) => j = k
         /\ \A i \in 0 .. TxLen - 1 : \E k \in 0 .. TxLen - 1 : i = Ahead(c, k)
         /\ Ahead(c, 0) = c /\ Ahead(c, TxLen) = c
         /\ \A j \in 0 .. TxLen - 1 : (Ahead(c, j) + 1) % TxLen = Ahead(c, j + 1)
         /\ \A j, k \in 0 .. TxLen - 1 :
              j + k <= TxLen => Ahead(Ahead(c, j), k) = Ahead(c, j + k)
<1>0. TxLen \in Nat \ {0}
  BY DEF Sizes
<1>1. \A k \in 0 .. TxLen : Ahead(c, k) = IF c + k < TxLen THEN c + k ELSE c + k - TxLen
  BY AheadIs
<1>2. \A k \in 0 .. TxLen : Ahead(c, k) \in 0 .. TxLen - 1
  BY <1>0, <1>1
<1>3. ASSUME NEW j \in 0 .. TxLen - 1, NEW k \in 0 .. TxLen - 1, Ahead(c, j) = Ahead(c, k)
      PROVE  j = k
  BY <1>0, <1>1, <1>3
<1>4. ASSUME NEW i \in 0 .. TxLen - 1
      PROVE  \E k \in 0 .. TxLen - 1 : i = Ahead(c, k)
  <2> DEFINE k == IF i >= c THEN i - c ELSE i - c + TxLen
  <2>1. k \in 0 .. TxLen - 1
    BY <1>0
  <2>2. i = Ahead(c, k)
    BY <1>0, <1>1, <2>1
  <2> HIDE DEF k
  <2> QED BY <2>1, <2>2
<1>5. Ahead(c, 0) = c /\ Ahead(c, TxLen) = c
  <2>1. 0 \in 0 .. TxLen /\ TxLen \in 0 .. TxLen
    BY <1>0
  <2> QED BY <1>0, <1>1, <2>1
<1>6. \A d \in 0 .. TxLen - 1, k \in 0 .. TxLen :
        Ahead(d, k) = IF d + k < TxLen THEN d + k ELSE d + k - TxLen
  BY AheadIs
<1>7. ASSUME NEW j \in 0 .. TxLen - 1, NEW k \in 0 .. TxLen - 1, j + k <= TxLen
      PROVE  Ahead(Ahead(c, j), k) = Ahead(c, j + k)
  <2> DEFINE d == Ahead(c, j)
  <2>1. d \in 0 .. TxLen - 1 /\ d = IF c + j < TxLen THEN c + j ELSE c + j - TxLen
    BY <1>0, <1>1, <1>2
  <2>2. k \in 0 .. TxLen /\ j + k \in 0 .. TxLen
    BY <1>0, <1>7
  <2> HIDE DEF d
  <2>3. Ahead(d, k) = IF d + k < TxLen THEN d + k ELSE d + k - TxLen
    BY <1>6, <2>1, <2>2
  <2>4. Ahead(c, j + k) = IF c + (j + k) < TxLen THEN c + (j + k) ELSE c + (j + k) - TxLen
    BY <1>1, <2>2
  <2>5. Ahead(d, k) = Ahead(c, j + k)
    BY <1>0, <1>7, <2>1, <2>3, <2>4
  <2> QED BY <2>5 DEF d
<1>8. ASSUME NEW j \in 0 .. TxLen - 1 PROVE (Ahead(c, j) + 1) % TxLen = Ahead(c, j + 1)
  <2>1. 1 \in 0 .. TxLen - 1 /\ j + 1 <= TxLen
    BY <1>0 DEF Sizes
  <2> QED BY <1>7, <2>1 DEF Ahead
<1> QED BY <1>2, <1>3, <1>4, <1>5, <1>7, <1>8

\* The transmit ring is a ring of descriptors.
IsRing(t) ==
  /\ DOMAIN t.tx = TxSlot
  /\ \A i \in TxSlot : "own" \in DOMAIN t.tx[i] /\ t.tx[i].own \in BOOLEAN

\* Counted from slot p the device owns the descriptors from count j up to count c, and
\* is at count j.
Owns(t, p, j, c) ==
  /\ DOMAIN t = Fields /\ IsRing(t)
  /\ p \in TxSlot /\ t.cur_tx = Ahead(p, j)
  /\ \A k \in 0 .. TxLen - 1 : t.tx[Ahead(p, k)].own <=> (j <= k /\ k < c)

\* A complete frame that leaves does not touch the ring it came from.
LEMMA SentKeeps ==
  ASSUME NEW t, NEW frame, NEW ioc, DOMAIN t = Fields
  PROVE  KeepsTx(t, Sent(t, frame, ioc))
<1> DEFINE u == IF "LM" \in t.mac THEN mcxn_enet_deliver(t, frame)
                ELSE [t EXCEPT !.out = Append(@, frame)]
           v == IF ioc THEN [u EXCEPT !.status = @ \cup {"TI"}] ELSE u
<1>1. KeepsTx(t, u)
  <2>1. KeepsTx(t, mcxn_enet_deliver(t, frame))
    BY DeliverKeeps
  <2>2. KeepsTx(t, [t EXCEPT !.out = Append(@, frame)])
    BY DEF KeepsTx, Fields
  <2> QED BY <2>1, <2>2
<1>2. Sent(t, frame, ioc) = v
  BY DEF Sent
<1> HIDE DEF u
<1>3. KeepsTx(t, v)
  BY <1>1 DEF KeepsTx, Fields
<1> QED BY <1>2, <1>3

\* A turn on an owned descriptor before the tail takes it and goes on to the next.
LEMMA TurnTakes ==
  ASSUME Sizes, NEW w, NEW p, NEW c \in 0 .. TxLen - 1, NEW b \in 0 .. c, NEW j \in 0 .. b, j < b,
         Owns(w.dev, p, j, c), w.dev.tail = Ahead(p, b)
  PROVE  Owns(TxTurn(w).dev, p, j + 1, c) /\ TxTurn(w).dev.tail = w.dev.tail
<1> DEFINE t == w.dev
           i == t.cur_tx
           u == [t EXCEPT !.tx[t.cur_tx].own = FALSE, !.cur_tx = (@ + 1) % TxLen]
           v == TxTurn(w).dev
<1>0. TxLen \in Nat \ {0} /\ TxSlot = 0 .. TxLen - 1
  BY DEF Sizes, TxSlot
<1>1. p \in 0 .. TxLen - 1 /\ j \in 0 .. TxLen - 1 /\ b \in 0 .. TxLen - 1 /\ j + 1 \in 0 .. TxLen - 1
  BY <1>0 DEF Owns
<1>2. i = Ahead(p, j) /\ i \in 0 .. TxLen - 1 /\ (i + 1) % TxLen = Ahead(p, j + 1)
      /\ i # t.tail /\ t.tx[i].own
  <2>1. i = Ahead(p, j) /\ (t.tx[Ahead(p, j)].own <=> (j <= j /\ j < c))
    BY <1>1 DEF Owns
  <2>2. j < c /\ j <= j /\ j # b
    BY <1>0, <1>1
  <2>3. Ahead(p, j) # Ahead(p, b)
    <3>1. \A k, l \in 0 .. TxLen - 1 : Ahead(p, k) = Ahead(p, l) => k = l
      BY Zenon, <1>1, AheadFacts
    <3> QED BY <1>1, <2>2, <3>1
  <2>4. j \in 0 .. TxLen
    BY <1>0, <1>1
  <2>5. Ahead(p, j) \in 0 .. TxLen - 1 /\ (Ahead(p, j) + 1) % TxLen = Ahead(p, j + 1)
    BY ZenonT(40), <1>1, <2>4, AheadFacts
  <2> QED BY <2>1, <2>2, <2>3, <2>5
<1>3. DOMAIN t = Fields /\ IsRing(t)
  BY DEF Owns
<1>4. /\ DOMAIN u = Fields /\ u.tail = t.tail /\ u.cur_tx = (i + 1) % TxLen
      /\ u.tx = [t.tx EXCEPT ![i].own = FALSE]
  BY <1>3 DEF Fields
<1>5. v = u \/ \E frame, ioc : v = Sent(u, frame, ioc)
  BY ZenonT(40), <1>2 DEF TxTurn
<1> HIDE DEF u, v
<1>6. KeepsTx(u, v)
  BY <1>4, <1>5, SentKeeps DEF KeepsTx
<1>7. /\ DOMAIN v = Fields /\ v.tail = t.tail /\ v.cur_tx = Ahead(p, j + 1)
      /\ v.tx = [t.tx EXCEPT ![i].own = FALSE]
  BY <1>2, <1>4, <1>6 DEF KeepsTx
<1> HIDE DEF t, i
<1>8. /\ DOMAIN v.tx = TxSlot
      /\ \A n \in TxSlot : /\ "own" \in DOMAIN v.tx[n]
                             /\ v.tx[n].own = (IF n = i THEN FALSE ELSE t.tx[n].own)
  <2>1. DOMAIN v.tx = TxSlot
    BY <1>3, <1>7 DEF IsRing
  <2>2. ASSUME NEW n \in TxSlot
        PROVE  /\ "own" \in DOMAIN v.tx[n]
               /\ v.tx[n].own = (IF n = i THEN FALSE ELSE t.tx[n].own)
    <3>1. n \in DOMAIN t.tx /\ "own" \in DOMAIN t.tx[n]
      BY <1>3 DEF IsRing
    <3>2. v.tx[n] = IF n = i THEN [t.tx[n] EXCEPT !.own = FALSE] ELSE t.tx[n]
      BY Zenon, <1>7, <3>1
    <3> QED BY <3>1, <3>2
  <2> QED BY Zenon, <2>1, <2>2
<1>9. IsRing(v)
  BY ZenonT(40), <1>3, <1>8 DEF IsRing
<1>10. ASSUME NEW k \in 0 .. TxLen - 1
       PROVE  v.tx[Ahead(p, k)].own <=> (j + 1 <= k /\ k < c)
  <2>1. Ahead(p, k) \in TxSlot /\ (Ahead(p, k) = i <=> k = j)
    <3>1. k \in 0 .. TxLen
      BY <1>0
    <3>2. Ahead(p, k) \in 0 .. TxLen - 1
      BY <1>1, <3>1, AheadFacts
    <3>3. \A m \in 0 .. TxLen - 1 : Ahead(p, k) = Ahead(p, m) => k = m
      BY <1>1, AheadFacts
    <3> QED BY ZenonT(40), <1>0, <1>1, <1>2, <3>2, <3>3
  <2>2. t.tx[Ahead(p, k)].own <=> (j <= k /\ k < c)
    BY DEF Owns, t
  <2>3. CASE k = j
    <3>1. v.tx[Ahead(p, k)].own = FALSE
      BY Zenon, <1>8, <2>1, <2>3
    <3>2. ~(j + 1 <= k)
      BY <1>1, <2>3
    <3> QED BY Zenon, <3>1, <3>2
  <2>4. CASE k # j
    <3>1. v.tx[Ahead(p, k)].own = t.tx[Ahead(p, k)].own
      BY ZenonT(40), <1>8, <2>1, <2>4
    <3>2. (j <= k /\ k < c) <=> (j + 1 <= k /\ k < c)
      BY <1>0, <1>1, <2>4
    <3> QED BY <2>2, <3>1, <3>2
  <2> QED BY <2>3, <2>4
<1>11. Owns(v, p, j + 1, c)
  BY Zenon, <1>0, <1>1, <1>7, <1>9, <1>10 DEF Owns
<1> QED BY <1>7, <1>11 DEF v, t

\* The doorbell's walk ends at the tail: there are more turns than descriptors.
LEMMA WalkEnds ==
  ASSUME Sizes, NEW t, NEW p, NEW c \in 0 .. TxLen - 1, NEW b \in 0 .. c,
         Owns(t, p, 0, c), t.tail = Ahead(p, b)
  PROVE  /\ Owns(TxWalk(t, RingGuard), p, b, c)
         /\ TxWalk(t, RingGuard).tail = t.tail
<1>0. /\ TxLen \in Nat \ {0} /\ RingGuard \in Nat /\ RingGuard >= TxLen
      /\ b \in Nat /\ b < TxLen
  BY DEF Sizes
<1>1. PICK walk : Walks(walk, t)
  BY WalkRun
<1>2. /\ walk[0] = Outset(t)
      /\ \A n \in Nat : walk[n + 1] = TxTurn(walk[n])
      /\ TxWalk(t, RingGuard) = walk[RingGuard].dev
  BY <1>0, <1>1 DEF Walks
<1> DEFINE Reached(n) == IF n < b THEN n ELSE b
           Good(n) == Owns(walk[n].dev, p, Reached(n), c) /\ walk[n].dev.tail = t.tail
           P == {n \in Nat : Good(n)}
<1>3. 0 \in P
  <2>1. walk[0].dev = t
    BY <1>2 DEF Outset
  <2>2. Reached(0) = 0
    BY <1>0
  <2> HIDE DEF Reached
  <2>3. Good(0)
    BY <2>1, <2>2
  <2> QED BY <2>3
<1>4. ASSUME NEW n \in Nat, n \in P PROVE n + 1 \in P
  <2>1. Good(n) /\ walk[n + 1] = TxTurn(walk[n]) /\ n + 1 \in Nat
    BY <1>2, <1>4
  <2>2. CASE n < b
    <3>1. Reached(n) = n /\ Reached(n + 1) = n + 1 /\ n \in 0 .. b
      BY <1>0, <2>2
    <3> HIDE DEF Reached
    <3>2. Owns(walk[n].dev, p, n, c) /\ walk[n].dev.tail = Ahead(p, b)
      BY <2>1, <3>1
    <3>3. Owns(TxTurn(walk[n]).dev, p, n + 1, c)
          /\ TxTurn(walk[n]).dev.tail = walk[n].dev.tail
      BY ZenonT(40), <2>2, <3>1, <3>2, TurnTakes
    <3>4. Good(n + 1)
      BY <2>1, <3>1, <3>3
    <3> HIDE DEF Good
    <3> QED BY <2>1, <3>4
  <2>3. CASE ~(n < b)
    <3>1. Reached(n) = b /\ Reached(n + 1) = b
      BY <1>0, <2>3
    <3> HIDE DEF Reached
    <3>2. walk[n].dev.cur_tx = walk[n].dev.tail
      BY Zenon, <2>1, <3>1 DEF Owns
    <3>3. walk[n + 1] = walk[n]
      BY <2>1, <3>2 DEF TxTurn
    <3>4. Good(n + 1)
      BY <2>1, <3>1, <3>3
    <3> HIDE DEF Good
    <3> QED BY <2>1, <3>4
  <2> HIDE DEF P
  <2> QED BY <2>2, <2>3
<1> HIDE DEF P
<1>5. RingGuard \in P
  BY <1>0, <1>3, <1>4, AllNumbers
<1>6. Reached(RingGuard) = b
  BY <1>0
<1> QED BY <1>2, <1>5, <1>6 DEF P

-----------------------------------------------------------------------------
\* On the ring the tail, the end of the last complete frame and the slot the driver
\* fills next follow the device, in this order, and what it has posted is what the
\* device owns.
RingOrder(t, d, a, b, c) ==
  /\ Owns(t, t.cur_tx, 0, c)
  /\ t.tail = Ahead(t.cur_tx, a)
  /\ d.mark = Ahead(t.cur_tx, b)
  /\ d.put = Ahead(t.cur_tx, c)

TxInv ==
  s.cur_tx # NoRing =>
    \E c \in 0 .. TxLen - 1 : \E b \in 0 .. c : \E a \in 0 .. b :
      RingOrder(s, drv, a, b, c)

EnetType ==
  /\ DOMAIN s = Fields /\ IsRing(s) /\ DOMAIN drv = Notes
  /\ arrived \in Nat /\ netq \in Seq({Frame(f) : f \in Nat})

EnetInv == EnetType /\ LineDrawn(s) /\ TxInv

\* A step that leaves the transmitter's state and the driver's two slots alone.
LEMMA TxUntouched ==
  ASSUME EnetInv, KeepsTx(s, s'), drv'.mark = drv.mark, drv'.put = drv.put
  PROVE  IsRing(s') /\ TxInv' /\ StallsLate
<1>1. /\ DOMAIN s' = Fields /\ s'.tx = s.tx /\ s'.cur_tx = s.cur_tx
      /\ s'.tail = s.tail
  BY DEF KeepsTx
<1>2. IsRing(s')
  BY <1>1 DEF EnetInv, EnetType, IsRing
<1>3. TxInv'
  BY ZenonT(40), <1>1, <1>2 DEF EnetInv, TxInv, RingOrder, Owns
<1>4. StallsLate
  BY <1>1 DEF StallsLate, Stalled, TxReady
<1> QED BY <1>2, <1>3, <1>4

\* The driver sets the transmit ring up: it is empty.
LEMMA TxSetup ==
  ASSUME Sizes, EnetInv, SetupTx
  PROVE  EnetInv' /\ StallsLate
<1>0. TxLen \in Nat \ {0, 1} /\ RxLen \in Nat \ {0}
  BY DEF Sizes
<1>1. /\ s' = [s EXCEPT !.tx = [i \in TxSlot |-> Spent], !.cur_tx = 0, !.tail = 0]
      /\ drv' = [drv EXCEPT !.put = 0, !.mark = 0, !.pieces = 0]
      /\ UNCHANGED <<netq, arrived>>
      /\ DOMAIN s = Fields /\ DOMAIN drv = Notes /\ LineDrawn(s)
  BY DEF SetupTx, EnetInv, EnetType
<1>2. /\ DOMAIN s' = Fields /\ s'.tx = [i \in TxSlot |-> Spent]
      /\ s'.cur_tx = 0 /\ s'.tail = 0
      /\ s'.irq = s.irq /\ s'.status = s.status /\ s'.int_en = s.int_en
  BY <1>1 DEF Fields
<1>3. DOMAIN drv' = Notes /\ drv'.put = 0 /\ drv'.mark = 0
  BY <1>1 DEF Notes
<1>4. IsRing(s') /\ \A i \in TxSlot : s'.tx[i].own = FALSE
  <2>1. "own" \in DOMAIN Spent /\ Spent.own = FALSE
    BY DEF Spent
  <2>2. DOMAIN s'.tx = TxSlot /\ \A i \in TxSlot : s'.tx[i] = Spent
    BY <1>2
  <2> QED BY Zenon, <2>1, <2>2 DEF IsRing
<1>5. 0 \in TxSlot /\ 0 \in 0 .. TxLen - 1 /\ TxSlot = 0 .. TxLen - 1 /\ 0 \in 0 .. 0
  BY <1>0 DEF TxSlot
<1>6. Ahead(0, 0) = 0 /\ \A k \in 0 .. TxLen - 1 : Ahead(0, k) \in TxSlot
  <2>1. \A k \in 0 .. TxLen - 1 : k \in 0 .. TxLen
    BY <1>0
  <2> QED BY <1>5, <2>1, AheadFacts
<1>7. Owns(s', 0, 0, 0)
  <2>1. \A k \in 0 .. TxLen - 1 : ~(k < 0)
    BY <1>0
  <2> QED BY <1>2, <1>4, <1>5, <1>6, <2>1 DEF Owns
<1>8. RingOrder(s, drv, 0, 0, 0)'
  BY <1>2, <1>3, <1>6, <1>7 DEF RingOrder
<1>9. TxInv'
  BY <1>5, <1>8 DEF TxInv
<1>10. LineDrawn(s')
  BY <1>1, <1>2 DEF LineDrawn, IrqWanted
<1>11. StallsLate
  BY <1>2 DEF StallsLate, Stalled
<1> QED BY <1>1, <1>2, <1>3, <1>4, <1>9, <1>10, <1>11 DEF EnetInv, EnetType

\* The driver posts a descriptor: there was room for it, and one slot stays free.
LEMMA TxPosts ==
  ASSUME Sizes, EnetInv, NEW ioc \in BOOLEAN, TxPut(ioc)
  PROVE  EnetInv' /\ StallsLate
<1> DEFINE p == s.cur_tx
           next == (drv.put + 1) % TxLen
           f == Frame(MaxFrames + drv.posted + 1)
           n == drv.pieces + 1
           desc == [own |-> TRUE, fd |-> n = 1, ld |-> n = Len(f), data |-> f[n],
                    ioc |-> n = Len(f) /\ ioc]
<1>0. TxLen \in Nat \ {0, 1} /\ RxLen \in Nat \ {0} /\ TxSlot = 0 .. TxLen - 1
  BY DEF Sizes, TxSlot
<1>1. PICK c \in 0 .. TxLen - 1 : \E b \in 0 .. c : \E a \in 0 .. b :
        RingOrder(s, drv, a, b, c)
  BY DEF TxPut, EnetInv, TxInv
<1>order. PICK b \in 0 .. c : \E a \in 0 .. b : RingOrder(s, drv, a, b, c)
  BY <1>1
<1>2. PICK a \in 0 .. b : RingOrder(s, drv, a, b, c)
  BY <1>order
<1>3. /\ DOMAIN s = Fields /\ IsRing(s) /\ p \in 0 .. TxLen - 1
      /\ s.tail = Ahead(p, a) /\ drv.mark = Ahead(p, b) /\ drv.put = Ahead(p, c)
      /\ \A k \in 0 .. TxLen - 1 : s.tx[Ahead(p, k)].own <=> (0 <= k /\ k < c)
  BY <1>0, <1>2 DEF RingOrder, Owns
<1> HIDE DEF p
<1>ring. /\ \A k \in 0 .. TxLen : Ahead(p, k) \in 0 .. TxLen - 1
         /\ \A j, k \in 0 .. TxLen - 1 : Ahead(p, j) = Ahead(p, k) => j = k
         /\ Ahead(p, 0) = p /\ Ahead(p, TxLen) = p
         /\ \A j \in 0 .. TxLen - 1 : (Ahead(p, j) + 1) % TxLen = Ahead(p, j + 1)
  BY ZenonT(40), <1>3, AheadFacts
<1>4. next = Ahead(p, c + 1)
  BY <1>3, <1>ring
<1>5. c + 1 \in 0 .. TxLen - 1
  <2> SUFFICES ASSUME c = TxLen - 1 PROVE FALSE
    BY <1>0
  <2>1. next = p
    BY <1>0, <1>4, <1>ring
  <2>2. Ahead(p, 0) = p /\ 0 \in 0 .. TxLen - 1 /\ 0 < c /\ 0 <= 0
    BY <1>0, <1>ring
  <2>3. s.tx[p].own
    BY <1>3, <2>2
  <2> QED BY <2>1, <2>3 DEF TxPut
<1>6. /\ s' = [s EXCEPT !.tx[drv.put] = desc]
      /\ "own" \in DOMAIN desc /\ desc.own = TRUE
  BY DEF TxPut
<1>7. /\ DOMAIN drv' = Notes /\ drv'.put = next /\ drv'.mark \in {next, drv.mark}
      /\ UNCHANGED <<netq, arrived>>
  BY DEF TxPut, EnetInv, EnetType, Notes
<1>8. /\ DOMAIN s' = Fields /\ s'.cur_tx = p /\ s'.tail = s.tail
      /\ s'.tx = [s.tx EXCEPT ![drv.put] = desc]
      /\ s'.irq = s.irq /\ s'.status = s.status /\ s'.int_en = s.int_en
      /\ s'.mac = s.mac /\ s'.st = s.st
  BY <1>3, <1>6 DEF Fields, p
<1>9. drv.put \in TxSlot
  <2>1. c \in 0 .. TxLen
    BY <1>0
  <2> QED BY ZenonT(40), <1>0, <1>3, <1>ring, <2>1
<1> HIDE DEF next, desc
<1>10. \A i \in TxSlot : s'.tx[i] = IF i = drv.put THEN desc ELSE s.tx[i]
  BY <1>3, <1>8, <1>9 DEF IsRing
<1>11. IsRing(s')
  <2>1. DOMAIN s'.tx = TxSlot
    BY <1>3, <1>8 DEF IsRing
  <2> QED BY ZenonT(40), <1>3, <1>6, <1>10, <2>1 DEF IsRing
<1>12. ASSUME NEW k \in 0 .. TxLen - 1
       PROVE  s'.tx[Ahead(p, k)].own <=> (0 <= k /\ k < c + 1)
  <2>1. Ahead(p, k) \in TxSlot /\ (Ahead(p, k) = drv.put <=> k = c)
    <3>1. k \in 0 .. TxLen
      BY <1>0
    <3> QED BY ZenonT(40), <1>0, <1>3, <1>ring, <3>1
  <2>2. CASE k = c
    <3>1. 0 <= k /\ k < c + 1
      BY <1>0, <2>2
    <3> QED BY <1>6, <1>10, <2>1, <2>2, <3>1
  <2>3. CASE k # c
    <3>1. (0 <= k /\ k < c + 1) <=> (0 <= k /\ k < c)
      BY <1>0, <2>3
    <3> QED BY <1>3, <1>10, <2>1, <2>3, <3>1
  <2> QED BY <2>2, <2>3
<1>13. Owns(s', p, 0, c + 1)
  BY Zenon, <1>0, <1>3, <1>8, <1>11, <1>12, <1>ring DEF Owns
<1>14. TxInv'
  <2>1. PICK e \in {b, c + 1} : drv'.mark = Ahead(p, e)
    BY <1>3, <1>4, <1>7
  <2>2. e \in 0 .. c + 1 /\ a \in 0 .. e
    BY <1>0
  <2>3. RingOrder(s, drv, a, e, c + 1)'
    BY <1>3, <1>4, <1>7, <1>8, <1>13, <2>1 DEF RingOrder
  <2> QED BY <1>5, <2>2, <2>3 DEF TxInv
<1>15. LineDrawn(s')
  BY <1>8 DEF EnetInv, LineDrawn, IrqWanted
<1>16. StallsLate
  <2> SUFFICES ASSUME TxReady(s'), s'.cur_tx # s'.tail, s'.tx[s'.cur_tx].own
               PROVE  Stalled(s)
    BY DEF StallsLate, Stalled
  <2>1. TxReady(s) /\ p # s.tail /\ s.cur_tx = p
    BY <1>8 DEF TxReady, p
  <2>2. drv.put # p
    <3> SUFFICES ASSUME drv.put = p PROVE FALSE
      OBVIOUS
    <3>1. 0 \in 0 .. TxLen - 1 /\ Ahead(p, 0) = p
      BY <1>0, <1>ring
    <3>2. Ahead(p, c) = Ahead(p, 0)
      BY <1>3, <3>1
    <3>3. c = 0
      BY <1>0, <1>ring, <3>1, <3>2
    <3>4. a = 0
      BY <1>0, <3>3
    <3> QED BY ZenonT(40), <1>3, <2>1, <3>1, <3>4
  <2>3. s.tx[p].own
    BY Zenon, <1>0, <1>3, <1>8, <1>10, <2>2
  <2> QED BY <2>1, <2>3 DEF Stalled
<1> QED BY <1>7, <1>8, <1>11, <1>14, <1>15, <1>16 DEF EnetInv, EnetType

\* Counting on past the end of the ring.
LEMMA AheadAround ==
  ASSUME Sizes, NEW p \in 0 .. TxLen - 1, NEW j \in 0 .. TxLen - 1, NEW k \in 0 .. TxLen - 1
  PROVE  Ahead(Ahead(p, j), k)
           = Ahead(p, IF j + k < TxLen THEN j + k ELSE j + k - TxLen)
<1> DEFINE d == Ahead(p, j)
           m == IF j + k < TxLen THEN j + k ELSE j + k - TxLen
<1>0. TxLen \in Nat \ {0}
  BY DEF Sizes
<1>1. j \in 0 .. TxLen /\ k \in 0 .. TxLen /\ m \in 0 .. TxLen
  BY <1>0
<1>2. d = IF p + j < TxLen THEN p + j ELSE p + j - TxLen
  BY <1>1, AheadIs
<1>3. d \in 0 .. TxLen - 1
  BY <1>0, <1>2
<1>4. Ahead(p, m) = IF p + m < TxLen THEN p + m ELSE p + m - TxLen
  BY <1>1, AheadIs
<1> HIDE DEF d
<1>5. Ahead(d, k) = IF d + k < TxLen THEN d + k ELSE d + k - TxLen
  BY <1>1, <1>3, AheadIs
<1>6. Ahead(d, k) = Ahead(p, m)
  BY <1>0, <1>2, <1>4, <1>5
<1> QED BY <1>6 DEF d

\* The device at the end of its walk, counted from where it is now.
LEMMA OwnsFromThere ==
  ASSUME Sizes, NEW t, NEW p, NEW c \in 0 .. TxLen - 1, NEW b \in 0 .. c, Owns(t, p, b, c)
  PROVE  Owns(t, t.cur_tx, 0, c - b)
<1> DEFINE d == Ahead(p, b)
<1>0. TxLen \in Nat \ {0} /\ TxSlot = 0 .. TxLen - 1
  BY DEF Sizes, TxSlot
<1>1. /\ DOMAIN t = Fields /\ IsRing(t) /\ p \in 0 .. TxLen - 1 /\ t.cur_tx = d
      /\ \A k \in 0 .. TxLen - 1 : t.tx[Ahead(p, k)].own <=> (b <= k /\ k < c)
  BY <1>0 DEF Owns
<1>2. b \in 0 .. TxLen - 1 /\ b \in 0 .. TxLen
  BY <1>0
<1>3. d \in 0 .. TxLen - 1
  BY ZenonT(40), <1>1, <1>2, AheadFacts
<1> HIDE DEF d
<1>4. Ahead(d, 0) = d
  BY <1>3, AheadFacts
<1>5. ASSUME NEW k \in 0 .. TxLen - 1
      PROVE  t.tx[Ahead(d, k)].own <=> (0 <= k /\ k < c - b)
  <2> DEFINE m == IF b + k < TxLen THEN b + k ELSE b + k - TxLen
  <2>1. Ahead(d, k) = Ahead(p, m)
    BY <1>1, <1>2, AheadAround DEF d
  <2>2. m \in 0 .. TxLen - 1
    BY <1>0, <1>2
  <2>3. (b <= m /\ m < c) <=> (0 <= k /\ k < c - b)
    BY <1>0, <1>2
  <2> HIDE DEF m
  <2> QED BY <1>1, <2>1, <2>2, <2>3
<1> QED BY Zenon, <1>0, <1>1, <1>3, <1>4, <1>5 DEF Owns

\* The doorbell: the device takes everything up to the tail.
LEMMA TxDoorbell ==
  ASSUME Sizes, EnetInv, WriteTxTail
  PROVE  EnetInv' /\ StallsLate
<1> DEFINE p == s.cur_tx
           t == [s EXCEPT !.tail = drv.mark]
           u == TxWalk(t, RingGuard)
<1>0. TxLen \in Nat \ {0, 1} /\ RxLen \in Nat \ {0} /\ TxSlot = 0 .. TxLen - 1
  BY DEF Sizes, TxSlot
<1>1. PICK c \in 0 .. TxLen - 1 : \E b \in 0 .. c : \E a \in 0 .. b :
        RingOrder(s, drv, a, b, c)
  BY DEF WriteTxTail, EnetInv, TxInv
<1>2. PICK b \in 0 .. c : \E a \in 0 .. b : RingOrder(s, drv, a, b, c)
  BY <1>1
<1>3. /\ Owns(s, p, 0, c) /\ drv.mark = Ahead(p, b) /\ drv.put = Ahead(p, c)
  BY <1>2 DEF RingOrder
<1>4. /\ s' = (IF TxReady(t) THEN mcxn_enet_update_irq(u) ELSE t)
      /\ UNCHANGED <<netq, arrived, drv>>
  BY DEF WriteTxTail, mcxn_enet_tx_process
<1>5. /\ DOMAIN t = Fields /\ t.tx = s.tx /\ t.cur_tx = p /\ t.tail = drv.mark
      /\ t.irq = s.irq /\ t.status = s.status /\ t.int_en = s.int_en
      /\ t.mac = s.mac /\ t.st = s.st
  BY DEF EnetInv, EnetType, Fields
<1>place. p \in 0 .. TxLen - 1 /\ s.cur_tx = p /\ IsRing(s) /\ LineDrawn(s)
  BY <1>0, <1>3 DEF Owns, EnetInv, EnetType
<1> HIDE DEF t, p
<1>6. Owns(t, p, 0, c) /\ IsRing(t)
  BY Zenon, <1>3, <1>5, <1>place DEF Owns, IsRing
<1>7. CASE TxReady(t)
  <2>1. Owns(u, p, b, c) /\ u.tail = t.tail
    BY Zenon, <1>3, <1>5, <1>6, WalkEnds
  <2> HIDE DEF u
  <2>2. KeepsTx(u, s') /\ LineDrawn(s')
    BY ZenonT(40), <1>4, <1>7, <2>1, LineUpdated DEF Owns
  <2>3. DOMAIN s' = Fields /\ s'.tx = u.tx /\ s'.cur_tx = u.cur_tx /\ s'.tail = drv.mark
    BY <1>5, <2>1, <2>2 DEF KeepsTx
  <2>4. IsRing(s')
    BY <2>1, <2>3 DEF Owns, IsRing
  <2>5. Owns(s', p, b, c) /\ s'.cur_tx = Ahead(p, b)
    BY <2>1, <2>3, <2>4 DEF Owns
  <2>6. Owns(s', s'.cur_tx, 0, c - b)
    BY <2>5, OwnsFromThere
  <2>7. /\ b \in 0 .. TxLen - 1 /\ b \in 0 .. TxLen /\ c - b \in 0 .. TxLen - 1
        /\ b + (c - b) <= TxLen /\ b + (c - b) = c
        /\ 0 \in 0 .. c - b /\ 0 \in 0 .. 0
    BY <1>0
  <2>8. Ahead(Ahead(p, b), c - b) = Ahead(p, b + (c - b))
    BY <1>place, <2>7, AheadFacts
  <2>9. Ahead(p, b) \in 0 .. TxLen - 1
    BY <1>place, <2>7, AheadFacts
  <2>10. Ahead(Ahead(p, b), 0) = Ahead(p, b)
    BY <2>9, AheadFacts
  <2>11. RingOrder(s', drv', 0, 0, c - b)
    BY Zenon, <1>3, <1>4, <2>3, <2>5, <2>6, <2>7, <2>8, <2>10 DEF RingOrder
  <2>12. TxInv'
    BY <2>7, <2>11 DEF TxInv
  <2>13. StallsLate
    BY Zenon, <1>3, <2>3, <2>5 DEF StallsLate, Stalled
  <2> QED BY Zenon, <1>4, <2>2, <2>3, <2>4, <2>12, <2>13 DEF EnetInv, EnetType
<1>8. CASE ~TxReady(t)
  <2>1. s' = t
    BY <1>4, <1>8
  <2>2. LineDrawn(s')
    BY <1>5, <1>place, <2>1 DEF LineDrawn, IrqWanted
  <2>3. RingOrder(s', drv', b, b, c)
    BY Zenon, <1>3, <1>4, <1>5, <1>6, <2>1 DEF RingOrder
  <2>4. b \in 0 .. b
    BY <1>0
  <2>5. TxInv'
    BY <2>3, <2>4 DEF TxInv
  <2>6. ~TxReady(s)
    BY ZenonT(40), <1>5, <1>8, <1>place DEF TxReady
  <2> QED BY Zenon, <1>4, <1>5, <1>6, <2>1, <2>2, <2>5, <2>6
        DEF EnetInv, EnetType, StallsLate
<1> QED BY <1>7, <1>8

\* A step that leaves the transmitter alone and draws the line.
LEMMA EnetQuiet ==
  ASSUME EnetInv, KeepsTx(s, s'), LineDrawn(s'), DOMAIN drv' = Notes,
         drv'.mark = drv.mark, drv'.put = drv.put, arrived' \in Nat,
         netq' \in Seq({Frame(f) : f \in Nat})
  PROVE  EnetInv' /\ StallsLate
<1>1. IsRing(s') /\ TxInv' /\ StallsLate
  BY TxUntouched
<1>2. DOMAIN s' = Fields
  BY DEF KeepsTx
<1> QED BY <1>1, <1>2 DEF EnetInv, EnetType

\* Every step of the ENET's machine keeps the line drawn and the ring in order, and only
\* a doorbell that finds the transmitter off leaves a frame behind.
LEMMA EnetStep ==
  ASSUME Sizes, EnetInv, EnetNext
  PROVE  EnetInv' /\ StallsLate
<1> DEFINE Queue == Seq({Frame(f) : f \in Nat})
<1>0. /\ DOMAIN s = Fields /\ IsRing(s) /\ DOMAIN drv = Notes /\ LineDrawn(s)
      /\ arrived \in Nat /\ netq \in Queue /\ << >> \in Queue /\ Len(netq) \in Nat
      /\ KeepsTx(s, s)
  BY DEF EnetInv, EnetType, KeepsTx
<1> HIDE DEF Queue
<1>1. CASE qemu_net_queue_send
  <2> DEFINE x == Frame(arrived + 1)
             u == mcxn_enet_deliver(s, x)
  <2>1. arrived' \in Nat /\ UNCHANGED drv
    BY <1>0, <1>1 DEF qemu_net_queue_send
  <2>2. CASE s' = Flushed(u, netq) /\ netq' = << >>
    <3>1. KeepsTx(s, u) /\ LineDrawn(u)
      BY <1>0, DeliverKeeps
    <3> HIDE DEF u
    <3>2. KeepsTx(u, s') /\ LineDrawn(s')
      BY <1>0, <2>2, <3>1, FlushKeeps DEF KeepsTx
    <3>3. KeepsTx(s, s')
      BY Zenon, <3>1, <3>2 DEF KeepsTx
    <3> QED BY <1>0, <2>1, <2>2, <3>2, <3>3, EnetQuiet DEF Queue
  <2>3. CASE netq' = Append(netq, x) /\ UNCHANGED s
    <3>1. arrived + 1 \in Nat
      BY <1>0
    <3>2. x \in {Frame(f) : f \in Nat}
      BY <3>1
    <3> HIDE DEF x
    <3>3. netq' \in Queue
      BY <1>0, <2>3, <3>2 DEF Queue
    <3> QED BY <1>0, <2>1, <2>3, <3>3, EnetQuiet DEF Queue
  <2> QED BY <1>1, <2>2, <2>3 DEF qemu_net_queue_send
<1>2. ASSUME NEW t, KeepsTx(s, t), LineDrawn(t), StoreAndFlush(t)
      PROVE  EnetInv' /\ StallsLate
  <2>1. UNCHANGED <<arrived, drv>>
    BY <1>2 DEF StoreAndFlush
  <2>2. CASE s' = Flushed(t, netq) /\ netq' = << >>
    <3>1. KeepsTx(t, s') /\ LineDrawn(s')
      BY <1>0, <1>2, <2>2, FlushKeeps DEF KeepsTx
    <3>2. KeepsTx(s, s')
      BY Zenon, <1>2, <3>1 DEF KeepsTx
    <3> QED BY <1>0, <2>1, <2>2, <3>1, <3>2, EnetQuiet DEF Queue
  <2>3. CASE s' = t /\ UNCHANGED netq
    BY <1>0, <1>2, <2>1, <2>3, EnetQuiet DEF Queue
  <2> QED BY <1>2, <2>2, <2>3 DEF StoreAndFlush
<1>3. CASE \E v \in MacIn : WriteMacConfiguration(v)
  <2>1. PICK v \in MacIn : StoreAndFlush([s EXCEPT !.mac = v])
    BY <1>3 DEF WriteMacConfiguration
  <2> DEFINE t == [s EXCEPT !.mac = v]
  <2>2. KeepsTx(s, t) /\ t.irq = s.irq /\ t.status = s.status /\ t.int_en = s.int_en
    BY Zenon, <1>0 DEF KeepsTx, Fields
  <2> HIDE DEF t
  <2>3. LineDrawn(t)
    BY <1>0, <2>2 DEF LineDrawn, IrqWanted
  <2> QED BY <1>2, <2>1, <2>2, <2>3 DEF t
<1>4. CASE \E v \in BOOLEAN : WriteRxCtrl(v)
  <2>1. PICK v \in BOOLEAN : StoreAndFlush([s EXCEPT !.sr = v])
    BY <1>4 DEF WriteRxCtrl
  <2> DEFINE t == [s EXCEPT !.sr = v]
  <2>2. KeepsTx(s, t) /\ t.irq = s.irq /\ t.status = s.status /\ t.int_en = s.int_en
    BY <1>0 DEF KeepsTx, Fields
  <2> HIDE DEF t
  <2>3. LineDrawn(t)
    BY <1>0, <2>2 DEF LineDrawn, IrqWanted
  <2> QED BY <1>2, <2>1, <2>2, <2>3 DEF t
<1>5. CASE \E v \in BOOLEAN : WriteTxCtrl(v)
  <2>1. PICK v \in BOOLEAN : s' = [s EXCEPT !.st = v] /\ UNCHANGED <<netq, arrived, drv>>
    BY <1>5 DEF WriteTxCtrl
  <2>2. /\ KeepsTx(s, s')
        /\ s'.irq = s.irq /\ s'.status = s.status /\ s'.int_en = s.int_en
    BY Zenon, <1>0, <2>1 DEF KeepsTx, Fields
  <2>3. LineDrawn(s')
    BY <1>0, <2>2 DEF LineDrawn, IrqWanted
  <2> QED BY <1>0, <2>1, <2>2, <2>3, EnetQuiet DEF Queue
<1>6. CASE WriteRxTail
  <2>1. KeepsTx(s, s') /\ LineDrawn(s')
    BY Zenon, <1>0, <1>6, FlushKeeps DEF WriteRxTail
  <2> QED BY <1>0, <1>6, <2>1, EnetQuiet DEF WriteRxTail, Queue
<1>7. ASSUME NEW t, KeepsTx(s, t), s' = mcxn_enet_update_irq(t),
             netq' \in Queue, UNCHANGED <<arrived, drv>>
      PROVE  EnetInv' /\ StallsLate
  <2>1. KeepsTx(t, s') /\ LineDrawn(s')
    BY <1>7, LineUpdated DEF KeepsTx
  <2>2. KeepsTx(s, s')
    BY Zenon, <1>7, <2>1 DEF KeepsTx
  <2> QED BY <1>0, <1>7, <2>1, <2>2, EnetQuiet DEF Queue
<1>8. CASE WriteStatus
  <2>1. KeepsTx(s, [s EXCEPT !.status = {}])
    BY <1>0 DEF KeepsTx, Fields
  <2> QED BY <1>0, <1>7, <1>8, <2>1 DEF WriteStatus
<1>9. CASE \E v \in IntIn : WriteIntEn(v)
  <2>1. PICK v \in IntIn : WriteIntEn(v)
    BY <1>9
  <2>2. KeepsTx(s, [s EXCEPT !.int_en = v])
    BY <1>0 DEF KeepsTx, Fields
  <2> QED BY <1>0, <1>7, <2>1, <2>2 DEF WriteIntEn
<1>10. CASE VmStop
  <2>1. KeepsTx(s, Flushed(s, netq))
    BY <1>0, FlushKeeps
  <2> QED BY <1>0, <1>7, <1>10, <2>1 DEF VmStop
<1>11. CASE mcxn_enet_reset
  <2>1. /\ DOMAIN s' = Fields /\ s'.cur_tx = NoRing /\ s'.tx = s.tx
        /\ s'.irq = FALSE /\ s'.status = {}
        /\ DOMAIN drv' = Notes /\ UNCHANGED <<netq, arrived>>
    BY <1>0, <1>11 DEF mcxn_enet_reset, Regs, Fields, Notes
  <2>2. LineDrawn(s')
    BY Zenon, <2>1 DEF LineDrawn, IrqWanted
  <2>3. TxInv' /\ IsRing(s') /\ StallsLate
    BY Zenon, <1>0, <2>1 DEF TxInv, IsRing, StallsLate, Stalled, TxReady
  <2> QED BY Zenon, <1>0, <2>1, <2>2, <2>3 DEF EnetInv, EnetType, Queue
<1>12. CASE SetupRx
  <2>1. /\ KeepsTx(s, s')
        /\ s'.irq = s.irq /\ s'.status = s.status /\ s'.int_en = s.int_en
        /\ DOMAIN drv' = Notes /\ drv'.mark = drv.mark /\ drv'.put = drv.put
        /\ UNCHANGED <<netq, arrived>>
    BY <1>0, <1>12 DEF SetupRx, KeepsTx, Fields, Notes
  <2>2. LineDrawn(s')
    BY Zenon, <1>0, <2>1 DEF LineDrawn, IrqWanted
  <2> QED BY Zenon, <1>0, <2>1, <2>2, EnetQuiet DEF Queue
<1>13. CASE RxTake
  <2>1. /\ KeepsTx(s, s')
        /\ s'.irq = s.irq /\ s'.status = s.status /\ s'.int_en = s.int_en
        /\ DOMAIN drv' = Notes /\ drv'.mark = drv.mark /\ drv'.put = drv.put
        /\ UNCHANGED <<netq, arrived>>
    BY <1>0, <1>13 DEF RxTake, KeepsTx, Fields, Notes
  <2>2. LineDrawn(s')
    BY <1>0, <2>1 DEF LineDrawn, IrqWanted
  <2> QED BY Zenon, <1>0, <2>1, <2>2, EnetQuiet DEF Queue
<1> QED BY Zenon, <1>1, <1>3, <1>4, <1>5, <1>6, <1>8, <1>9, <1>10, <1>11, <1>12,
           <1>13,
           TxSetup, TxPosts, TxDoorbell DEF EnetNext

\* Out of reset the ring is not set up and the line is down.
LEMMA EnetInitInv == EnetInit => EnetInv
<1> SUFFICES ASSUME EnetInit PROVE EnetInv
  OBVIOUS
<1>1. /\ DOMAIN s = Fields /\ s.cur_tx = NoRing /\ s.irq = FALSE /\ s.status = {}
      /\ s.tx = [i \in TxSlot |-> Spent]
      /\ DOMAIN drv = Notes /\ arrived \in Nat
      /\ netq \in Seq({Frame(f) : f \in Nat})
  <2>1. /\ DOMAIN s = Fields /\ s.cur_tx = NoRing /\ s.irq = FALSE
        /\ s.status = {}
    BY Zenon DEF EnetInit, Regs, Fields
  <2>2. s.tx = [i \in TxSlot |-> Spent]
    BY Zenon DEF EnetInit, Regs
  <2>3. DOMAIN drv = Notes /\ arrived \in Nat
    BY DEF EnetInit, Notes
  <2>4. netq = << >>
    BY DEF EnetInit
  <2> DEFINE F == {Frame(f) : f \in Nat}
  <2> HIDE DEF F
  <2>5. netq \in Seq(F)
    BY <2>4
  <2> QED BY Zenon, <2>1, <2>2, <2>3, <2>5 DEF F
<1>2. "own" \in DOMAIN Spent /\ Spent.own \in BOOLEAN
  BY DEF Spent
<1>3. IsRing(s)
  BY <1>1, <1>2 DEF IsRing
<1>4. LineDrawn(s) /\ TxInv
  BY ZenonT(40), <1>1 DEF LineDrawn, IrqWanted, TxInv
<1> QED BY <1>1, <1>3, <1>4 DEF EnetInv, EnetType
=============================================================================

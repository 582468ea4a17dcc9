--------------------------- MODULE DacStreamProofs ---------------------------
(***************************************************************************)
(* Proofs about DacStream for any buffer, FIFO depth, watermark, period,      *)
(* lateness and number of pauses: the eDMA never overruns the DAC's FIFO, no  *)
(* request is forgotten, the waveform is in order and, without -icount, has   *)
(* no gap.                                                                   *)
(***************************************************************************)
EXTENDS DacStream, TLAPS

\* The driver's positions up to each of its writes.
ToGcr == {"fcr", "gcr"}
ToAddr == ToGcr \cup {"fsr", "addr"}
ToCiter == ToAddr \cup {"citer"}
ToBiter == ToCiter \cup {"biter"}
ToMux == ToBiter \cup {"csr", "mux"}
ToErq == ToMux \cup {"erq"}
ToDer == ToErq \cup {"der"}
ToRun == ToDer \cup {"trig", "clk", "mr", "mcr", "tcr"}

Iters == [elink : {FALSE}, link : {0}, n : 0 .. N]
Csrs == [start : {FALSE}, intmajor : BOOLEAN, dreq : BOOLEAN, esg : {FALSE},
         majorelink : {FALSE}, majorlink : {0}]
Tcds == [citer : Iters, biter : Iters, csr : Csrs, err : {{}, {"NCE"}}, adjErr : {{}},
         sga : {"bad"}]
Chans == [erq : BOOLEAN, eei : {FALSE}, done : BOOLEAN, es : {{}}, intr : BOOLEAN,
          mux : {0, 1}, tcd : Tcds]

\* The channel carries what the driver has written so far, and nothing is refused.
ChanInv ==
  /\ ch \in [{0} -> Chans]
  /\ ch[0].erq => step \notin ToErq
  /\ step \notin ToAddr => ch[0].tcd.err = {}
  /\ step \notin ToCiter => ch[0].tcd.citer.n >= 1
  /\ step \notin ToBiter => ch[0].tcd.biter = Citer
  /\ step \notin ToMux => ch[0].mux = 1

\* The request: level-triggered, both gates agree, and the latch is what the FIFO
\* wants.  After a system reset the DAC's own copy may be stale until the first write.
WireInv ==
  /\ reqLevel \in [{1} -> BOOLEAN]
  /\ gate \in [{1} -> BOOLEAN]
  /\ reqEnabled = gate
  /\ reqEdge = [s \in {1} |-> FALSE]
  /\ reqLevel[1] = D!DmaWanted
  /\ step # "fcr" => dma_req_level = reqLevel[1]

\* The DAC: its FIFO is on once GCR is written, it asks once DER is.
DacInv ==
  /\ D!TypeOK
  /\ step \notin ToGcr => gcr.fifoen /\ gcr.dacen
  /\ der = {} <=> step \in ToDer
  /\ NoOverflow

\* The host timer is armed by the driver's last write only.
TimerInv ==
  /\ {"cen", "due"} \subseteq DOMAIN ct
  /\ step \in ToRun => ct.cen = FALSE /\ ct.due = None

Asked == ch[0].erq /\ reqLevel[1] /\ gate[1]

\* A request outside the bottom half has scheduled it; the loop ends only when nothing
\* is asked, since every pass but the last brings a word and the FIFO is full long
\* before the backstop; the timers follow a loop that ended.
LoopInv ==
  /\ bhScheduled \in BOOLEAN
  /\ bh \in [run : BOOLEAN, n : 0 .. 1, progress : BOOLEAN, guard : 0 .. MaxLoops - 1]
  /\ loop \in {"poll", "bh", "timers"}
  /\ loop = "bh" <=> bh.run
  /\ Asked => bhScheduled \/ bh.run
  /\ loop = "timers" => ~Asked
  /\ bh.run /\ bh.n = 1 /\ ~bh.progress => ~Asked
  /\ bh.run => count >= bh.guard
  /\ bh.run /\ bh.progress => bh.n = 1 /\ count >= bh.guard + 1

\* Consecutive words from the pin through the FIFO to SADDR.
OrderInv ==
  LET q == D!Waiting
  IN  /\ next \in 1 .. N
      /\ \A i \in 1 .. count - 1 : q[i + 1] = After(q[i])
      /\ count > 0 => next = After(q[count]) /\ (out # 0 => q[1] = After(out))
      /\ count = 0 /\ out # 0 => next = After(out)

IInv ==
  /\ step \in ToRun \cup {"run"}
  /\ ChanInv /\ WireInv /\ DacInv /\ TimerInv /\ LoopInv /\ OrderInv

-----------------------------------------------------------------------------
\* Pointers stay in the ring, and moving one and counting one agree.
LEMMA RingMod ==
  ASSUME NEW r \in 0 .. Depth - 1, NEW n \in 0 .. Depth
  PROVE  /\ (r + n) % Depth \in 0 .. Depth - 1
         /\ (((r + n) % Depth) + 1) % Depth = (r + (n + 1)) % Depth
         /\ n > 0 => (((r + 1) % Depth) + (n - 1)) % Depth = (r + n) % Depth
<1> DEFINE s == (r + n) % Depth
           u == (r + 1) % Depth
<1>1. s = IF r + n < Depth THEN r + n ELSE r + n - Depth
  BY SMTT(30), Z3T(30), StreamAssumption
<1>2. s \in 0 .. Depth - 1
  BY SMTT(30), Z3T(30), <1>1, StreamAssumption
<1>3. (s + 1) % Depth = IF s + 1 < Depth THEN s + 1 ELSE 0
  BY SMTT(30), Z3T(30), <1>2, StreamAssumption
<1>4. (r + (n + 1)) % Depth = IF s + 1 < Depth THEN s + 1 ELSE 0
  BY SMTT(30), Z3T(30), <1>1, <1>2, StreamAssumption
<1>5. u = IF r + 1 < Depth THEN r + 1 ELSE 0
  BY StreamAssumption
<1>6. n > 0 => (u + (n - 1)) % Depth = s
  BY SMTT(30), Z3T(30), <1>1, <1>5, StreamAssumption
<1> QED BY Zenon, <1>2, <1>3, <1>4, <1>6

\* The positions of the words that wait are apart from the one a store fills, and move
\* with the read pointer.
LEMMA Positions ==
  ASSUME NEW r \in 0 .. Depth - 1, NEW i \in 1 .. Depth
  PROVE  /\ (r + i - 1) % Depth \in 0 .. Depth - 1
         /\ \A n \in i .. Depth - 1 : (r + i - 1) % Depth # (r + n) % Depth
         /\ i < Depth => (((r + 1) % Depth) + i - 1) % Depth = (r + (i + 1) - 1) % Depth
<1> DEFINE s == (r + i - 1) % Depth
           u == (r + 1) % Depth
<1>1. s = IF r + i - 1 < Depth THEN r + i - 1 ELSE r + i - 1 - Depth
  BY StreamAssumption
<1>2. s \in 0 .. Depth - 1
  BY SMTT(30), Z3T(30), <1>1, StreamAssumption
<1>3. ASSUME NEW n \in i .. Depth - 1 PROVE s # (r + n) % Depth
  <2>1. (r + n) % Depth = IF r + n < Depth THEN r + n ELSE r + n - Depth
    BY StreamAssumption
  <2> QED BY SMTT(30), Z3T(30), <1>1, <2>1, StreamAssumption
<1>4. i < Depth => (u + i - 1) % Depth = (r + (i + 1) - 1) % Depth
  <2>1. u = IF r + 1 < Depth THEN r + 1 ELSE 0
    BY StreamAssumption
  <2>2. CASE r + 1 < Depth
    BY SMTT(30), Z3T(30), <2>1, <2>2, StreamAssumption
  <2>3. CASE r + 1 = Depth
    BY SMTT(30), Z3T(30), <2>1, <2>3, StreamAssumption
  <2> QED BY SMTT(30), Z3T(30), <2>2, <2>3, StreamAssumption
<1> QED BY Zenon, <1>2, <1>3, <1>4

\* A store with room puts the word behind the words that wait and keeps the ring's shape.
LEMMA QueuePut ==
  ASSUME D!TypeOK, gcr.fifoen, count < Depth, next \in 1 .. N, D!dac_push(next)
  PROVE  /\ count' = count + 1 /\ out' = out /\ latched' = latched
         /\ UNCHANGED D!regs
         /\ D!dac_update_irq
         /\ D!Waiting'[count + 1] = next
         /\ \A i \in 1 .. count : D!Waiting'[i] = D!Waiting[i]
         /\ D!TypeOK'
<1>1. /\ fifo' = [fifo EXCEPT ![wptr] = next] /\ wptr' = (wptr + 1) % Depth
      /\ count' = count + 1 /\ UNCHANGED <<D!regs, latched, rptr, out>>
      /\ D!dac_update_irq
  <2>1. ~(count >= Depth)
    BY StreamAssumption DEF D!TypeOK
  <2> QED BY <2>1 DEF D!dac_push
<1>2. /\ fifo \in [0 .. Depth - 1 -> (1 .. N) \cup {0}] /\ rptr \in 0 .. Depth - 1
      /\ count \in 0 .. Depth - 1 /\ count \in 0 .. Depth /\ count + 1 \in 0 .. Depth
      /\ count \in Nat /\ wptr = (rptr + count) % Depth
  BY StreamAssumption DEF D!TypeOK
<1>3. /\ wptr \in 0 .. Depth - 1 /\ wptr' = (rptr' + count') % Depth
      /\ wptr' \in 0 .. Depth - 1
  <2>1. /\ (rptr + count) % Depth \in 0 .. Depth - 1
        /\ (((rptr + count) % Depth) + 1) % Depth = (rptr + (count + 1)) % Depth
        /\ (rptr + (count + 1)) % Depth \in 0 .. Depth - 1
    BY <1>2, RingMod
  <2> QED BY ZenonT(40), <1>1, <1>2, <2>1
<1>4. dirq' \in BOOLEAN /\ dma_req_level' \in BOOLEAN /\ reqLevel'[1] \in BOOLEAN
  BY Zenon, <1>1 DEF D!TypeOK, D!dac_update_irq, D!DmaWanted
<1>5. fifo' \in [0 .. Depth - 1 -> (1 .. N) \cup {0}]
  BY ZenonT(40), <1>1, <1>2
<1>6. D!TypeOK'
  BY Zenon, <1>1, <1>2, <1>3, <1>4, <1>5 DEF D!TypeOK, D!regs, D!Flag
<1>7. \A i \in 1 .. count + 1 : D!Waiting'[i] = fifo'[(rptr + i - 1) % Depth]
  BY <1>1 DEF D!Waiting
<1>8. D!Waiting'[count + 1] = next
  <2>1. (rptr + (count + 1) - 1) % Depth = wptr
    BY <1>2, StreamAssumption
  <2>2. count + 1 \in 1 .. count + 1
    BY <1>2
  <2>3. fifo'[wptr] = next
    BY Zenon, <1>1, <1>2, <1>3
  <2> QED BY Zenon, <1>7, <2>1, <2>2, <2>3
<1>9. ASSUME NEW i \in 1 .. count PROVE D!Waiting'[i] = D!Waiting[i]
  <2>1. i \in 1 .. Depth /\ count \in i .. Depth - 1 /\ i \in 1 .. count + 1
    BY SMTT(30), Z3T(30), <1>2, StreamAssumption
  <2>2. /\ (rptr + i - 1) % Depth \in 0 .. Depth - 1 /\ (rptr + i - 1) % Depth # wptr
    BY SMTT(30), Z3T(30), <1>2, <2>1, Positions
  <2>3. fifo'[(rptr + i - 1) % Depth] = fifo[(rptr + i - 1) % Depth]
    BY Zenon, <1>1, <1>2, <2>2
  <2>4. D!Waiting[i] = fifo[(rptr + i - 1) % Depth]
    BY DEF D!Waiting
  <2> QED BY Zenon, <1>7, <2>1, <2>3, <2>4
<1> QED BY Zenon, <1>1, <1>6, <1>8, <1>9

\* A trigger takes the oldest word that waits, or marks an underflow, and keeps the
\* ring's shape.
LEMMA QueueGet ==
  ASSUME D!TypeOK, gcr.fifoen, gcr.dacen, D!dac_trigger
  PROVE  /\ UNCHANGED D!regs
         /\ D!dac_update_irq
         /\ count = 0 => UNCHANGED <<D!ring, out>> /\ latched' = latched \cup {"UF"}
         /\ count > 0 =>
              /\ count' = count - 1 /\ out' = D!Waiting[1] /\ latched' = latched
              /\ \A i \in 1 .. count - 1 : D!Waiting'[i] = D!Waiting[i + 1]
         /\ D!TypeOK'
<1>1. /\ UNCHANGED D!regs /\ D!dac_update_irq
      /\ \/ count = 0 /\ UNCHANGED <<D!ring, out>> /\ latched' = latched \cup {"UF"}
         \/ /\ count > 0 /\ out' = fifo[rptr] /\ rptr' = (rptr + 1) % Depth
            /\ count' = count - 1 /\ UNCHANGED <<latched, fifo, wptr>>
  BY DEF D!dac_trigger
<1>2. /\ fifo \in [0 .. Depth - 1 -> (1 .. N) \cup {0}] /\ rptr \in 0 .. Depth - 1
      /\ count \in 0 .. Depth /\ count \in Nat /\ wptr = (rptr + count) % Depth
  BY StreamAssumption DEF D!TypeOK
<1>3. dirq' \in BOOLEAN /\ dma_req_level' \in BOOLEAN /\ reqLevel'[1] \in BOOLEAN
  BY Zenon, <1>1 DEF D!TypeOK, D!dac_update_irq, D!DmaWanted
<1>4. CASE count = 0
  <2>1. UNCHANGED <<D!ring, out>> /\ latched' = latched \cup {"UF"}
    BY SMTT(30), Z3T(30), <1>1, <1>4
  <2>2. D!TypeOK'
    BY Zenon, <1>1, <1>3, <2>1 DEF D!TypeOK, D!regs, D!ring, D!Flag
  <2> QED BY SMTT(30), Z3T(30), <1>1, <1>4, <2>1, <2>2
<1>5. CASE count > 0
  <2>1. /\ out' = fifo[rptr] /\ rptr' = (rptr + 1) % Depth
        /\ count' = count - 1 /\ UNCHANGED <<latched, fifo, wptr>> /\ ~(count = 0)
    BY SMTT(30), Z3T(30), <1>1, <1>5
  <2>2. (((rptr + 1) % Depth) + (count - 1)) % Depth = (rptr + count) % Depth
    BY Zenon, <1>2, <1>5, RingMod
  <2>3. wptr' = (rptr' + count') % Depth
    BY Zenon, <1>2, <2>1, <2>2
  <2>4. count' \in 0 .. Depth /\ rptr' \in 0 .. Depth - 1
    BY SMTT(30), Z3T(30), <1>2, <1>5, <2>1, StreamAssumption
  <2>5. D!TypeOK'
    BY Zenon, <1>1, <1>2, <1>3, <2>1, <2>3, <2>4 DEF D!TypeOK, D!regs
  <2>6. out' = D!Waiting[1]
    <3>1. 1 \in 1 .. count /\ (rptr + 1 - 1) % Depth = rptr
      BY SMTT(30), Z3T(30), <1>2, <1>5, StreamAssumption
    <3>2. D!Waiting[1] = fifo[(rptr + 1 - 1) % Depth]
      BY <3>1 DEF D!Waiting
    <3> QED BY Zenon, <2>1, <3>1, <3>2
  <2>7. ASSUME NEW i \in 1 .. count - 1 PROVE D!Waiting'[i] = D!Waiting[i + 1]
    <3>1. i \in 1 .. Depth /\ i < Depth /\ i + 1 \in 1 .. count
      BY SMTT(30), Z3T(30), <1>2, StreamAssumption
    <3>2. (((rptr + 1) % Depth) + i - 1) % Depth = (rptr + (i + 1) - 1) % Depth
      BY Zenon, <1>2, <3>1, Positions
    <3>3. D!Waiting'[i] = fifo[(((rptr + 1) % Depth) + i - 1) % Depth]
      BY <2>1 DEF D!Waiting
    <3>4. D!Waiting[i + 1] = fifo[(rptr + (i + 1) - 1) % Depth]
      BY <3>1 DEF D!Waiting
    <3> QED BY Zenon, <3>2, <3>3, <3>4
  <2> QED BY Zenon, <1>1, <2>1, <2>5, <2>6, <2>7
<1> QED BY SMTT(30), Z3T(30), <1>2, <1>4, <1>5

\* The word behind the last one is a word of the buffer.
LEMMA AfterType == \A w \in 1 .. N : After(w) \in 1 .. N
BY StreamAssumption DEF After

\* The word SADDR points at goes behind the FIFO, and SADDR moves on: still in order.
LEMMA OrderPut ==
  ASSUME D!TypeOK, OrderInv, gcr.fifoen, count < Depth, D!dac_push(next),
         next' = After(next)
  PROVE  OrderInv'
<1> DEFINE q == D!Waiting
           r == D!Waiting'
<1>1. count \in Nat /\ next \in 1 .. N
  BY StreamAssumption DEF OrderInv, D!TypeOK
<1>2. /\ count' = count + 1 /\ out' = out /\ r[count + 1] = next
      /\ \A i \in 1 .. count : r[i] = q[i]
  BY <1>1, QueuePut
<1>3. next' \in 1 .. N
  BY Zenon, <1>1, AfterType
<1>4. /\ \A i \in 1 .. count - 1 : q[i + 1] = After(q[i])
      /\ count > 0 => next = After(q[count]) /\ (out # 0 => q[1] = After(out))
      /\ count = 0 /\ out # 0 => next = After(out)
  BY DEF OrderInv
<1> HIDE DEF q, r
<1>5. ASSUME NEW i \in 1 .. count PROVE r[i + 1] = After(r[i])
  <2>1. CASE i = count
    BY SMTT(30), Z3T(30), <1>1, <1>2, <1>4, <2>1
  <2>2. CASE i < count
    <3>1. i \in 1 .. count - 1 /\ i + 1 \in 1 .. count
      BY SMTT(30), Z3T(30), <1>1, <2>2
    <3> QED BY Zenon, <1>2, <1>4, <3>1
  <2> QED BY SMTT(30), Z3T(30), <1>1, <2>1, <2>2
<1>6. out # 0 => r[1] = After(out)
  <2>1. CASE count = 0
    BY SMTT(30), Z3T(30), <1>2, <1>4, <2>1
  <2>2. CASE count > 0
    <3>1. 1 \in 1 .. count
      BY SMTT(30), Z3T(30), <1>1, <2>2
    <3> QED BY Zenon, <1>2, <1>4, <2>2, <3>1
  <2> QED BY SMTT(30), Z3T(30), <1>1, <2>1, <2>2
<1>7. After(next) = next'
  BY DEF After
<1>8. /\ \A i \in 1 .. count' - 1 : r[i + 1] = After(r[i])
      /\ count' > 0 => next' = After(r[count']) /\ (out' # 0 => r[1] = After(out'))
      /\ count' # 0
  BY SMTT(30), Z3T(30), <1>1, <1>2, <1>5, <1>6
<1> QED BY Zenon, <1>3, <1>8 DEF OrderInv, r, After

\* The oldest word goes to the pin: still in order.
LEMMA OrderGet ==
  ASSUME D!TypeOK, OrderInv, gcr.fifoen, gcr.dacen, count > 0, D!dac_trigger,
         next' = next
  PROVE  OrderInv'
<1> DEFINE q == D!Waiting
           r == D!Waiting'
<1>1. count \in Nat /\ next \in 1 .. N
  BY SMTT(30), Z3T(30), StreamAssumption DEF OrderInv, D!TypeOK
<1>2. /\ count' = count - 1 /\ out' = q[1]
      /\ \A i \in 1 .. count - 1 : r[i] = q[i + 1]
  BY QueueGet
<1>3. /\ \A i \in 1 .. count - 1 : q[i + 1] = After(q[i])
      /\ next = After(q[count])
  BY DEF OrderInv
<1> HIDE DEF q, r
<1>4. ASSUME NEW i \in 1 .. count - 2 PROVE r[i + 1] = After(r[i])
  <2>1. i \in 1 .. count - 1 /\ i + 1 \in 1 .. count - 1
    BY SMTT(30), Z3T(30), <1>1
  <2> QED BY SMTT(30), Z3T(30), <1>2, <1>3, <2>1
<1>5. count' > 0 => next' = After(r[count']) /\ r[1] = After(out')
  <2> SUFFICES ASSUME count' > 0 PROVE next' = After(r[count']) /\ r[1] = After(out')
    OBVIOUS
  <2>1. count - 1 \in 1 .. count - 1 /\ 1 \in 1 .. count - 1 /\ count - 1 + 1 = count
    BY SMTT(30), Z3T(30), <1>1, <1>2
  <2> QED BY Zenon, <1>2, <1>3, <2>1
<1>6. count' = 0 => next' = After(out')
  BY SMTT(30), Z3T(30), <1>1, <1>2, <1>3
<1>7. /\ next' \in 1 .. N
      /\ \A i \in 1 .. count' - 1 : r[i + 1] = After(r[i])
      /\ count' > 0 => next' = After(r[count']) /\ (out' # 0 => r[1] = After(out'))
      /\ count' = 0 /\ out' # 0 => next' = After(out')
  BY SMTT(30), Z3T(30), <1>1, <1>2, <1>4, <1>5, <1>6
<1> QED BY <1>7 DEF OrderInv, r, After

\* The words that wait are where they were.
LEMMA OrderSame ==
  ASSUME OrderInv, UNCHANGED <<D!ring, out, next>>
  PROVE  OrderInv'
<1>1. D!Waiting' = D!Waiting
  BY DEF D!Waiting, D!ring
<1> QED BY Zenon, <1>1 DEF OrderInv, After, D!ring

\* An empty FIFO behind a silent pin.
LEMMA OrderEmpty ==
  ASSUME count' = 0, out' = 0, next' \in 1 .. N
  PROVE  OrderInv'
BY DEF OrderInv

\* One sequence behind another, by index.
LEMMA Joined ==
  ASSUME NEW S, NEW p \in Seq(S), NEW q \in Seq(S)
  PROVE  /\ p \o q \in Seq(S) /\ Len(p \o q) = Len(p) + Len(q)
         /\ \A i \in 1 .. Len(p) + Len(q) :
              (p \o q)[i] = IF i <= Len(p) THEN p[i] ELSE q[i - Len(p)]
OBVIOUS

\* The index form of the order is that of the sequence from pin to SADDR.
LEMMA OrderIsStream == D!TypeOK /\ OrderInv => StreamInOrder
<1> SUFFICES ASSUME D!TypeOK, OrderInv PROVE StreamInOrder
  OBVIOUS
<1> DEFINE Word == 0 .. N
           q == D!Waiting
           p == IF out = 0 THEN << >> ELSE <<out>>
           m == p \o q
           e == <<next>>
           w == m \o e
           a == Len(p)
<1>1. /\ fifo \in [0 .. Depth - 1 -> Word] /\ rptr \in 0 .. Depth - 1
      /\ count \in 0 .. Depth /\ count \in Nat /\ out \in Word /\ next \in Word
  <2>1. (1 .. N) \cup {0} = Word
    BY StreamAssumption
  <2> QED BY SMTT(30), Z3T(30), StreamAssumption, <2>1 DEF D!TypeOK, OrderInv
<1> HIDE DEF Word
<1>2. q \in Seq(Word) /\ Len(q) = count
  <2>1. ASSUME NEW i \in 1 .. count PROVE fifo[(rptr + i - 1) % Depth] \in Word
    <3>1. i \in 1 .. Depth
      BY SMTT(30), Z3T(30), <1>1, StreamAssumption
    <3>2. (rptr + i - 1) % Depth \in 0 .. Depth - 1
      BY Zenon, <1>1, <3>1, Positions
    <3> QED BY <1>1, <3>2
  <2>2. q \in [1 .. count -> Word]
    BY <2>1 DEF D!Waiting
  <2> QED BY SMTT(30), Z3T(30), <1>1, <2>2
<1>3. /\ next \in 1 .. N
      /\ \A i \in 1 .. count - 1 : q[i + 1] = After(q[i])
      /\ count > 0 => next = After(q[count]) /\ (out # 0 => q[1] = After(out))
      /\ count = 0 /\ out # 0 => next = After(out)
  BY DEF OrderInv
<1> HIDE DEF q
<1>4. /\ p \in Seq(Word) /\ a \in {0, 1} /\ a = (IF out = 0 THEN 0 ELSE 1)
      /\ (a = 1 => p[1] = out)
  BY <1>1
<1>5. e \in Seq(Word) /\ Len(e) = 1 /\ e[1] = next
  BY <1>1
<1> HIDE DEF p, e
<1>6. /\ m \in Seq(Word) /\ Len(m) = a + count
      /\ \A i \in 1 .. Len(m) : m[i] = IF i <= a THEN p[i] ELSE q[i - a]
  <2>1. /\ m \in Seq(Word) /\ Len(m) = Len(p) + Len(q)
        /\ \A i \in 1 .. Len(p) + Len(q) :
             m[i] = IF i <= Len(p) THEN p[i] ELSE q[i - Len(p)]
    BY ZenonT(40), <1>2, <1>4, Joined
  <2> HIDE DEF m
  <2> QED BY Zenon, <1>2, <2>1
<1> HIDE DEF m, a
<1> DEFINE k == a + count
<1>k. k \in Nat /\ a \in Nat
  BY SMTT(30), Z3T(30), <1>1, <1>4
<1>7. /\ Len(w) = k + 1
      /\ \A i \in 1 .. k + 1 : w[i] = IF i <= k THEN m[i] ELSE e[i - k]
  <2>1. /\ Len(w) = Len(m) + Len(e)
        /\ \A i \in 1 .. Len(m) + Len(e) :
             w[i] = IF i <= Len(m) THEN m[i] ELSE e[i - Len(m)]
    BY Zenon, <1>5, <1>6, Joined
  <2>2. Len(m) = k /\ Len(e) = 1
    BY Zenon, <1>5, <1>6
  <2> QED BY Zenon, <2>1, <2>2
<1> HIDE DEF w
<1>8. ASSUME NEW i \in 1 .. k PROVE w[i + 1] = After(w[i])
  <2>1. w[i] = m[i] /\ i \in 1 .. k + 1 /\ i + 1 \in 1 .. k + 1
    BY SMTT(30), Z3T(30), <1>k, <1>7
  <2>2. CASE i = k
    <3>1. w[i + 1] = next
      BY SMTT(30), Z3T(30), <1>k, <1>5, <1>7, <2>1, <2>2
    <3>2. CASE count = 0
      BY SMTT(30), Z3T(30), <1>1, <1>3, <1>4, <1>6, <2>1, <2>2, <3>1, <3>2
    <3>3. CASE count > 0
      <4>1. m[i] = q[count]
        BY SMTT(30), Z3T(30), <1>1, <1>4, <1>6, <2>2, <3>3
      <4> QED BY ZenonT(40), <1>3, <2>1, <3>1, <3>3, <4>1
    <3> QED BY SMTT(30), Z3T(30), <1>1, <3>2, <3>3
  <2>3. CASE i < k
    <3>1. w[i + 1] = m[i + 1] /\ i + 1 \in 1 .. k
      BY SMTT(30), Z3T(30), <1>k, <1>7, <2>1, <2>3
    <3>2. CASE i <= a
      <4>1. i = 1 /\ a = 1 /\ count > 0 /\ out # 0
        BY SMTT(30), Z3T(30), <1>1, <1>4, <2>3, <3>2
      <4>2. m[1] = out /\ m[2] = q[1]
        BY SMTT(30), Z3T(30), <1>1, <1>4, <1>6, <4>1
      <4> QED BY SMTT(30), Z3T(30), <1>3, <2>1, <3>1, <4>1, <4>2
    <3>3. CASE i > a
      <4> DEFINE j == i - a
      <4>1. j \in 1 .. count - 1 /\ j + 1 = (i + 1) - a
        BY SMTT(30), Z3T(30), <1>1, <1>4, <2>3, <3>3
      <4>2. m[i] = q[j] /\ m[i + 1] = q[j + 1]
        <5>1. i \in 1 .. Len(m) /\ i + 1 \in 1 .. Len(m) /\ ~(i <= a) /\ ~(i + 1 <= a)
          BY SMTT(30), Z3T(30), <1>k, <1>6, <2>3, <3>3
        <5>2. m[i] = q[i - a] /\ m[i + 1] = q[(i + 1) - a]
          BY <1>6, <5>1
        <5> QED BY Zenon, <4>1, <5>2
      <4> HIDE DEF j
      <4> QED BY ZenonT(40), <1>3, <2>1, <3>1, <4>1, <4>2
    <3> QED BY SMTT(30), Z3T(30), <1>k, <3>2, <3>3
  <2> QED BY SMTT(30), Z3T(30), <1>k, <2>2, <2>3
<1>9. \A i \in 1 .. Len(w) - 1 : w[i + 1] = After(w[i])
  BY SMTT(30), Z3T(30), <1>k, <1>7, <1>8
<1> QED BY Zenon, <1>9 DEF StreamInOrder, p, q, m, e, w

-----------------------------------------------------------------------------
\* The driver's positions up to each write, expanded.
LEMMA StepSets ==
  /\ ToGcr = {"fcr", "gcr"}
  /\ ToAddr = {"fcr", "gcr", "fsr", "addr"}
  /\ ToCiter = {"fcr", "gcr", "fsr", "addr", "citer"}
  /\ ToBiter = {"fcr", "gcr", "fsr", "addr", "citer", "biter"}
  /\ ToMux = {"fcr", "gcr", "fsr", "addr", "citer", "biter", "csr", "mux"}
  /\ ToErq = {"fcr", "gcr", "fsr", "addr", "citer", "biter", "csr", "mux", "erq"}
  /\ ToDer = {"fcr", "gcr", "fsr", "addr", "citer", "biter", "csr", "mux", "erq", "der"}
  /\ ToRun = {"fcr", "gcr", "fsr", "addr", "citer", "biter", "csr", "mux", "erq", "der",
              "trig", "clk", "mr", "mcr", "tcr"}
BY DEF ToGcr, ToAddr, ToCiter, ToBiter, ToMux, ToErq, ToDer, ToRun

\* The reset state satisfies the invariant.
LEMMA InitIInv == Init => IInv
<1> SUFFICES ASSUME Init PROVE IInv
  OBVIOUS
<1>1. step = "fcr" /\ loop = "poll" /\ next = 1
  BY DEF Init
<1>2. ch = [n \in {0} |-> E!ResetChan] /\ reqLevel = [s \in {1} |-> FALSE]
      /\ reqEnabled = [s \in {1} |-> TRUE] /\ reqEdge = [s \in {1} |-> FALSE]
      /\ bhScheduled = FALSE /\ bh = E!BhIdle
  BY DEF Init, E!Init, E!Channel, E!Source
<1>3. ChanInv
  <2>1. E!ResetIter \in Iters
    BY SMTT(30), Z3T(30), StreamAssumption DEF E!ResetIter, Iters
  <2>2. E!ResetTcd \in Tcds
    BY Zenon, <2>1 DEF E!ResetTcd, Tcds, Csrs
  <2>3. E!ResetChan \in Chans /\ E!ResetChan.erq = FALSE
    BY <2>2 DEF E!ResetChan, Chans
  <2> QED BY Zenon, <1>1, <1>2, <2>3, StepSets DEF ChanInv
<1>4. D!TypeOK /\ der = {} /\ latched = {} /\ dma_req_level = FALSE /\ count = 0 /\ out = 0
  <2>1. wptr = (rptr + count) % Depth
    BY SMTT(30), Z3T(30), StreamAssumption DEF Init, D!Init
  <2>2. wml \in 0 .. Depth - 1 /\ count \in 0 .. Depth /\ rptr \in 0 .. Depth - 1
        /\ wptr \in 0 .. Depth - 1
    BY StreamAssumption DEF Init, D!Init
  <2>3. fifo \in [0 .. Depth - 1 -> (1 .. N) \cup {0}]
    BY DEF Init, D!Init
  <2> QED BY Zenon, <1>2, <2>1, <2>2, <2>3 DEF Init, D!Init, D!TypeOK, D!ResetGcr
<1>5. WireInv
  BY ZenonT(40), <1>1, <1>2, <1>4 DEF WireInv, D!DmaWanted, Init, I!Init
<1>6. DacInv
  BY ZenonT(40), <1>1, <1>4, StepSets DEF DacInv, NoOverflow
<1>7. TimerInv
  BY DEF TimerInv, Init, C!Init, C!Reset
<1>8. LoopInv
  <2>1. 0 \in 0 .. MaxLoops - 1 /\ 0 \in 0 .. 1
    BY SMTT(30), Z3T(30), StreamAssumption
  <2>2. ~Asked /\ ~bh.run
    BY Zenon, <1>2 DEF Asked, E!BhIdle
  <2>3. bh \in [run : BOOLEAN, n : 0 .. 1, progress : BOOLEAN, guard : 0 .. MaxLoops - 1]
    BY Zenon, <1>2, <2>1 DEF E!BhIdle
  <2> QED BY ZenonT(40), <1>1, <1>2, <2>2, <2>3 DEF LoopInv
<1>9. OrderInv
  BY <1>1, <1>4, StreamAssumption DEF OrderInv
<1> QED BY ZenonT(40), <1>1, <1>3, <1>5, <1>6, <1>7, <1>8, <1>9, StepSets DEF IInv

\* dac_update_irq leaves the eDMA's latch and the DAC's copy at what the FIFO wants.
LEMMA Publish ==
  ASSUME D!dac_update_irq, reqLevel' \in [{1} -> BOOLEAN],
         dma_req_level \in BOOLEAN, reqLevel[1] \in BOOLEAN,
         dma_req_level = reqLevel[1] \/ ~(reqLevel[1] \/ D!DmaWanted')
  PROVE  /\ reqLevel'[1] = D!DmaWanted'
         /\ dma_req_level' = D!DmaWanted'
         /\ dma_req_level' \in BOOLEAN /\ dirq' \in BOOLEAN
<1> DEFINE want == D!DmaWanted'
<1>1. want \in BOOLEAN /\ dirq' \in BOOLEAN
  BY DEF D!DmaWanted, D!dac_update_irq
<1>2. dma_req_level' = want /\ reqLevel'[1] = IF want # dma_req_level THEN want ELSE reqLevel[1]
  BY DEF D!dac_update_irq
<1> HIDE DEF want
<1>3. dma_req_level = reqLevel[1] \/ ~(reqLevel[1] \/ want)
  BY DEF want
<1>4. reqLevel'[1] = want
  BY SMTT(30), Z3T(30), <1>1, <1>2, <1>3
<1> QED BY Zenon, <1>1, <1>2, <1>4 DEF want

\* A request that rises over the wire schedules the bottom half, and nothing unschedules
\* it.
LEMMA WireRises ==
  ASSUME Wire, bhScheduled \in BOOLEAN, dma_req_level' \in BOOLEAN
  PROVE  /\ bhScheduled' \in BOOLEAN
         /\ bhScheduled => bhScheduled'
         /\ dma_req_level' /\ ~dma_req_level => bhScheduled'
BY DEF Wire, E!mcxn_edma_req

\* What the FIFO wants depends on its occupancy, the flags, the watermark and DER.
LEMMA WantSame ==
  ASSUME UNCHANGED <<count, latched, wml, der>>
  PROVE  D!DmaWanted' = D!DmaWanted
BY DEF D!DmaWanted, D!dac_fsr

\* The driver's writes to the DAC.
LEMMA DacWrite ==
  ASSUME IInv, loop = "poll", Wire, D!dac_update_irq, reqLevel' \in [{1} -> BOOLEAN],
         UNCHANGED <<fifo, wptr, rptr, count, out, ch, eirq, reqEnabled, reqEdge, bh, ct, sel,
                     gate, next, loop>>,
         latched' \subseteq latched,
         gcr' \in [dacen : BOOLEAN, fifoen : BOOLEAN, trgsel : BOOLEAN],
         wml' \in 0 .. Depth - 1, ier' = ier, der' \in SUBSET {"WM", "EMPTY"},
         \/ step = "fcr" /\ step' = "gcr" /\ der' = der
         \/ step = "gcr" /\ step' = "fsr" /\ gcr'.fifoen /\ gcr'.dacen /\ der' = der
         \/ step = "fsr" /\ step' = "addr" /\ gcr' = gcr /\ der' = der
         \/ step = "der" /\ step' = "trig" /\ gcr' = gcr /\ der' # {}
  PROVE  IInv'
<1> USE DEF IInv
<1>1. step' \in ToRun /\ step' # "fcr" /\ step \in ToRun
  BY Zenon, StepSets
<1>2. ChanInv'
  BY Zenon, StepSets DEF ChanInv
<1>3. /\ dma_req_level = reqLevel[1] \/ ~(reqLevel[1] \/ D!DmaWanted')
      /\ dma_req_level \in BOOLEAN /\ reqLevel[1] \in BOOLEAN
  <2>1. CASE step = "fcr"
    <3>1. der = {} /\ der' = {}
      BY Zenon, <2>1, StepSets DEF DacInv
    <3>2. ~D!DmaWanted /\ ~D!DmaWanted'
      BY <3>1 DEF D!DmaWanted
    <3> QED BY Zenon, <3>2 DEF WireInv, DacInv, D!TypeOK
  <2> QED BY ZenonT(40), <2>1 DEF WireInv, DacInv, D!TypeOK
<1>4. /\ reqLevel'[1] = D!DmaWanted' /\ dma_req_level' = D!DmaWanted'
      /\ dma_req_level' \in BOOLEAN /\ dirq' \in BOOLEAN
  BY ZenonT(40), <1>3, Publish
<1>5. WireInv'
  BY <1>4 DEF WireInv
<1>6. DacInv'
  <2>1. D!TypeOK'
    BY Zenon, <1>4 DEF DacInv, D!TypeOK
  <2>2. step' \notin ToGcr => gcr'.fifoen /\ gcr'.dacen
    BY StepSets DEF DacInv
  <2>3. der' = {} <=> step' \in ToDer
    BY Zenon, StepSets DEF DacInv
  <2>4. NoOverflow'
    BY DEF DacInv, NoOverflow
  <2> QED BY Zenon, <2>1, <2>2, <2>3, <2>4 DEF DacInv
<1>7. TimerInv'
  BY Zenon, <1>1 DEF TimerInv
<1>8. LoopInv'
  <2>1. /\ bhScheduled' \in BOOLEAN
        /\ bhScheduled => bhScheduled'
        /\ dma_req_level' /\ ~dma_req_level => bhScheduled'
    BY Zenon, <1>4, WireRises DEF LoopInv
  <2>2. Asked' => bhScheduled'
    <3>1. CASE step = "fcr"
      <4>1. ~ch'[0].erq
        BY Zenon, <3>1, StepSets DEF ChanInv
      <4> QED BY Zenon, <4>1 DEF Asked
    <3>2. CASE step # "fcr"
      BY ZenonT(40), <1>4, <2>1, <3>2 DEF Asked, WireInv, LoopInv
    <3> QED BY Zenon, <3>1, <3>2
  <2> QED BY ZenonT(40), <2>1, <2>2 DEF LoopInv
<1>9. OrderInv'
  BY OrderSame DEF D!ring
<1> QED BY Zenon, <1>1, <1>2, <1>5, <1>6, <1>7, <1>8, <1>9

\* A step that leaves DAC and wires alone, and takes no write of the driver back.
LEMMA DacSame ==
  ASSUME DacInv, OrderInv, UNCHANGED <<dac, reqLevel, next>>,
         step' \notin ToGcr => step \notin ToGcr,
         step' \in ToDer <=> step \in ToDer
  PROVE  DacInv' /\ OrderInv' /\ D!DmaWanted' = D!DmaWanted
<1>1. D!TypeOK'
  BY DEF DacInv, D!TypeOK, dac
<1>2. D!DmaWanted' = D!DmaWanted
  BY WantSame DEF dac
<1>3. DacInv'
  BY <1>1 DEF DacInv, NoOverflow, dac
<1>4. OrderInv'
  BY Zenon, OrderSame DEF dac, D!ring
<1> QED BY ZenonT(40), <1>2, <1>3, <1>4

\* The driver's writes to the eDMA, before the DAC asks for anything.
LEMMA EdmaWrite ==
  ASSUME IInv, loop = "poll",
         UNCHANGED <<dac, ct, mux, reqLevel, reqEnabled, reqEdge, bhScheduled, bh, next, loop>>,
         step \in ToDer, step' \in ToDer, step # "fcr", step' # "fcr", ChanInv',
         step' \notin ToGcr => step \notin ToGcr
  PROVE  IInv'
<1> USE DEF IInv
<1>1. DacInv' /\ OrderInv' /\ D!DmaWanted' = D!DmaWanted
  BY Zenon, DacSame
<1>2. WireInv'
  BY <1>1 DEF WireInv, dac, mux
<1>3. step' \in ToRun /\ step \in ToRun
  BY DEF ToRun
<1>4. TimerInv'
  BY <1>3 DEF TimerInv
<1>5. ~Asked'
  <2>1. der = {}
    BY DEF DacInv
  <2>2. ~reqLevel[1]
    BY Zenon, <2>1 DEF WireInv, D!DmaWanted
  <2> QED BY Zenon, <2>2 DEF Asked
<1>6. LoopInv'
  BY <1>5 DEF LoopInv, dac
<1> QED BY Zenon, <1>1, <1>2, <1>3, <1>4, <1>6

\* A TCD write stores the TCD the driver means, and nothing else.
LEMMA TcdWrite ==
  ASSUME ch \in [{0} -> Chans], NEW t, E!WriteTcd(0), ch'[0].tcd = t
  PROVE  /\ ch' = [ch EXCEPT ![0] = [ch[0] EXCEPT !.tcd = t]]
         /\ UNCHANGED <<eirq, reqLevel, reqEnabled, reqEdge, bhScheduled, bh>>
<1> DEFINE With(u) == [ch[0] EXCEPT !.tcd = u]
           s == ch[0].tcd
<1>0. ch[0] \in Chans /\ \A u : With(u).tcd = u
  BY ZenonT(40) DEF Chans
<1>1. ASSUME NEW u, ch' = [ch EXCEPT ![0] = With(u)]
      PROVE  ch' = [ch EXCEPT ![0] = [ch[0] EXCEPT !.tcd = t]]
  <2>1. ch'[0] = With(u)
    BY <1>1
  <2>2. u = t
    BY Zenon, <1>0, <2>1
  <2> QED BY <1>1, <2>2
<1>2. \/ \E v : ch' = [ch EXCEPT ![0] = With([s EXCEPT !.citer = v])]
      \/ \E v : ch' = [ch EXCEPT ![0] = With([s EXCEPT !.biter = v])]
      \/ \E v : ch' = [ch EXCEPT ![0] = With([s EXCEPT !.err = v])]
      \/ \E v : ch' = [ch EXCEPT ![0] = With([s EXCEPT !.adjErr = v])]
      \/ \E v : ch' = [ch EXCEPT ![0] = With([s EXCEPT !.sga = v])]
  BY DEF E!WriteTcd
<1>3. \E u : ch' = [ch EXCEPT ![0] = With(u)]
  BY <1>2
<1> HIDE DEF With
<1>4. ch' = [ch EXCEPT ![0] = [ch[0] EXCEPT !.tcd = t]]
  BY Zenon, <1>1, <1>3
<1> QED BY <1>4 DEF E!WriteTcd

\* Writing a TCD of the right shape changes no other field of the channel.
LEMMA TcdStored ==
  ASSUME ch \in [{0} -> Chans], NEW t \in Tcds,
         ch' = [ch EXCEPT ![0] = [ch[0] EXCEPT !.tcd = t]]
  PROVE  /\ ch' \in [{0} -> Chans]
         /\ ch'[0].tcd = t /\ ch'[0].erq = ch[0].erq /\ ch'[0].mux = ch[0].mux
<1>1. ch[0] \in Chans
  OBVIOUS
<1> DEFINE c == [ch[0] EXCEPT !.tcd = t]
<1>2. c \in Chans /\ c.tcd = t /\ c.erq = ch[0].erq /\ c.mux = ch[0].mux
  BY ZenonT(40), <1>1 DEF Chans
<1> HIDE DEF c
<1>3. ch' = [ch EXCEPT ![0] = c]
  BY Zenon DEF c
<1> QED BY <1>2, <1>3

\* The driver's three TCD stores.
LEMMA SetupTcd ==
  ASSUME IInv, Guest(Setup), step \in {"addr", "citer", "biter"}
  PROVE  IInv'
<1> DEFINE s == ch[0].tcd
           a == [s EXCEPT !.err = {}]
           c == [s EXCEPT !.citer = Citer]
           b == [s EXCEPT !.biter = Citer]
<1> USE DEF IInv
<1>0. ch \in [{0} -> Chans] /\ s \in Tcds /\ ~ch[0].erq
  BY ZenonT(40), StepSets DEF ChanInv, Chans
<1>1. Citer \in Iters /\ Citer.n >= 1
  BY StreamAssumption DEF Citer, Iters
<1>2. /\ a \in Tcds /\ a.err = {}
      /\ c \in Tcds /\ c.citer = Citer /\ c.err = s.err
      /\ b \in Tcds /\ b.biter = Citer /\ b.err = s.err /\ b.citer = s.citer
  BY <1>0, <1>1 DEF Tcds
<1>3. /\ loop = "poll" /\ next' = next /\ loop' = loop
      /\ \/ step = "addr" /\ step' = "citer" /\ Tcd(a)
         \/ step = "citer" /\ step' = "biter" /\ Tcd(c)
         \/ step = "biter" /\ step' = "csr" /\ Tcd(b)
  BY Zenon DEF Guest, Setup, GoTo
<1> HIDE DEF a, b, c
<1>4. ASSUME NEW t \in Tcds, Tcd(t)
      PROVE  /\ ch' \in [{0} -> Chans]
             /\ ch'[0].tcd = t /\ ch'[0].erq = ch[0].erq /\ ch'[0].mux = ch[0].mux
             /\ UNCHANGED <<dac, ct, mux, reqLevel, reqEnabled, reqEdge, bhScheduled, bh>>
  <2>1. E!WriteTcd(0) /\ ch'[0].tcd = t /\ UNCHANGED <<dac, ct, mux>>
    BY <1>4 DEF Tcd, Edma
  <2>2. /\ ch' = [ch EXCEPT ![0] = [ch[0] EXCEPT !.tcd = t]]
        /\ UNCHANGED <<eirq, reqLevel, reqEnabled, reqEdge, bhScheduled, bh>>
    BY Zenon, <1>0, <2>1, TcdWrite
  <2> QED BY ZenonT(40), <1>0, <1>4, <2>1, <2>2, TcdStored
<1>5. /\ step \in ToDer /\ step' \in ToDer /\ step # "fcr" /\ step' # "fcr"
      /\ step' \notin ToGcr => step \notin ToGcr
  BY Zenon, <1>3, StepSets
<1>6. CASE step = "addr" /\ step' = "citer" /\ Tcd(a)
  <2>1. /\ ch' \in [{0} -> Chans] /\ ch'[0].tcd = a /\ ch'[0].erq = ch[0].erq
        /\ UNCHANGED <<dac, ct, mux, reqLevel, reqEnabled, reqEdge, bhScheduled, bh>>
    BY Zenon, <1>2, <1>4, <1>6
  <2>2. ChanInv'
    BY Zenon, <1>0, <1>2, <1>6, <2>1, StepSets DEF ChanInv
  <2> QED BY Zenon, <1>3, <1>5, <2>1, <2>2, EdmaWrite
<1>7. CASE step = "citer" /\ step' = "biter" /\ Tcd(c)
  <2>1. /\ ch' \in [{0} -> Chans] /\ ch'[0].tcd = c /\ ch'[0].erq = ch[0].erq
        /\ UNCHANGED <<dac, ct, mux, reqLevel, reqEnabled, reqEdge, bhScheduled, bh>>
    BY Zenon, <1>2, <1>4, <1>7
  <2>2. s.err = {}
    BY Zenon, <1>7, StepSets DEF ChanInv
  <2>3. ChanInv'
    BY Zenon, <1>0, <1>1, <1>2, <1>7, <2>1, <2>2, StepSets DEF ChanInv
  <2> QED BY Zenon, <1>3, <1>5, <2>1, <2>3, EdmaWrite
<1>8. CASE step = "biter" /\ step' = "csr" /\ Tcd(b)
  <2>1. /\ ch' \in [{0} -> Chans] /\ ch'[0].tcd = b /\ ch'[0].erq = ch[0].erq
        /\ UNCHANGED <<dac, ct, mux, reqLevel, reqEnabled, reqEdge, bhScheduled, bh>>
    BY <1>2, <1>4, <1>8
  <2>2. s.err = {} /\ s.citer.n >= 1
    BY ZenonT(40), <1>8, StepSets DEF ChanInv
  <2>3. ChanInv'
    BY Zenon, <1>0, <1>2, <1>8, <2>1, <2>2, StepSets DEF ChanInv, Citer
  <2> QED BY ZenonT(40), <1>3, <1>5, <2>1, <2>3, EdmaWrite
<1> QED BY Zenon, <1>3, <1>6, <1>7, <1>8

\* The driver's writes of TCD_CSR, CH_MUX and CH_CSR.
LEMMA SetupChannel ==
  ASSUME IInv, Guest(Setup), step \in {"csr", "mux", "erq"}
  PROVE  IInv'
<1> USE DEF IInv
<1> DEFINE rest == <<dac, ct, mux, reqLevel, reqEnabled, reqEdge, bhScheduled, bh>>
           s == ch[0].tcd
<1>0. /\ ch \in [{0} -> Chans] /\ ch[0] \in Chans /\ s \in Tcds /\ ~ch[0].erq
      /\ s.err = {} /\ s.citer.n >= 1 /\ s.biter = Citer
  BY Zenon, StepSets DEF ChanInv, Chans
<1>1. /\ loop = "poll" /\ next' = next /\ loop' = loop
      /\ \/ step = "csr" /\ step' = "mux"
            /\ \E dreq \in BOOLEAN : Edma(E!WriteTcdCsr(0, Csr(dreq)))
         \/ step = "mux" /\ step' = "erq" /\ Edma(E!WriteChMux(0, 1))
         \/ /\ step = "erq" /\ step' = "der"
            /\ Edma(E!WriteChCsr(0, [erq |-> TRUE, eei |-> FALSE, done |-> FALSE]))
  BY ZenonT(40) DEF Guest, Setup, GoTo
<1>2. /\ step \in ToDer /\ step' \in ToDer /\ step # "fcr" /\ step' # "fcr"
      /\ step' \notin ToGcr => step \notin ToGcr
  BY Zenon, <1>1, StepSets
<1>3. ASSUME NEW dreq \in BOOLEAN, Edma(E!WriteTcdCsr(0, Csr(dreq))),
             step = "csr", step' = "mux"
      PROVE  IInv'
  <2> DEFINE t == [s EXCEPT !.csr = Csr(dreq)]
  <2>1. Csr(dreq) \in Csrs /\ Csr(dreq).start = FALSE
    BY DEF Csr, Csrs
  <2>2. t \in Tcds /\ t.err = s.err /\ t.citer = s.citer /\ t.biter = s.biter
    BY <1>0, <2>1 DEF Tcds
  <2>3. ch' = [ch EXCEPT ![0] = [ch[0] EXCEPT !.tcd = t]]
    BY ZenonT(40), <1>3, <2>1 DEF Edma, E!WriteTcdCsr
  <2>4. UNCHANGED rest
    <3>1. \E r \in E!BusReactions(FALSE) :
            reqLevel' = r.level /\ reqEdge' = r.edge /\ bhScheduled' = (bhScheduled \/ r.kick)
      BY Zenon, <1>3, <2>1 DEF Edma, E!WriteTcdCsr
    <3>2. reqLevel' = reqLevel /\ reqEdge' = reqEdge /\ bhScheduled' = (bhScheduled \/ FALSE)
      BY <3>1 DEF E!BusReactions, E!NoRequest
    <3> QED BY Zenon, <1>3, <3>2 DEF Edma, E!WriteTcdCsr, LoopInv
  <2> HIDE DEF t
  <2>5. /\ ch' \in [{0} -> Chans]
        /\ ch'[0].tcd = t /\ ch'[0].erq = ch[0].erq
    BY ZenonT(40), <1>0, <2>2, <2>3, TcdStored
  <2>6. ChanInv'
    BY Zenon, <1>0, <1>3, <2>2, <2>5, StepSets DEF ChanInv, Citer
  <2> QED BY Zenon, <1>1, <1>2, <2>4, <2>6, EdmaWrite
<1>4. CASE step = "mux" /\ step' = "erq" /\ Edma(E!WriteChMux(0, 1))
  <2> DEFINE c == [ch[0] EXCEPT !.mux = 1]
  <2>1. c \in Chans /\ c.tcd = s /\ c.erq = ch[0].erq /\ c.mux = 1
    BY Zenon, <1>0 DEF Chans
  <2>2. ch' = [ch EXCEPT ![0] = c] /\ UNCHANGED rest
    BY ZenonT(40), <1>4 DEF Edma, E!WriteChMux
  <2> HIDE DEF c
  <2>3. ch' \in [{0} -> Chans] /\ ch'[0] = c
    BY <1>0, <2>1, <2>2
  <2>4. ChanInv'
    BY Zenon, <1>0, <1>4, <2>1, <2>3, StepSets DEF ChanInv, Citer
  <2> QED BY Zenon, <1>1, <1>2, <2>2, <2>4, EdmaWrite
<1>5. CASE /\ step = "erq" /\ step' = "der"
           /\ Edma(E!WriteChCsr(0, [erq |-> TRUE, eei |-> FALSE, done |-> FALSE]))
  <2> DEFINE c == [ch[0] EXCEPT !.erq = TRUE, !.eei = FALSE, !.done = @ /\ TRUE]
  <2>1. c \in Chans /\ c.tcd = s /\ c.mux = ch[0].mux
    BY Zenon, <1>0 DEF Chans
  <2>2. ch' = [ch EXCEPT ![0] = c] /\ UNCHANGED rest
    BY ZenonT(40), <1>0, <1>5 DEF Edma, E!WriteChCsr
  <2> HIDE DEF c
  <2>3. ch' \in [{0} -> Chans] /\ ch'[0] = c
    BY Zenon, <1>0, <2>1, <2>2
  <2>4. ch[0].mux = 1
    BY Zenon, <1>5, StepSets DEF ChanInv
  <2>5. ChanInv'
    BY Zenon, <1>0, <1>5, <2>1, <2>3, <2>4, StepSets DEF ChanInv, Citer
  <2> QED BY Zenon, <1>1, <1>2, <2>2, <2>5, EdmaWrite
<1> QED BY Zenon, <1>1, <1>3, <1>4, <1>5

\* A counter that does not run is not scheduled.
LEMMA NotScheduled ==
  ASSUME NEW c, {"cen", "due"} \subseteq DOMAIN c, ~c.cen
  PROVE  LET d == C!Quiet(C!ctimer_reschedule(c))
         IN  {"cen", "due"} \subseteq DOMAIN d /\ d.cen = c.cen /\ d.due = None
BY DEF C!Quiet, C!ctimer_reschedule, C!ctimer_running

\* Scheduling keeps the fields of the counter.
LEMMA KeepsFields ==
  ASSUME NEW c, {"cen", "due"} \subseteq DOMAIN c
  PROVE  /\ {"cen", "due"} \subseteq DOMAIN C!ctimer_reschedule(c)
         /\ {"cen", "due"} \subseteq DOMAIN C!Quiet(c)
         /\ {"cen", "due"} \subseteq DOMAIN C!ctimer_update_irq(c)
         /\ {"cen", "due"} \subseteq DOMAIN C!ctimer_sync(c)
         /\ C!ctimer_sync(c).cen = c.cen
BY DEF C!Quiet, C!ctimer_reschedule, C!ctimer_update_irq, C!ctimer_sync

\* The driver's writes to INPUTMUX's selector and to the timer, the last ones.
LEMMA LastWrite ==
  ASSUME IInv, loop = "poll", UNCHANGED <<edma, dac, gate, next, loop>>, TimerInv',
         step \in {"trig", "clk", "mr", "mcr", "tcr"},
         step' \in {"clk", "mr", "mcr", "tcr", "run"}
  PROVE  IInv'
<1> USE DEF IInv
<1>1. /\ step \notin ToDer /\ step' \notin ToDer /\ step # "fcr" /\ step' # "fcr"
      /\ step \notin ToGcr /\ step' \in ToRun \cup {"run"}
      /\ step \notin ToErq /\ step' \notin ToErq
  BY Zenon, StepSets
<1>2. DacInv' /\ OrderInv' /\ D!DmaWanted' = D!DmaWanted
  BY Zenon, <1>1, DacSame DEF edma
<1>3. ChanInv'
  BY Zenon, StepSets DEF ChanInv, edma, Citer
<1>4. WireInv'
  BY Zenon, <1>1, <1>2 DEF WireInv, edma, dac
<1>5. LoopInv'
  BY Zenon DEF LoopInv, Asked, edma, dac
<1> QED BY Zenon, <1>1, <1>2, <1>3, <1>4, <1>5

\* The order of the driver's writes from the selector to the timer's start.
LEMMA SetupTimer ==
  ASSUME IInv, Guest(Setup), step \in {"trig", "clk", "mr", "mcr", "tcr"}
  PROVE  IInv'
<1> USE DEF IInv
<1>0. /\ {"cen", "due"} \subseteq DOMAIN ct /\ ct.cen = FALSE /\ ct.due = None
  BY StepSets DEF TimerInv
<1>1. /\ loop = "poll" /\ next' = next /\ loop' = loop
      /\ \/ step = "trig" /\ step' = "clk" /\ I!WriteSel(Dac0, 5) /\ UNCHANGED <<edma, dac, ct>>
         \/ step = "clk" /\ step' = "mr" /\ Ctimer(C!SelectClock(1))
         \/ step = "mr" /\ step' = "mcr" /\ \E p \in Period : Ctimer(C!WriteMr(3, p))
         \/ step = "mcr" /\ step' = "tcr" /\ Ctimer(C!WriteMcr([n \in {3} |-> {"RST"}]))
         \/ step = "tcr" /\ step' = "run" /\ Ctimer(C!WriteTcr(TRUE, FALSE))
  BY Zenon DEF Guest, Setup, GoTo
<1>2. UNCHANGED <<edma, dac, gate, next, loop>>
  BY ZenonT(40), <1>1 DEF I!WriteSel, Ctimer, mux
<1>3. step' \in {"clk", "mr", "mcr", "tcr", "run"}
  BY Zenon, <1>1
<1>4. /\ {"cen", "due"} \subseteq DOMAIN C!ctimer_sync(ct) /\ C!ctimer_sync(ct).cen = FALSE
  BY <1>0, KeepsFields
<1>5. TimerInv'
  <2>1. CASE step = "trig" /\ UNCHANGED ct
    BY <1>0, <2>1 DEF TimerInv
  <2>2. CASE Ctimer(C!SelectClock(1))
    BY Zenon, <1>0, <2>2 DEF TimerInv, Ctimer, C!SelectClock, C!Quiet
  <2>3. ASSUME NEW p, Ctimer(C!WriteMr(3, p)) PROVE TimerInv'
    <3> DEFINE c == [C!ctimer_sync(ct) EXCEPT !.mr[3] = p]
    <3>1. {"cen", "due"} \subseteq DOMAIN c /\ ~c.cen
      BY <1>4
    <3>2. ct' = C!Quiet(C!ctimer_reschedule(c))
      BY Zenon, <2>3 DEF Ctimer, C!WriteMr
    <3> HIDE DEF c
    <3> QED BY <3>1, <3>2, NotScheduled DEF TimerInv
  <2>4. CASE Ctimer(C!WriteMcr([n \in {3} |-> {"RST"}]))
    <3> DEFINE c == [C!ctimer_sync(ct) EXCEPT !.mcr = [n \in {3} |-> {"RST"}]]
    <3>1. {"cen", "due"} \subseteq DOMAIN c /\ ~c.cen
      BY <1>4
    <3>2. ct' = C!Quiet(C!ctimer_reschedule(c))
      BY Zenon, <2>4 DEF Ctimer, C!WriteMcr
    <3> HIDE DEF c
    <3> QED BY <3>1, <3>2, NotScheduled DEF TimerInv
  <2>5. CASE step' = "run" /\ Ctimer(C!WriteTcr(TRUE, FALSE))
    <3> DEFINE c == [C!ctimer_sync(ct) EXCEPT !.cen = TRUE, !.crst = FALSE]
    <3>1. {"cen", "due"} \subseteq DOMAIN c
      BY <1>4
    <3>2. ct' = C!Quiet(C!ctimer_reschedule(c))
      BY Zenon, <2>5 DEF Ctimer, C!WriteTcr
    <3> HIDE DEF c
    <3>3. {"cen", "due"} \subseteq DOMAIN ct'
      BY Zenon, <3>1, <3>2, KeepsFields
    <3> QED BY <2>5, <3>3, StepSets DEF TimerInv
  <2> QED BY Zenon, <1>1, <2>1, <2>2, <2>3, <2>4, <2>5
<1> QED BY ZenonT(40), <1>1, <1>2, <1>3, <1>5, LastWrite

\* The driver's writes to FCR, GCR, FSR and DER.
LEMMA SetupDac ==
  ASSUME IInv, Guest(Setup), step \in {"fcr", "gcr", "fsr", "der"}
  PROVE  IInv'
<1> DEFINE on == [dacen |-> TRUE, fifoen |-> TRUE, trgsel |-> FALSE]
<1>0. /\ gcr \in [dacen : BOOLEAN, fifoen : BOOLEAN, trgsel : BOOLEAN]
      /\ wml \in 0 .. Depth - 1 /\ der \in SUBSET {"WM", "EMPTY"}
  BY DEF IInv, DacInv, D!TypeOK
<1>1. /\ loop = "poll" /\ next' = next /\ loop' = loop
      /\ \/ step = "fcr" /\ step' = "gcr" /\ \E w \in 0 .. Depth - 1 : Dac(D!WriteFcr(w))
         \/ step = "gcr" /\ step' = "fsr" /\ Dac(D!WriteGcr(on))
         \/ step = "fsr" /\ step' = "addr" /\ Dac(D!WriteFsr({"UF"}))
         \/ /\ step = "der" /\ step' = "trig"
            /\ \E v \in (SUBSET {"WM", "EMPTY"}) \ {{}} : Dac(D!WriteDer(v))
  BY ZenonT(40) DEF Guest, Setup, GoTo
<1>2. ASSUME NEW w \in 0 .. Depth - 1, Dac(D!WriteFcr(w)), step = "fcr", step' = "gcr"
      PROVE  IInv'
  BY Zenon, <1>0, <1>1, <1>2, DacWrite DEF Dac, DacHandler, D!WriteFcr, mux, D!ring
<1>3. CASE Dac(D!WriteGcr(on)) /\ step = "gcr" /\ step' = "fsr"
  <2>1. on \in [dacen : BOOLEAN, fifoen : BOOLEAN, trgsel : BOOLEAN] /\ on.fifoen /\ on.dacen
    OBVIOUS
  <2> HIDE DEF on
  <2> QED BY ZenonT(40), <1>0, <1>1, <1>3, <2>1, DacWrite DEF Dac, DacHandler, D!WriteGcr,
                                                              mux, D!ring
<1>4. CASE Dac(D!WriteFsr({"UF"})) /\ step = "fsr" /\ step' = "addr"
  BY Zenon, <1>0, <1>1, <1>4, DacWrite DEF Dac, DacHandler, D!WriteFsr, mux, D!ring, D!regs
<1>5. ASSUME NEW v \in (SUBSET {"WM", "EMPTY"}) \ {{}}, Dac(D!WriteDer(v)),
             step = "der", step' = "trig"
      PROVE  IInv'
  BY Zenon, <1>0, <1>1, <1>5, DacWrite DEF Dac, DacHandler, D!WriteDer, mux, D!ring
<1> QED BY ZenonT(40), <1>1, <1>2, <1>3, <1>4, <1>5

\* Every write of the driver preserves the invariant.
LEMMA SetupStep ==
  ASSUME IInv, Guest(Setup)
  PROVE  IInv'
<1>1. step \in {"fcr", "gcr", "fsr", "addr", "citer", "biter", "csr", "mux", "erq", "der",
                "trig", "clk", "mr", "mcr", "tcr"}
  BY Zenon DEF Guest, Setup, GoTo
<1> QED BY Zenon, <1>1, SetupDac, SetupTcd, SetupChannel, SetupTimer

\* Closing and opening the gate: a request that waited behind it is not forgotten.
LEMMA GateStep ==
  ASSUME IInv, Guest(Pause) \/ Guest(Resume)
  PROVE  IInv'
<1> USE DEF IInv
<1>1. PICK alias \in {"CLR", "TOG", "SET"} :
        /\ loop = "poll" /\ UNCHANGED <<next, loop>> /\ step = "run" /\ step' = step
        /\ I!WriteReqEnable(alias, {1})
        /\ E!mcxn_edma_req_enable(1, gate'[1])
        /\ UNCHANGED <<dac, ct>>
  BY DEF Guest, Pause, Resume, Gate
<1>2. gate' \in [{1} -> BOOLEAN]
  <2>1. gate' = [r \in {1} |-> I!Pushed(alias, r, {1})]
    BY <1>1 DEF I!WriteReqEnable
  <2>2. \A r \in {1} : I!Pushed(alias, r, {1}) \in BOOLEAN
    BY Zenon DEF I!Pushed, WireInv
  <2> QED BY <2>1, <2>2
<1>3. /\ UNCHANGED <<ch, eirq, reqLevel, reqEdge, bh>>
      /\ reqEnabled' = [reqEnabled EXCEPT ![1] = gate'[1]]
      /\ bhScheduled' = (bhScheduled \/ (gate'[1] /\ reqLevel[1]))
  BY Zenon, <1>1 DEF E!mcxn_edma_req_enable
<1>4. DacInv' /\ OrderInv' /\ D!DmaWanted' = D!DmaWanted
  BY Zenon, <1>1, <1>3, DacSame
<1>5. ChanInv'
  BY Zenon, <1>1, <1>3 DEF ChanInv, Citer
<1>6. WireInv'
  <2>1. reqEnabled' = gate'
    BY Zenon, <1>2, <1>3 DEF WireInv
  <2> QED BY Zenon, <1>1, <1>2, <1>3, <1>4, <2>1 DEF WireInv, dac
<1>7. TimerInv'
  BY Zenon, <1>1 DEF TimerInv
<1>8. LoopInv'
  <2>1. bhScheduled' \in BOOLEAN
    BY <1>3
  <2>2. Asked' => bhScheduled'
    BY Zenon, <1>3 DEF Asked
  <2> QED BY Zenon, <1>1, <1>3, <2>1, <2>2 DEF LoopInv, dac
<1> QED BY ZenonT(40), <1>1, <1>4, <1>5, <1>6, <1>7, <1>8

\* A step of the main loop that leaves everything but its own position alone.
LEMMA LoopOnly ==
  ASSUME IInv, UNCHANGED <<ch, eirq, reqLevel, reqEnabled, reqEdge, dac, next, ct, mux, step>>,
         LoopInv'
  PROVE  IInv'
<1> USE DEF IInv
<1>1. DacInv' /\ OrderInv' /\ D!DmaWanted' = D!DmaWanted
  BY Zenon, DacSame
<1>2. ChanInv' /\ TimerInv'
  BY Zenon DEF ChanInv, TimerInv, Citer
<1>3. WireInv'
  BY Zenon, <1>1 DEF WireInv, dac, mux
<1> QED BY Zenon, <1>1, <1>2, <1>3

\* The bottom half looks at channel 0 exactly when it is asked.
LEMMA EligibleAsked ==
  ASSUME IInv
  PROVE  E!Eligible(0) <=> Asked
<1>1. ch[0].erq => ch[0].mux = 1
  BY Zenon, StepSets DEF IInv, ChanInv
<1> QED BY SMTT(30), Z3T(30), <1>1 DEF E!Eligible, Asked, IInv, WireInv

\* The main loop's steps around the transfers: the start of the bottom half, a channel
\* that asks for nothing, another pass, the end, an idle look at the timers.
LEMMA LoopStep ==
  ASSUME IInv, MainLoop, ~(loop = "bh" /\ Serve)
  PROVE  IInv'
<1> USE DEF IInv
<1>0. /\ bhScheduled \in BOOLEAN
      /\ bh \in [run : BOOLEAN, n : 0 .. 1, progress : BOOLEAN, guard : 0 .. MaxLoops - 1]
      /\ loop = "bh" <=> bh.run
      /\ count \in Nat
  BY SMTT(30), Z3T(30), StreamAssumption DEF LoopInv, DacInv, D!TypeOK
<1>1. CASE loop = "poll" /\ E!BhStart /\ UNCHANGED <<dac, next>>
           /\ loop' = (IF bh'.run THEN "bh" ELSE "timers")
  <2>1. /\ bh' = [run |-> TRUE, n |-> 0, progress |-> FALSE, guard |-> 0]
        /\ bhScheduled' = FALSE
        /\ UNCHANGED <<ch, eirq, reqLevel, reqEnabled, reqEdge>>
    BY Zenon, <1>1 DEF E!BhStart, E!BhIdle
  <2>2. 0 \in 0 .. MaxLoops - 1 /\ 0 \in 0 .. 1 /\ count >= 0
    BY SMTT(30), Z3T(30), <1>0, StreamAssumption
  <2>3. bh'.run /\ bh'.n = 0 /\ bh'.progress = FALSE /\ bh'.guard = 0
    BY <2>1
  <2>4. bhScheduled' \in BOOLEAN /\ count' = count /\ loop' = "bh"
    BY ZenonT(40), <1>1, <2>1, <2>3 DEF dac
  <2>5. bh'.n # 1 /\ ~bh'.progress /\ count' >= bh'.guard
    BY SMTT(30), Z3T(30), <2>2, <2>3, <2>4
  <2>6. bh' \in [run : BOOLEAN, n : 0 .. 1, progress : BOOLEAN, guard : 0 .. MaxLoops - 1]
    BY Zenon, <2>1, <2>2
  <2>7. LoopInv'
    BY Zenon, <2>3, <2>4, <2>5, <2>6 DEF LoopInv
  <2> QED BY Zenon, <1>1, <2>1, <2>7, LoopOnly DEF MainLoop, driver
<1>2. CASE loop = "bh" /\ E!BhSkip /\ UNCHANGED <<dac, next>>
           /\ loop' = (IF bh'.run THEN "bh" ELSE "timers")
  <2>1. /\ bh' = [bh EXCEPT !.n = bh.n + 1] /\ bh.n = 0 /\ ~E!Eligible(0)
        /\ UNCHANGED <<ch, eirq, reqLevel, reqEnabled, reqEdge, bhScheduled>>
    BY <1>0, <1>2 DEF E!BhSkip
  <2>2. /\ bh'.run /\ bh'.n = 1 /\ bh'.progress = bh.progress /\ bh'.guard = bh.guard
        /\ bh' \in [run : BOOLEAN, n : 0 .. 1, progress : BOOLEAN, guard : 0 .. MaxLoops - 1]
    BY SMTT(30), Z3T(30), <1>0, <1>2, <2>1
  <2>3. ~Asked'
    BY Zenon, <1>2, <2>1, EligibleAsked DEF Asked, MainLoop, mux
  <2>4. LoopInv'
    BY Zenon, <1>2, <2>1, <2>2, <2>3 DEF LoopInv, dac
  <2> QED BY Zenon, <1>2, <2>1, <2>4, LoopOnly DEF MainLoop, driver
<1>3. CASE loop = "bh" /\ E!BhNextPass /\ UNCHANGED <<dac, next>>
           /\ loop' = (IF bh'.run THEN "bh" ELSE "timers")
  <2>1. /\ bh' = [bh EXCEPT !.n = 0, !.progress = FALSE, !.guard = bh.guard + 1]
        /\ bh.progress /\ bh.guard + 1 < MaxLoops
        /\ UNCHANGED <<ch, eirq, reqLevel, reqEnabled, reqEdge, bhScheduled>>
    BY <1>3 DEF E!BhNextPass, E!Again
  <2>2. bh.guard + 1 \in 0 .. MaxLoops - 1 /\ 0 \in 0 .. 1
    BY <1>0, <2>1, StreamAssumption
  <2>3. /\ bh'.run /\ bh'.n = 0 /\ bh'.progress = FALSE /\ bh'.guard = bh.guard + 1
        /\ bh' \in [run : BOOLEAN, n : 0 .. 1, progress : BOOLEAN, guard : 0 .. MaxLoops - 1]
    BY ZenonT(40), <1>0, <1>3, <2>1, <2>2
  <2>4. count >= bh.guard + 1
    BY Zenon, <1>0, <1>3, <2>1 DEF LoopInv
  <2>5. LoopInv'
    BY SMTT(30), Z3T(30), <1>3, <2>1, <2>3, <2>4 DEF LoopInv, dac
  <2> QED BY Zenon, <1>3, <2>1, <2>5, LoopOnly DEF MainLoop, driver
<1>4. CASE loop = "bh" /\ E!BhEnd /\ UNCHANGED <<dac, next>>
           /\ loop' = (IF bh'.run THEN "bh" ELSE "timers")
  <2>1. /\ bh' = E!BhIdle /\ bh.n = 1 /\ ~(bh.progress /\ bh.guard + 1 < MaxLoops)
        /\ reqLevel' = [s \in {1} |-> reqLevel[s] /\ ~reqEdge[s]]
        /\ UNCHANGED <<ch, eirq, reqEnabled, reqEdge, bhScheduled>>
    BY SMTT(30), Z3T(30), <1>4 DEF E!BhEnd, E!Again, E!Source
  <2>2. reqLevel' = reqLevel
    BY <2>1 DEF WireInv
  <2>3. ~Asked
    <3>1. CASE ~bh.progress
      BY Zenon, <1>0, <1>4, <2>1, <3>1 DEF LoopInv
    <3>2. CASE bh.progress
      <4>1. count >= bh.guard + 1
        BY Zenon, <1>0, <1>4, <3>2 DEF LoopInv
      <4>2. count >= Depth
        BY SMTT(30), Z3T(30), <1>0, <2>1, <3>2, <4>1, StreamAssumption
      <4>3. count # 0 /\ ~(count <= wml) /\ "OF" \notin der /\ "UF" \notin der
            /\ "FULL" \notin der /\ latched \subseteq {"OF", "UF"}
        BY SMTT(30), Z3T(30), <1>0, <4>2, StreamAssumption DEF DacInv, D!TypeOK
      <4>4. ~D!DmaWanted
        BY ZenonT(40), <4>3 DEF D!DmaWanted, D!dac_fsr
      <4> QED BY Zenon, <4>4 DEF Asked, WireInv
    <3> QED BY Zenon, <3>1, <3>2
  <2>4. ~Asked'
    BY Zenon, <1>4, <2>1, <2>2, <2>3 DEF Asked, MainLoop, mux
  <2>5. 0 \in 0 .. MaxLoops - 1 /\ 0 \in 0 .. 1
    BY SMTT(30), Z3T(30), StreamAssumption
  <2>6. /\ ~bh'.run
        /\ bh' \in [run : BOOLEAN, n : 0 .. 1, progress : BOOLEAN, guard : 0 .. MaxLoops - 1]
    BY Zenon, <2>1, <2>5 DEF E!BhIdle
  <2>7. LoopInv'
    BY Zenon, <1>4, <2>1, <2>4, <2>6 DEF LoopInv, dac
  <2> QED BY Zenon, <1>4, <2>1, <2>2, <2>7, LoopOnly DEF MainLoop, driver
<1>5. CASE NothingDue
  <2>1. LoopInv'
    BY <1>5 DEF NothingDue, LoopInv, Asked, MainLoop, edma, dac, mux
  <2> QED BY ZenonT(40), <1>5, <2>1, LoopOnly DEF NothingDue, MainLoop, driver, edma
<1> QED BY Zenon, <1>1, <1>2, <1>3, <1>4, <1>5 DEF MainLoop, BottomHalf

\* A FIFO that asks has room.
LEMMA AskedHasRoom ==
  ASSUME DacInv, D!DmaWanted
  PROVE  count < Depth
<1>1. der \subseteq {"WM", "EMPTY"} /\ latched \subseteq {"OF", "UF"}
      /\ count \in Nat /\ wml \in Nat /\ wml < Depth
  BY StreamAssumption DEF DacInv, D!TypeOK
<1>2. PICK f \in D!dac_fsr : f \in der
  BY DEF D!DmaWanted
<1>3. f \notin latched /\ f # "FULL"
  BY <1>1, <1>2
<1>4. count = 0 \/ count <= wml
  BY Zenon, <1>2, <1>3 DEF D!dac_fsr
<1> QED BY SMTT(30), Z3T(30), <1>1, <1>4, StreamAssumption

\* One minor loop of the channel the driver armed: the TCD stays valid, at the end of
\* the buffer it is reloaded, and ERQ only falls.
LEMMA ServeChan ==
  ASSUME ChanInv, E!BhServe, bh.n = 0
  PROVE  /\ E!MovesData(0)
         /\ ch' \in [{0} -> Chans]
         /\ ch'[0].tcd.err = {} /\ ch'[0].tcd.citer.n >= 1 /\ ch'[0].tcd.biter = Citer
         /\ ch'[0].mux = 1 /\ (ch'[0].erq => ch[0].erq)
<1> DEFINE e == [ch |-> ch, irq |-> eirq]
           s1 == E!ClearDone(e, 0)
           c == [ch[0] EXCEPT !.done = FALSE]
           t == ch[0].tcd
           more == E!SetChan(s1, 0, [c EXCEPT !.tcd = E!CountDown(t)])
           last == E!SetChan(s1, 0, [c EXCEPT !.tcd = E!ReloadTcd(t)])
<1>0. /\ ch \in [{0} -> Chans] /\ ch[0] \in Chans /\ t \in Tcds /\ ch[0].erq
      /\ ch[0].mux = 1 /\ t.err = {} /\ t.citer.n >= 1 /\ t.biter = Citer
  BY Zenon, StepSets DEF ChanInv, Chans, E!BhServe, E!Eligible
<1>1. t.citer \in Iters /\ t.csr \in Csrs /\ t.citer.n \in 1 .. N /\ ~(t.citer.n = 0)
  <2>1. t.citer \in Iters /\ t.csr \in Csrs
    BY Zenon, <1>0 DEF Tcds
  <2>2. t.citer.n \in 0 .. N
    BY ZenonT(40), <2>1 DEF Iters
  <2>3. t.citer.n \in 1 .. N /\ ~(t.citer.n = 0)
    BY SMTT(30), Z3T(30), <1>0, <2>2, StreamAssumption
  <2> QED BY Zenon, <2>1, <2>3
<1>2. E!TcdError(t) = {}
  BY <1>0, <1>1 DEF E!TcdError
<1>3. c \in Chans /\ c.tcd = t /\ c.mux = 1 /\ c.erq = ch[0].erq
  BY ZenonT(40), <1>0 DEF Chans
<1> HIDE DEF c
<1>4. s1.ch = [ch EXCEPT ![0] = c] /\ s1.ch[0] = c /\ s1.irq = eirq
  BY <1>0 DEF E!ClearDone, E!SetChan, c
<1> HIDE DEF s1
<1>5. ch' = E!edma_minor_loop(s1, 0).ch
  BY DEF E!BhServe, s1
<1>6. E!MovesData(0)
  BY <1>2 DEF E!MovesData
<1>7. CASE t.citer.n > 1
  <2> DEFINE i == [t.citer EXCEPT !.n = t.citer.n - 1]
             u == [t EXCEPT !.citer = i]
             d == [c EXCEPT !.tcd = u]
  <2>1. t.citer.n - 1 \in 0 .. N /\ t.citer.n - 1 >= 1
    BY <1>1, <1>7, StreamAssumption
  <2>2. i \in Iters /\ i.n >= 1
    BY Zenon, <1>1, <2>1 DEF Iters
  <2> HIDE DEF i
  <2>3. u \in Tcds /\ u.err = {} /\ u.citer = i /\ u.biter = Citer
    BY <1>0, <2>2 DEF Tcds
  <2>4. E!CountDown(t) = u
    BY DEF E!CountDown, i
  <2> HIDE DEF u
  <2>5. d \in Chans /\ d.tcd = u /\ d.mux = 1 /\ d.erq = ch[0].erq
    BY ZenonT(40), <1>3, <2>3 DEF Chans
  <2>6. ~t.citer.elink
    BY ZenonT(40), <1>1 DEF Iters
  <2>7. E!edma_minor_loop(s1, 0) = more
    BY Zenon, <1>2, <1>3, <1>4, <1>7, <2>6 DEF E!edma_minor_loop, E!MinorLoopWith
  <2>8. more.ch = [s1.ch EXCEPT ![0] = d]
    BY Zenon, <2>4 DEF E!SetChan
  <2> HIDE DEF d, more
  <2>9. ch' = [ch EXCEPT ![0] = d]
    BY Zenon, <1>0, <1>4, <1>5, <2>7, <2>8
  <2>10. ch' \in [{0} -> Chans] /\ ch'[0] = d
    BY Zenon, <1>0, <2>5, <2>9
  <2> QED BY ZenonT(40), <1>6, <2>2, <2>3, <2>5, <2>10
<1>8. CASE ~(t.citer.n > 1)
  <2> DEFINE u == [t EXCEPT !.citer = t.biter, !.err = t.adjErr]
             d == [c EXCEPT !.tcd = u]
             f == [d EXCEPT !.done = TRUE, !.erq = @ /\ ~u.csr.dreq]
             g == [f EXCEPT !.intr = TRUE]
             s2 == E!SetChan(last, 0, f)
  <2>0. Citer \in Iters /\ Citer.n >= 1
    BY StreamAssumption DEF Citer, Iters
  <2>1. u \in Tcds /\ u.err = {} /\ u.citer = Citer /\ u.biter = Citer /\ u.csr = t.csr
    BY Zenon, <1>0, <2>0 DEF Tcds
  <2>2. t.csr.esg = FALSE /\ t.csr.majorelink = FALSE /\ t.csr.dreq \in BOOLEAN
    BY ZenonT(40), <1>1 DEF Csrs
  <2>3. E!ReloadTcd(t) = u
    BY ZenonT(40), <2>2 DEF E!ReloadTcd
  <2> HIDE DEF u
  <2>4. d \in Chans /\ d.tcd = u /\ d.mux = 1 /\ d.erq = ch[0].erq
    BY ZenonT(40), <1>3, <2>1 DEF Chans
  <2>5. last.ch = [s1.ch EXCEPT ![0] = d] /\ last.ch[0] = d
    BY Zenon, <1>0, <1>4, <2>3 DEF E!SetChan
  <2> HIDE DEF d, last
  <2>6. f \in Chans /\ f.tcd = u /\ f.mux = 1 /\ (f.erq => ch[0].erq)
    BY ZenonT(40), <2>4 DEF Chans
  <2>7. E!edma_minor_loop(s1, 0) = E!FinishMajor(last, 0)
    BY ZenonT(40), <1>2, <1>3, <1>4, <1>8, <2>1, <2>2, <2>4, <2>5
       DEF E!edma_minor_loop, E!MinorLoopWith, last
  <2>8. E!FinishMajor(last, 0) = IF u.csr.intmajor THEN E!RaiseInt(s2, 0) ELSE s2
    BY Zenon, <2>4, <2>5 DEF E!FinishMajor
  <2> HIDE DEF f
  <2>9. g \in Chans /\ g.tcd = u /\ g.mux = 1 /\ (g.erq => ch[0].erq)
    BY Zenon, <2>6 DEF Chans
  <2>10. s2.ch = [ch EXCEPT ![0] = f] /\ s2.ch[0] = f
    BY ZenonT(40), <1>0, <1>4, <2>5 DEF E!SetChan
  <2> HIDE DEF s2
  <2>11. E!RaiseInt(s2, 0).ch = [ch EXCEPT ![0] = g]
    BY ZenonT(40), <1>0, <2>10 DEF E!RaiseInt, E!SetChan, E!edma_update_irq
  <2> HIDE DEF g
  <2>12. ch' = [ch EXCEPT ![0] = f] \/ ch' = [ch EXCEPT ![0] = g]
    BY Zenon, <1>5, <2>7, <2>8, <2>10, <2>11
  <2>13. PICK z \in Chans : /\ ch' = [ch EXCEPT ![0] = z] /\ z.tcd = u /\ z.mux = 1
                            /\ (z.erq => ch[0].erq)
    BY Zenon, <2>6, <2>9, <2>12
  <2>14. ch' \in [{0} -> Chans] /\ ch'[0] = z
    BY Zenon, <1>0, <2>13
  <2> QED BY ZenonT(40), <1>6, <2>0, <2>1, <2>13, <2>14
<1> QED BY <1>7, <1>8

\* A served request: a word from the buffer to the FIFO.
LEMMA ServeStep ==
  ASSUME IInv, loop = "bh", Serve, loop' = (IF bh'.run THEN "bh" ELSE "timers"),
         UNCHANGED <<ct, mux, driver>>
  PROVE  IInv'
<1> USE DEF IInv
<1>0. /\ bhScheduled \in BOOLEAN
      /\ bh \in [run : BOOLEAN, n : 0 .. 1, progress : BOOLEAN, guard : 0 .. MaxLoops - 1]
      /\ count \in Nat /\ next \in 1 .. N
  BY SMTT(30), Z3T(30), StreamAssumption DEF LoopInv, DacInv, D!TypeOK, OrderInv
<1>1. E!BhServe /\ bh.n = 0 /\ bh.run
  BY SMTT(30), Z3T(30), <1>0 DEF Serve, E!BhServe
<1>2. Asked
  BY <1>1, EligibleAsked DEF E!BhServe
<1>3. step \notin ToErq /\ step \notin ToGcr /\ step # "fcr" /\ step' = step
  BY Zenon, <1>2, StepSets DEF Asked, ChanInv, driver
<1>4. /\ E!MovesData(0)
      /\ ch' \in [{0} -> Chans]
      /\ ch'[0].tcd.err = {} /\ ch'[0].tcd.citer.n >= 1 /\ ch'[0].tcd.biter = Citer
      /\ ch'[0].mux = 1 /\ (ch'[0].erq => ch[0].erq)
  BY Zenon, <1>1, ServeChan
<1>5. ChanInv'
  BY Zenon, <1>3, <1>4 DEF ChanInv, Citer
<1>6. D!dac_push(next) /\ Wire /\ next' = After(next)
  BY Zenon, <1>4 DEF Serve
<1>7. D!DmaWanted /\ gcr.fifoen /\ D!TypeOK
  BY Zenon, <1>2, <1>3 DEF Asked, WireInv, DacInv
<1>8. count < Depth
  BY Zenon, <1>7, AskedHasRoom
<1>9. /\ count' = count + 1 /\ out' = out /\ latched' = latched
      /\ UNCHANGED D!regs /\ D!dac_update_irq
  BY Zenon, <1>0, <1>6, <1>7, <1>8, QueuePut
<1>10. OrderInv'
  BY Zenon, <1>6, <1>7, <1>8, OrderPut
<1>11. D!TypeOK'
  BY Zenon, <1>0, <1>6, <1>7, <1>8, QueuePut
<1>12. /\ reqLevel' \in [{1} -> BOOLEAN] /\ reqEdge' = reqEdge /\ reqEnabled' = reqEnabled
       /\ bh' = [bh EXCEPT !.n = bh.n + 1, !.progress = TRUE]
  <2>1. PICK r \in E!CallsDuringTransfer :
          /\ reqLevel' = [r.level EXCEPT ![ch[0].mux] = @ /\ ~r.edge[ch[0].mux]]
          /\ reqEdge' = r.edge
    BY ZenonT(40), <1>1, <1>4 DEF E!BhServe, E!BusReactions
  <2>2. E!Source = {1}
    BY SMTT(30), Z3T(30) DEF E!Source
  <2>3. /\ r.level \in [{1} -> BOOLEAN] /\ r.edge \in [{1} -> BOOLEAN]
        /\ r.edge[1] = reqEdge[1]
    BY Zenon, <2>2 DEF E!CallsDuringTransfer
  <2>4. ch[0].mux = 1
    BY Zenon, <1>3, StepSets DEF ChanInv
  <2>5. reqLevel' \in [{1} -> BOOLEAN]
    BY Zenon, <2>1, <2>3, <2>4
  <2>6. reqEdge' = reqEdge
    BY ZenonT(40), <2>1, <2>3 DEF WireInv
  <2> QED BY Zenon, <1>1, <2>5, <2>6 DEF E!BhServe
<1>13. /\ reqLevel'[1] = D!DmaWanted' /\ dma_req_level' = D!DmaWanted'
       /\ dma_req_level' \in BOOLEAN
  BY Zenon, <1>3, <1>9, <1>12, Publish DEF WireInv, DacInv, D!TypeOK
<1>14. WireInv'
  BY Zenon, <1>12, <1>13 DEF WireInv, mux
<1>15. DacInv'
  BY Zenon, <1>3, <1>9, <1>11 DEF DacInv, NoOverflow, D!regs
<1>16. TimerInv'
  BY Zenon, <1>3 DEF TimerInv
<1>17. LoopInv'
  <2>1. bhScheduled' \in BOOLEAN
    BY Zenon, <1>0, <1>6, <1>13, WireRises
  <2>2. /\ bh'.run /\ bh'.n = 1 /\ bh'.progress /\ bh'.guard = bh.guard
        /\ bh' \in [run : BOOLEAN, n : 0 .. 1, progress : BOOLEAN, guard : 0 .. MaxLoops - 1]
    <3>1. bh.n + 1 = 1 /\ 1 \in 0 .. 1
      BY <1>1
    <3>2. bh' = [bh EXCEPT !.n = 1, !.progress = TRUE]
      BY ZenonT(40), <1>12, <3>1
    <3> QED BY ZenonT(40), <1>0, <1>1, <3>1, <3>2
  <2>3. count >= bh.guard /\ bh.guard \in Nat
    BY SMTT(30), Z3T(30), <1>0, <1>1, StreamAssumption DEF LoopInv
  <2>4. count' >= bh'.guard /\ count' >= bh'.guard + 1
    BY SMTT(30), Z3T(30), <1>0, <1>9, <2>2, <2>3
  <2> QED BY Zenon, <2>1, <2>2, <2>4 DEF LoopInv
<1> QED BY ZenonT(40), <1>3, <1>5, <1>10, <1>14, <1>15, <1>16, <1>17

\* Only a match of a running timer gets here: the driver is done.  What the match sends
\* the DAC is a trigger, or nothing.
LEMMA TickShape ==
  ASSUME IInv, Tick
  PROVE  /\ step = "run" /\ UNCHANGED <<mux, next, step>> /\ TimerInv'
         /\ gcr.fifoen /\ gcr.dacen
         /\ \/ UNCHANGED <<edma, dac>>
            \/ DacHandler(D!dac_trigger)
<1> USE DEF IInv
<1>1. step = "run"
  BY ZenonT(40) DEF Tick, C!ctimer_tick, C!Armed, TimerInv
<1>2. UNCHANGED <<mux, next, step>>
  BY Zenon DEF Tick, driver
<1>3. TimerInv'
  <2> DEFINE a == C!ctimer_sync(ct)
             b == C!Fire(a, C!Firing(a))
             c == C!ctimer_update_irq(b)
  <2>1. {"cen", "due"} \subseteq DOMAIN a
    BY KeepsFields DEF TimerInv
  <2> HIDE DEF a
  <2>2. {"cen", "due"} \subseteq DOMAIN b
    BY Zenon, <2>1 DEF C!Fire
  <2> HIDE DEF b
  <2>3. {"cen", "due"} \subseteq DOMAIN c
    BY Zenon, <2>2, KeepsFields
  <2> HIDE DEF c
  <2>4. ct' = C!ctimer_reschedule(c)
    BY Zenon DEF Tick, C!ctimer_tick, a, b, c
  <2>5. {"cen", "due"} \subseteq DOMAIN ct'
    BY Zenon, <2>3, <2>4, KeepsFields
  <2> QED BY ZenonT(40), <1>1, <1>2, <2>5, StepSets DEF TimerInv
<1>4. gcr.fifoen /\ gcr.dacen
  BY Zenon, <1>1, StepSets DEF DacInv
<1>5. UNCHANGED <<edma, dac>> \/ DacHandler(D!dac_hw_trigger)
  BY Zenon DEF Tick, Route
<1>6. ASSUME DacHandler(D!dac_hw_trigger)
      PROVE  UNCHANGED <<edma, dac>> \/ DacHandler(D!dac_trigger)
  <2>1. CASE UNCHANGED D!vars
    <3>1. UNCHANGED dac /\ reqLevel'[1] = reqLevel[1]
      BY Zenon, <2>1 DEF dac, D!vars, D!regs, D!ring, D!lines
    <3>2. reqLevel' = reqLevel
      BY SMTT(30), Z3T(30), <1>6, <3>1 DEF DacHandler, WireInv
    <3>3. bhScheduled' = bhScheduled
      BY Zenon, <1>6, <3>1 DEF DacHandler, Wire, dac, LoopInv
    <3> QED BY Zenon, <1>6, <3>1, <3>2, <3>3 DEF DacHandler, edma
  <2>2. CASE D!dac_trigger
    BY Zenon, <1>6, <2>2 DEF DacHandler
  <2> QED BY Zenon, <1>6, <2>1, <2>2 DEF DacHandler, D!dac_hw_trigger
<1> QED BY ZenonT(40), <1>1, <1>2, <1>3, <1>4, <1>5, <1>6

\* A trigger outside the bottom half: what the DAC asks for in answer schedules it.
LEMMA TriggerStep ==
  ASSUME IInv, DacHandler(D!dac_trigger), step = "run", UNCHANGED <<mux, next, step>>,
         gcr.fifoen, gcr.dacen, TimerInv', loop \in {"poll", "timers"}, loop' = "poll"
  PROVE  IInv'
<1> USE DEF IInv
<1>0. /\ bhScheduled \in BOOLEAN /\ count \in Nat /\ D!TypeOK /\ ~bh.run
      /\ dma_req_level \in BOOLEAN /\ reqLevel[1] \in BOOLEAN /\ dma_req_level = reqLevel[1]
  <2>1. count \in Nat
    BY StreamAssumption DEF DacInv, D!TypeOK
  <2>2. step # "fcr"
    OBVIOUS
  <2> QED BY ZenonT(40), <2>1, <2>2 DEF LoopInv, DacInv, D!TypeOK, WireInv
<1>1. /\ D!dac_trigger /\ Wire /\ reqLevel' \in [{1} -> BOOLEAN]
      /\ UNCHANGED <<ch, eirq, reqEnabled, reqEdge, bh>>
  BY Zenon DEF DacHandler
<1>2. /\ UNCHANGED D!regs /\ D!dac_update_irq
      /\ count = 0 => UNCHANGED <<D!ring, out>> /\ latched' = latched \cup {"UF"}
      /\ count > 0 => latched' = latched
  BY Zenon, <1>0, <1>1, QueueGet
<1>3. OrderInv'
  <2>1. CASE count = 0
    BY Zenon, <1>2, <2>1, OrderSame
  <2>2. CASE count > 0
    BY ZenonT(40), <1>0, <1>1, <2>2, OrderGet
  <2> QED BY SMTT(30), Z3T(30), <1>0, <2>1, <2>2
<1>4. D!TypeOK'
  BY Zenon, <1>0, <1>1, QueueGet
<1>5. /\ reqLevel'[1] = D!DmaWanted' /\ dma_req_level' = D!DmaWanted'
      /\ dma_req_level' \in BOOLEAN
  BY Zenon, <1>0, <1>1, <1>2, Publish
<1>6. WireInv'
  BY Zenon, <1>1, <1>5 DEF WireInv, mux
<1>7. "OF" \notin latched'
  <2>1. count = 0 \/ count > 0
    BY SMTT(30), Z3T(30), <1>0
  <2> QED BY SMTT(30), Z3T(30), <1>2, <2>1 DEF DacInv, NoOverflow
<1>8. DacInv'
  BY Zenon, <1>2, <1>4, <1>7 DEF DacInv, NoOverflow, D!regs
<1>9. ChanInv'
  BY ZenonT(40), <1>1 DEF ChanInv, Citer
<1>10. LoopInv'
  <2>1. /\ bhScheduled' \in BOOLEAN
        /\ bhScheduled => bhScheduled'
        /\ dma_req_level' /\ ~dma_req_level => bhScheduled'
    BY Zenon, <1>0, <1>1, <1>5, WireRises
  <2>2. Asked' => bhScheduled'
    <3>1. reqLevel'[1] /\ ~reqLevel[1] => bhScheduled'
      BY Zenon, <1>0, <1>5, <2>1
    <3>2. Asked => bhScheduled
      BY Zenon, <1>0 DEF LoopInv
    <3> QED BY Zenon, <1>1, <2>1, <3>1, <3>2 DEF Asked, mux
  <2>3. ~bh'.run
    BY Zenon, <1>0, <1>1
  <2> QED BY Zenon, <1>1, <2>1, <2>2, <2>3 DEF LoopInv
<1> QED BY Zenon, <1>3, <1>6, <1>8, <1>9, <1>10

\* The timer's callback preserves the invariant, from the main loop or the vCPU thread.
LEMMA TickStep ==
  ASSUME IInv, Tick, loop \in {"poll", "timers"}, loop' = "poll"
  PROVE  IInv'
<1>1. /\ step = "run" /\ UNCHANGED <<mux, next, step>> /\ TimerInv'
      /\ gcr.fifoen /\ gcr.dacen
      /\ UNCHANGED <<edma, dac>> \/ DacHandler(D!dac_trigger)
  BY Zenon, TickShape
<1>2. CASE DacHandler(D!dac_trigger)
  BY Zenon, <1>1, <1>2, TriggerStep
<1>3. CASE UNCHANGED <<edma, dac>>
  <2>1. DacInv' /\ OrderInv' /\ D!DmaWanted' = D!DmaWanted
    BY Zenon, <1>1, <1>3, DacSame DEF IInv, edma
  <2>2. ChanInv'
    BY ZenonT(40), <1>1, <1>3 DEF IInv, ChanInv, Citer, edma
  <2>3. WireInv'
    BY <1>1, <1>3, <2>1 DEF IInv, WireInv, edma, dac, mux
  <2>4. LoopInv'
    BY Zenon, <1>1, <1>3 DEF IInv, LoopInv, Asked, edma, dac, mux
  <2> QED BY ZenonT(40), <1>1, <2>1, <2>2, <2>3, <2>4 DEF IInv
<1> QED BY Zenon, <1>1, <1>2, <1>3

\* Time passes: only the timer's deadline moves.
LEMMA TimeStep ==
  ASSUME IInv, TimePasses
  PROVE  IInv'
<1> USE DEF IInv
<1>1. UNCHANGED <<edma, dac, mux, next, step, loop>>
  BY DEF TimePasses, driver
<1>2. step = "run"
  BY DEF TimePasses, C!Armed, TimerInv
<1>3. {"cen", "due"} \subseteq DOMAIN ct'
  BY Zenon DEF TimePasses, C!Pass, C!Quiet, TimerInv
<1>4. TimerInv'
  BY ZenonT(40), <1>1, <1>2, <1>3, StepSets DEF TimerInv
<1>5. DacInv' /\ OrderInv' /\ D!DmaWanted' = D!DmaWanted
  BY <1>1, DacSame DEF edma
<1>6. ChanInv'
  BY ZenonT(40), <1>1 DEF ChanInv, Citer, edma
<1>7. WireInv'
  BY Zenon, <1>1, <1>5 DEF WireInv, edma, dac, mux
<1>8. LoopInv'
  BY Zenon, <1>1 DEF LoopInv, Asked, edma, dac, mux
<1> QED BY ZenonT(40), <1>1, <1>4, <1>5, <1>6, <1>7, <1>8

\* A system reset: the eDMA's latch falls, the DAC's copy of it may stay up, and the
\* bottom half may stay scheduled.
LEMMA ResetStep ==
  ASSUME IInv, SystemReset
  PROVE  IInv'
<1>1. step' = "fcr" /\ loop' = "poll" /\ next' = 1
  BY DEF SystemReset
<1>2. /\ ch' = [n \in {0} |-> E!ResetChan] /\ reqLevel' = [s \in {1} |-> FALSE]
      /\ reqEnabled' = [s \in {1} |-> TRUE] /\ reqEdge' = [s \in {1} |-> FALSE]
      /\ UNCHANGED <<bhScheduled, bh>> /\ ~bh.run
  BY SMTT(30), Z3T(30) DEF SystemReset, E!mcxn_edma_reset, E!Channel, E!Source, E!Idle
<1>3. ChanInv'
  <2>1. E!ResetIter \in Iters
    BY StreamAssumption DEF E!ResetIter, Iters
  <2>2. E!ResetTcd \in Tcds
    BY ZenonT(40), <2>1 DEF E!ResetTcd, Tcds, Csrs
  <2>3. E!ResetChan \in Chans /\ E!ResetChan.erq = FALSE
    BY Zenon, <2>2 DEF E!ResetChan, Chans
  <2> QED BY ZenonT(40), <1>1, <1>2, <2>3, StepSets DEF ChanInv
<1>4. D!TypeOK' /\ der' = {} /\ latched' = {} /\ count' = 0 /\ out' = 0
  <2>1. wptr' = (rptr' + count') % Depth
    BY SMTT(30), Z3T(30), StreamAssumption DEF SystemReset, D!mcxn_dac_reset, D!dac_fifo_reset
  <2>2. wml' \in 0 .. Depth - 1 /\ count' \in 0 .. Depth /\ rptr' \in 0 .. Depth - 1
        /\ wptr' \in 0 .. Depth - 1
    BY SMTT(30), Z3T(30), StreamAssumption DEF SystemReset, D!mcxn_dac_reset, D!dac_fifo_reset
  <2>3. fifo' \in [0 .. Depth - 1 -> (1 .. N) \cup {0}]
    BY Zenon DEF SystemReset, D!mcxn_dac_reset
  <2>4. dma_req_level' \in BOOLEAN
    BY DEF SystemReset, D!mcxn_dac_reset, IInv, DacInv, D!TypeOK
  <2> QED BY Zenon, <1>2, <2>1, <2>2, <2>3, <2>4
     DEF SystemReset, D!mcxn_dac_reset, D!dac_fifo_reset, D!TypeOK, D!ResetGcr
<1>5. gate' = [r \in {1} |-> TRUE]
  BY DEF SystemReset, I!mcxn_inputmux_reset
<1>6. WireInv'
  <2>1. D!DmaWanted' = FALSE
    BY Zenon, <1>4 DEF D!DmaWanted
  <2>2. reqLevel'[1] = FALSE /\ reqLevel' \in [{1} -> BOOLEAN]
    BY <1>2
  <2>3. gate' \in [{1} -> BOOLEAN] /\ reqEnabled' = gate'
    BY Zenon, <1>2, <1>5
  <2> QED BY ZenonT(40), <1>1, <1>2, <2>1, <2>2, <2>3 DEF WireInv
<1>7. DacInv'
  BY Zenon, <1>1, <1>4, StepSets DEF DacInv, NoOverflow
<1>8. TimerInv'
  BY ZenonT(40) DEF TimerInv, SystemReset, C!mcxn_ctimer_reset, C!Reset
<1>9. LoopInv'
  <2>1. ~Asked'
    BY Zenon, <1>2 DEF Asked
  <2> QED BY Zenon, <1>1, <1>2, <2>1 DEF IInv, LoopInv
<1>10. OrderInv'
  BY SMTT(30), Z3T(30), <1>1, <1>4, StreamAssumption, OrderEmpty
<1> QED BY ZenonT(40), <1>1, <1>3, <1>6, <1>7, <1>8, <1>9, <1>10, StepSets DEF IInv

\* A migration: the eDMA schedules its bottom half again for what was latched.
LEMMA MigrateStep ==
  ASSUME IInv, Migrate
  PROVE  IInv'
<1> USE DEF IInv
<1>1. /\ UNCHANGED <<ch, reqLevel, reqEnabled, reqEdge, bh, mux, next, step, loop>>
      /\ bhScheduled' = (\E s \in {1} : reqLevel[s] /\ reqEnabled[s])
      /\ ~bh.run /\ loop = "poll"
  BY SMTT(30), Z3T(30) DEF Migrate, E!mcxn_edma_post_load, E!Source, E!Idle, driver
<1>2. /\ UNCHANGED <<gcr, wml, ier, der, latched, fifo, wptr, rptr, count, out>>
      /\ dirq' \in BOOLEAN /\ dma_req_level' = D!DmaWanted
  BY Zenon DEF Migrate, D!mcxn_dac_post_load, D!regs, D!ring
<1>3. D!DmaWanted' = D!DmaWanted
  BY Zenon, <1>2, WantSame
<1>4. WireInv'
  BY Zenon, <1>1, <1>2, <1>3 DEF WireInv, mux
<1>5. DacInv'
  <2>1. dma_req_level' \in BOOLEAN
    BY Zenon, <1>2 DEF D!DmaWanted
  <2>2. D!TypeOK'
    BY ZenonT(40), <1>1, <1>2, <2>1 DEF DacInv, D!TypeOK
  <2> QED BY ZenonT(40), <1>1, <1>2, <2>2 DEF DacInv, NoOverflow
<1>6. OrderInv'
  BY Zenon, <1>1, <1>2, OrderSame DEF D!ring
<1>7. ChanInv'
  BY Zenon, <1>1 DEF ChanInv, Citer
<1>8. TimerInv'
  <2>1. {"cen", "due"} \subseteq DOMAIN ct' /\ ct'.cen = ct.cen /\ ct'.due = ct.due
    BY Zenon DEF Migrate, C!mcxn_ctimer_post_load, C!Quiet, C!ctimer_update_irq, TimerInv
  <2> QED BY Zenon, <1>1, <2>1 DEF TimerInv
<1>9. LoopInv'
  <2>1. bhScheduled' \in BOOLEAN
    BY Zenon, <1>1
  <2>2. Asked' => bhScheduled'
    BY Zenon, <1>1 DEF Asked, WireInv, mux
  <2> QED BY ZenonT(40), <1>1, <1>2, <2>1, <2>2 DEF LoopInv
<1> QED BY Zenon, <1>1, <1>4, <1>5, <1>6, <1>7, <1>8, <1>9

\* Every step of the chain preserves the invariant.
LEMMA NextIInv ==
  ASSUME IInv, [Next]_vars
  PROVE  IInv'
<1>1. CASE Guest(Setup)
  BY Zenon, <1>1, SetupStep
<1>2. CASE Guest(Pause) \/ Guest(Resume)
  BY Zenon, <1>2, GateStep
<1>3. CASE MainLoop
  <2>1. CASE loop = "bh" /\ Serve
    <3>1. loop' = (IF bh'.run THEN "bh" ELSE "timers") /\ UNCHANGED <<ct, mux, driver>>
      BY Zenon, <1>3, <2>1 DEF MainLoop, NothingDue
    <3> QED BY Zenon, <2>1, <3>1, ServeStep
  <2> QED BY Zenon, <1>3, <2>1, LoopStep
<1>4. CASE RunTimers
  BY Zenon, <1>4, TickStep DEF RunTimers, BhsDone
<1>5. CASE icount_handle_deadline
  BY <1>5, TickStep DEF icount_handle_deadline
<1>6. CASE TimePasses
  BY <1>6, TimeStep
<1>7. CASE SystemReset
  BY Zenon, <1>7, ResetStep
<1>8. CASE Migrate
  BY <1>8, MigrateStep
<1>9. CASE UNCHANGED vars
  <2> USE DEF IInv
  <2>1. UNCHANGED <<edma, dac, ct, mux, next, step, loop>>
    BY Zenon, <1>9 DEF vars, driver
  <2>2. DacInv' /\ OrderInv' /\ D!DmaWanted' = D!DmaWanted
    BY <2>1, DacSame DEF edma
  <2>3. ChanInv'
    BY ZenonT(40), <2>1 DEF ChanInv, Citer, edma
  <2>4. WireInv'
    BY Zenon, <2>1, <2>2 DEF WireInv, edma, dac, mux
  <2>5. LoopInv'
    BY Zenon, <2>1 DEF LoopInv, Asked, edma, dac, mux
  <2>6. TimerInv'
    BY <2>1 DEF TimerInv
  <2> QED BY Zenon, <2>1, <2>2, <2>3, <2>4, <2>5, <2>6
<1> QED BY ZenonT(40), <1>1, <1>2, <1>3, <1>4, <1>5, <1>6, <1>7, <1>8, <1>9 DEF Next

\* The chain never leaves its inductive invariant, whatever the length of the buffer,
\* the depth of the FIFO, the periods of the timer and the lateness of its callbacks.
THEOREM Invariant == Spec => []IInv
<1> QED BY InitIInv, NextIInv, PTL DEF Spec

\* dac_push never meets a full FIFO: the DMA writes only while the DAC asks, and the
\* DAC asks at or below a watermark that is below the depth.
THEOREM NeverOverflows == Spec => []NoOverflow
<1>1. IInv => NoOverflow
  BY Zenon DEF IInv, DacInv
<1> QED BY <1>1, Invariant, PTL

\* mcxn_edma_req forgets no request: while dac_update_irq asks, the gate is open and the
\* channel listens, the bottom half is scheduled or running.
THEOREM AlwaysPending == Spec => []AskedIsPending
<1>1. IInv => AskedIsPending
  BY Zenon DEF IInv, AskedIsPending, LoopInv, WireInv, Asked
<1> QED BY <1>1, Invariant, PTL

\* Every word edma_do_minor_loop read is played once and in the order it was read.
THEOREM PlaysInOrder == Spec => []StreamInOrder
<1>1. IInv => StreamInOrder
  BY OrderIsStream DEF IInv, DacInv
<1> QED BY <1>1, Invariant, PTL

\* An empty FIFO asks, whichever of its two flags the driver enabled.
LEMMA EmptyAsks ==
  ASSUME D!TypeOK, der # {}, count = 0
  PROVE  D!DmaWanted
<1>1. wml \in Nat /\ der \subseteq {"WM", "EMPTY"}
  BY SMTT(30), Z3T(30), StreamAssumption DEF D!TypeOK
<1>2. {"WM", "EMPTY"} \subseteq D!dac_fsr
  BY <1>1 DEF D!dac_fsr
<1> QED BY ZenonT(40), <1>1, <1>2 DEF D!DmaWanted

\* When the main loop runs its timers every request has been served.
LEMMA ServedBeforeTimers ==
  ASSUME IInv, BhsDone
  PROVE  ~Asked
<1>1. CASE loop = "timers"
  BY Zenon, <1>1 DEF IInv, LoopInv
<1>2. CASE loop = "poll" /\ ~bhScheduled
  BY Zenon, <1>2 DEF IInv, LoopInv
<1> QED BY Zenon, <1>1, <1>2 DEF BhsDone

\* One step of the chain marks an underflow only by a timer of the main loop that finds
\* the FIFO empty, which the bottom half would have filled.
LEMMA NoGapStep ==
  ASSUME IInv, Next, ~icount, ch[0].erq, gate[1], "UF" \notin latched
  PROVE  "UF" \notin latched'
<1>1. CASE Guest(Setup)
  <2>1. ASSUME NEW w, Dac(D!WriteFcr(w)) PROVE latched' \subseteq latched
    BY Zenon, <2>1 DEF Dac, DacHandler, D!WriteFcr, D!regs, D!ring
  <2>2. ASSUME NEW g, Dac(D!WriteGcr(g)) PROVE latched' \subseteq latched
    BY Zenon, <2>2 DEF Dac, DacHandler, D!WriteGcr, D!regs, D!ring
  <2>3. ASSUME NEW b, Dac(D!WriteFsr(b)) PROVE latched' \subseteq latched
    BY Zenon, <2>3 DEF Dac, DacHandler, D!WriteFsr
  <2>4. ASSUME NEW v, Dac(D!WriteDer(v)) PROVE latched' \subseteq latched
    BY <2>4 DEF Dac, DacHandler, D!WriteDer, D!regs, D!ring
  <2>5. ASSUME UNCHANGED dac PROVE latched' \subseteq latched
    BY <2>5 DEF dac
  <2>6. \/ \E w : Dac(D!WriteFcr(w))
        \/ \E g : Dac(D!WriteGcr(g))
        \/ \E b : Dac(D!WriteFsr(b))
        \/ \E v : Dac(D!WriteDer(v))
        \/ UNCHANGED dac
    BY Zenon, <1>1 DEF Guest, Setup, Tcd, Edma, Ctimer
  <2> QED BY Zenon, <2>1, <2>2, <2>3, <2>4, <2>5, <2>6
<1>2. CASE Guest(Pause) \/ Guest(Resume)
  BY ZenonT(40), <1>2 DEF Guest, Pause, Resume, Gate, dac
<1>3. CASE MainLoop
  <2>1. UNCHANGED dac \/ D!dac_push(next)
    BY <1>3 DEF MainLoop, BottomHalf, NothingDue, Serve
  <2>2. latched' \subseteq latched \cup {"OF"}
    BY Zenon, <2>1 DEF dac, D!dac_push, D!regs, D!ring
  <2> QED BY Zenon, <2>2
<1>4. CASE RunTimers
  <2>1. Tick /\ ~Asked
    BY Zenon, <1>4, ServedBeforeTimers DEF RunTimers
  <2>2. /\ step = "run" /\ gcr.fifoen /\ gcr.dacen
        /\ UNCHANGED <<edma, dac>> \/ DacHandler(D!dac_trigger)
    BY Zenon, <2>1, TickShape
  <2>3. D!TypeOK /\ der # {}
    BY Zenon, <2>2, StepSets DEF IInv, DacInv
  <2>4. ~D!DmaWanted
    BY Zenon, <2>1 DEF Asked, IInv, WireInv
  <2>5. count > 0
    BY SMTT(30), Z3T(30), <2>3, <2>4, EmptyAsks, StreamAssumption DEF D!TypeOK
  <2>6. CASE DacHandler(D!dac_trigger)
    BY ZenonT(40), <2>2, <2>3, <2>5, <2>6, QueueGet DEF DacHandler
  <2>7. CASE UNCHANGED <<edma, dac>>
    BY <2>7 DEF dac
  <2> QED BY Zenon, <2>2, <2>6, <2>7
<1>5. CASE icount_handle_deadline
  BY Zenon, <1>5 DEF icount_handle_deadline
<1>6. CASE TimePasses
  BY Zenon, <1>6 DEF TimePasses, dac
<1>7. CASE SystemReset
  BY Zenon, <1>7 DEF SystemReset, D!mcxn_dac_reset, D!dac_fifo_reset
<1>8. CASE Migrate
  BY <1>8 DEF Migrate, D!mcxn_dac_post_load, D!regs, D!ring
<1> QED BY Zenon, <1>1, <1>2, <1>3, <1>4, <1>5, <1>6, <1>7, <1>8 DEF Next

\* While the buffer plays through an open gate, no trigger finds the FIFO empty, however
\* late the timers run: dac_trigger latches UF only once edma_bh served what was asked.
THEOREM PlaysWithoutGap == Spec => NoGap
<1>1. IInv /\ [Next]_vars
        => [~icount /\ ch[0].erq /\ gate[1] /\ "UF" \notin latched
              => "UF" \notin latched']_vars
  BY NoGapStep
<1> QED BY <1>1, Invariant, PTL DEF Spec, NoGap
=============================================================================

---------------------------- MODULE SamplesProofs ----------------------------
(***************************************************************************)
(* Proofs about Samples for any FIFO depths, triggers, inputs and values:    *)
(* the lines of the three devices follow their state, the ADC never loses a  *)
(* result it stored, and the DAC's ring, between two system resets, and the  *)
(* PDM interface implement the bounded queue.                                *)
(***************************************************************************)
EXTENDS Samples, SequenceTheorems, WellFoundedInduction, TLAPS

\* The two ends of the request wire agree with what the FIFO wants.
LinesInv == LinesFollowState /\ dma_req_level = DmaWanted

Inv == TypeOK /\ LinesInv

-----------------------------------------------------------------------------
\* Pointers stay in the ring, and moving one and counting one agree.
LEMMA RingMod ==
  ASSUME NEW r \in 0 .. Depth - 1, NEW n \in 0 .. Depth
  PROVE  /\ (r + n) % Depth \in 0 .. Depth - 1
         /\ (((r + n) % Depth) + 1) % Depth = (r + (n + 1)) % Depth
         /\ n > 0 => (((r + 1) % Depth) + (n - 1)) % Depth = (r + n) % Depth
<1> DEFINE s == (r + n) % Depth
<1>1. s = IF r + n < Depth THEN r + n ELSE r + n - Depth
  BY ConstAssumption
<1>2. s \in 0 .. Depth - 1
  BY <1>1, ConstAssumption
<1>3. (s + 1) % Depth = IF s + 1 < Depth THEN s + 1 ELSE 0
  BY <1>2, ConstAssumption
<1>4. (r + (n + 1)) % Depth = IF s + 1 < Depth THEN s + 1 ELSE 0
  BY <1>1, <1>2, ConstAssumption
<1> DEFINE u == (r + 1) % Depth
<1>5. u = IF r + 1 < Depth THEN r + 1 ELSE 0
  BY ConstAssumption
<1>6. n > 0 => (u + (n - 1)) % Depth = s
  BY <1>1, <1>5, ConstAssumption
<1> QED BY <1>2, <1>3, <1>4, <1>6

\* dac_update_irq publishes a change of its own copy, so after it both ends agree if
\* they agreed before.
LEMMA Publish ==
  ASSUME LinesInv, dac_update_irq
  PROVE  LinesInv'
BY DEF LinesInv, LinesFollowState, dac_update_irq

-----------------------------------------------------------------------------
\* The reset state satisfies the invariant.
LEMMA InitInv == Init => Inv
<1> SUFFICES ASSUME Init PROVE Inv
  OBVIOUS
<1>1. wptr = (rptr + count) % Depth /\ wptr \in 0 .. Depth - 1 /\ rptr \in 0 .. Depth - 1
  BY ConstAssumption DEF Init
<1>2. TypeOK
  <2>1. wml \in 0 .. Depth - 1 /\ count \in 0 .. Depth
    BY ConstAssumption DEF Init
  <2>2. fifo \in [0 .. Depth - 1 -> Sample \cup {NoSample}] /\ out \in Sample \cup {NoSample}
    BY DEF Init
  <2> QED BY ZenonT(40), <1>1, <2>1, <2>2 DEF Init, TypeOK, ResetGcr
<1>3. dac_fsr \cap ier = {} /\ dac_fsr \cap der = {}
  BY DEF Init
<1>4. LinesInv
  BY ZenonT(40), <1>3 DEF Init, LinesInv, LinesFollowState, DmaWanted
<1> QED BY <1>2, <1>4 DEF Inv

\* The lines a handler drives are Booleans.
LEMMA LinesType ==
  ASSUME TypeOK, dac_update_irq
  PROVE  irq' \in BOOLEAN /\ dma_req_level' \in BOOLEAN /\ reqLine' \in BOOLEAN
BY ZenonT(40) DEF TypeOK, dac_update_irq, DmaWanted

\* What dac_push does to the ring.
LEMMA PushType ==
  ASSUME TypeOK, NEW v \in Sample, dac_push(v)
  PROVE  TypeOK'
<1>1. CASE ~gcr.fifoen /\ out' = v /\ UNCHANGED <<regs, latched, ring, lines>>
  BY <1>1 DEF TypeOK, regs, ring, lines
<1>2. CASE /\ count >= Depth /\ latched' = latched \cup {"OF"}
           /\ UNCHANGED <<regs, ring, out>> /\ dac_update_irq
  BY <1>2, LinesType DEF TypeOK, regs, ring
<1>3. CASE /\ count < Depth
           /\ fifo' = [fifo EXCEPT ![wptr] = v]
           /\ wptr' = (wptr + 1) % Depth
           /\ count' = count + 1
           /\ UNCHANGED <<regs, latched, rptr, out>>
           /\ dac_update_irq
  <2>1. rptr \in 0 .. Depth - 1 /\ count \in 0 .. Depth /\ wptr = (rptr + count) % Depth
    BY DEF TypeOK
  <2>2. (((rptr + count) % Depth) + 1) % Depth = (rptr + (count + 1)) % Depth
    BY <2>1, RingMod
  <2>3. wptr' = (rptr + count') % Depth
    BY <1>3, <2>1, <2>2
  <2>4. count' \in 0 .. Depth /\ wptr' \in 0 .. Depth - 1
    <3>1. count' \in 0 .. Depth
      BY <1>3, <2>1, ConstAssumption
    <3> QED BY <2>1, <2>3, <3>1, RingMod
  <2>5. irq' \in BOOLEAN /\ dma_req_level' \in BOOLEAN /\ reqLine' \in BOOLEAN
    BY <1>3, LinesType
  <2>6. fifo' \in [0 .. Depth - 1 -> Sample \cup {NoSample}]
    BY <1>3 DEF TypeOK
  <2> QED BY Zenon, <1>3, <2>3, <2>4, <2>5, <2>6 DEF TypeOK, regs
<1> QED BY <1>1, <1>2, <1>3 DEF dac_push

\* What a trigger does to the ring.
LEMMA TriggerType ==
  ASSUME TypeOK, dac_trigger
  PROVE  TypeOK'
<1>1. CASE UNCHANGED vars
  BY <1>1 DEF TypeOK, vars, regs, ring, lines
<1>2. CASE /\ latched' = latched \cup {"UF"}
           /\ UNCHANGED <<regs, ring, out>> /\ dac_update_irq
  BY <1>2, LinesType DEF TypeOK, regs, ring
<1>3. CASE /\ count > 0
           /\ out' = fifo[rptr]
           /\ rptr' = (rptr + 1) % Depth
           /\ count' = count - 1
           /\ UNCHANGED <<regs, latched, fifo, wptr>>
           /\ dac_update_irq
  <2>1. rptr \in 0 .. Depth - 1 /\ count \in 0 .. Depth /\ wptr = (rptr + count) % Depth
    BY DEF TypeOK
  <2>2. (((rptr + 1) % Depth) + (count - 1)) % Depth = (rptr + count) % Depth
    BY <1>3, <2>1, RingMod
  <2>3. wptr' = (rptr' + count') % Depth
    BY <1>3, <2>1, <2>2
  <2>4. count' \in 0 .. Depth /\ rptr' \in 0 .. Depth - 1
    BY <1>3, <2>1, ConstAssumption
  <2>5. irq' \in BOOLEAN /\ dma_req_level' \in BOOLEAN /\ reqLine' \in BOOLEAN
    BY <1>3, LinesType
  <2> QED BY Zenon, <1>3, <2>3, <2>4, <2>5 DEF TypeOK, regs
<1> QED BY <1>1, <1>2, <1>3 DEF dac_trigger

\* A FIFO reset leaves an empty ring.
LEMMA FifoResetType ==
  ASSUME dac_fifo_reset
  PROVE  /\ wptr' \in 0 .. Depth - 1 /\ rptr' \in 0 .. Depth - 1 /\ count' \in 0 .. Depth
         /\ wptr' = (rptr' + count') % Depth
         /\ latched' = {}
BY ConstAssumption DEF dac_fifo_reset

\* Every register write, trigger and migration keeps the types and the ring's shape.
LEMMA LocalType ==
  ASSUME TypeOK, LocalNext
  PROVE  TypeOK'
<1>1. CASE \E v \in Sample : dac_push(v)
  BY <1>1, PushType
<1>2. CASE dac_trigger
  BY <1>2, TriggerType
<1>3. CASE dac_hw_trigger
  <2>1. CASE UNCHANGED vars
    BY <2>1 DEF TypeOK, vars, regs, ring, lines
  <2> QED BY Zenon, <1>3, <2>1, TriggerType DEF dac_hw_trigger
<1>4. CASE \E bits \in SUBSET {"OF", "UF"} : WriteFsr(bits)
  BY <1>4, LinesType DEF WriteFsr, TypeOK, regs, ring
<1>5. CASE \E v \in IerIn : WriteIer(v)
  BY SMTT(30), Z3T(30), <1>5, LinesType, ConstAssumption DEF WriteIer, TypeOK, ring
<1>6. CASE \E v \in SUBSET {"WM", "EMPTY"} : WriteDer(v)
  BY Zenon, <1>6, LinesType DEF WriteDer, TypeOK, ring
<1>7. CASE \E v \in 0 .. Depth - 1 : WriteFcr(v)
  BY ZenonT(40), <1>7, LinesType DEF WriteFcr, TypeOK, ring
<1>8. CASE \E v \in [dacen : BOOLEAN, fifoen : BOOLEAN, trgsel : BOOLEAN] : WriteGcr(v)
  BY <1>8, LinesType DEF WriteGcr, TypeOK, ring
<1>9. CASE \E swrst, fiforst \in BOOLEAN : WriteRcr(swrst, fiforst)
  <2>1. PICK swrst \in BOOLEAN, fiforst \in BOOLEAN : WriteRcr(swrst, fiforst)
    BY <1>9
  <2>2. irq' \in BOOLEAN /\ dma_req_level' \in BOOLEAN /\ reqLine' \in BOOLEAN
    BY <2>1, LinesType DEF WriteRcr
  <2>3. CASE swrst
    <3>1. dac_fifo_reset
      BY <2>1, <2>3 DEF WriteRcr
    <3>2. /\ wptr' \in 0 .. Depth - 1 /\ rptr' \in 0 .. Depth - 1 /\ count' \in 0 .. Depth
          /\ wptr' = (rptr' + count') % Depth
          /\ latched' = {}
      BY <3>1, FifoResetType
    <3>3. wml' \in 0 .. Depth - 1
      BY <2>1, <2>3, ConstAssumption DEF WriteRcr
    <3>4. gcr' = ResetGcr /\ ier' = {} /\ der' = {} /\ fifo' = fifo /\ out' = NoSample
      BY <2>1, <2>3 DEF WriteRcr
    <3>5. ResetGcr \in [dacen : BOOLEAN, fifoen : BOOLEAN, trgsel : BOOLEAN]
      BY DEF ResetGcr
    <3> QED BY ZenonT(40), <2>2, <3>2, <3>3, <3>4, <3>5 DEF TypeOK
  <2>4. CASE ~swrst /\ fiforst
    <3>1. dac_fifo_reset
      BY <2>1, <2>4 DEF WriteRcr
    <3>2. /\ wptr' \in 0 .. Depth - 1 /\ rptr' \in 0 .. Depth - 1 /\ count' \in 0 .. Depth
          /\ wptr' = (rptr' + count') % Depth
          /\ latched' = {}
      BY <3>1, FifoResetType
    <3> QED BY ZenonT(40), <2>1, <2>2, <2>4, <3>2 DEF WriteRcr, TypeOK, regs
  <2>5. CASE ~swrst /\ ~fiforst
    BY ZenonT(40), <2>1, <2>2, <2>5 DEF WriteRcr, TypeOK, regs
  <2> QED BY <2>3, <2>4, <2>5
<1>10. CASE mcxn_dac_post_load
  BY <1>10 DEF mcxn_dac_post_load, TypeOK, regs, ring, DmaWanted
<1> QED BY Zenon, <1>1, <1>2, <1>3, <1>4, <1>5, <1>6, <1>7, <1>8, <1>9, <1>10
    DEF LocalNext, GuestWrite

\* Every handler that moves what the lines depend on ends in dac_update_irq; the
\* others move none of it.
LEMMA LocalLines ==
  ASSUME LinesInv, LocalNext
  PROVE  LinesInv'
<1>1. CASE dac_update_irq
  BY <1>1, Publish
<1>2. CASE UNCHANGED <<regs, latched, ring, lines>>
  BY Zenon, <1>2 DEF LinesInv, LinesFollowState, DmaWanted, dac_fsr, regs, ring, lines
<1>3. CASE mcxn_dac_post_load
  BY ZenonT(40), <1>3 DEF mcxn_dac_post_load, LinesInv, LinesFollowState, DmaWanted, dac_fsr,
              regs, ring
<1>4. dac_update_irq \/ UNCHANGED <<regs, latched, ring, lines>> \/ mcxn_dac_post_load
  BY DEF LocalNext, GuestWrite, dac_push, dac_trigger, dac_hw_trigger, WriteFsr, WriteIer,
         WriteDer, WriteFcr, WriteGcr, WriteRcr, vars
<1> QED BY <1>1, <1>2, <1>3, <1>4

\* No step but a system reset breaks the invariant.
LEMMA NextInv == Inv /\ [LocalNext]_vars => Inv'
<1> SUFFICES ASSUME Inv, [LocalNext]_vars PROVE Inv'
  OBVIOUS
<1>1. CASE LocalNext
  BY ZenonT(40), <1>1, LocalType, LocalLines DEF Inv
<1>2. CASE UNCHANGED vars
  BY <1>2 DEF Inv, TypeOK, LinesInv, LinesFollowState, DmaWanted, dac_fsr,
              vars, regs, ring, lines
<1> QED BY <1>1, <1>2

\* The invariant holds between two system resets.
LEMMA Invariant == LocalSpec => []Inv
BY InitInv, NextInv, PTL DEF LocalSpec

\* The ring's pointers and its occupancy agree, for any depth.
THEOREM RingShape == LocalSpec => []TypeOK
<1>1. Inv => TypeOK
  BY DEF Inv
<1> QED BY <1>1, Invariant, PTL

\* For any depth, watermark and masks the interrupt line is what FSR and IER say and
\* the eDMA's latch is up exactly while the FIFO wants samples (dac_update_irq).
THEOREM LinesCorrect == LocalSpec => []LinesFollowState
<1>1. Inv => LinesFollowState
  BY DEF Inv, LinesInv
<1> QED BY <1>1, Invariant, PTL

-----------------------------------------------------------------------------
\* The n samples of ring f from r on, and the values they are taken from.
Window(f, r, n) == [i \in 1 .. n |-> f[(r + i - 1) % Depth]]
Stored == Sample \cup {NoSample}

\* Positions of the ring: inside it, distinct below its size, and moving with r.
LEMMA Positions ==
  ASSUME NEW r \in 0 .. Depth - 1, NEW i \in 1 .. Depth
  PROVE  /\ (r + i - 1) % Depth \in 0 .. Depth - 1
         /\ (r + 1 - 1) % Depth = r
         /\ \A n \in i .. Depth - 1 : (r + i - 1) % Depth # (r + n) % Depth
         /\ i < Depth => (((r + 1) % Depth) + i - 1) % Depth = (r + (i + 1) - 1) % Depth
<1> DEFINE s == (r + i - 1) % Depth
<1>1. s = IF r + i - 1 < Depth THEN r + i - 1 ELSE r + i - 1 - Depth
  BY ConstAssumption
<1>2. s \in 0 .. Depth - 1
  BY <1>1, ConstAssumption
<1>3. (r + 1 - 1) % Depth = r
  BY ConstAssumption
<1>4. ASSUME NEW n \in i .. Depth - 1
      PROVE  s # (r + n) % Depth
  <2>1. (r + n) % Depth = IF r + n < Depth THEN r + n ELSE r + n - Depth
    BY ConstAssumption
  <2> QED BY <1>1, <2>1, ConstAssumption
<1>5. i < Depth => (((r + 1) % Depth) + i - 1) % Depth = (r + (i + 1) - 1) % Depth
  <2> DEFINE u == (r + 1) % Depth
  <2>1. u = IF r + 1 < Depth THEN r + 1 ELSE 0
    BY ConstAssumption
  <2>2. CASE r + 1 < Depth
    BY <2>1, <2>2, ConstAssumption
  <2>3. CASE r + 1 = Depth
    BY SMTT(30), Z3T(30), <2>1, <2>3, ConstAssumption
  <2> QED BY <2>2, <2>3, ConstAssumption
<1> QED BY <1>2, <1>3, <1>4, <1>5

\* A window is a sequence of its size.
LEMMA WindowSeq ==
  ASSUME NEW f \in [0 .. Depth - 1 -> Stored], NEW r \in 0 .. Depth - 1,
         NEW n \in 0 .. Depth
  PROVE  /\ Window(f, r, n) \in Seq(Stored)
         /\ Len(Window(f, r, n)) = n
         /\ \A i \in 1 .. n : Window(f, r, n)[i] = f[(r + i - 1) % Depth]
<1>1. \A i \in 1 .. n : f[(r + i - 1) % Depth] \in Stored
  <2> TAKE i \in 1 .. n
  <2>1. i \in 1 .. Depth
    BY ConstAssumption
  <2>2. (r + i - 1) % Depth \in 0 .. Depth - 1
    BY <2>1, Positions
  <2> QED BY <2>2
<1>2. n \in Nat
  BY ConstAssumption
<1>3. Window(f, r, n) \in [1 .. n -> Stored]
  BY ZenonT(40), <1>1 DEF Window
<1>4. Window(f, r, n) \in Seq(Stored) /\ Len(Window(f, r, n)) = n
  BY <1>2, <1>3
<1>5. \A i \in 1 .. n : Window(f, r, n)[i] = f[(r + i - 1) % Depth]
  BY DEF Window
<1> QED BY <1>4, <1>5

\* Storing at the end and counting up appends.
LEMMA WindowPut ==
  ASSUME NEW f \in [0 .. Depth - 1 -> Stored], NEW r \in 0 .. Depth - 1,
         NEW n \in 0 .. Depth - 1, NEW v \in Stored
  PROVE  Window([f EXCEPT ![(r + n) % Depth] = v], r, n + 1) = Append(Window(f, r, n), v)
<1> DEFINE w == (r + n) % Depth
           g == [f EXCEPT ![w] = v]
           s == Window(g, r, n + 1)
           q == Window(f, r, n)
           t == Append(q, v)
<1>1. n \in 0 .. Depth /\ n + 1 \in 0 .. Depth /\ n + 1 \in 1 .. Depth /\ n \in Nat
  BY ConstAssumption
<1>2. w \in 0 .. Depth - 1
  BY <1>1, RingMod
<1>3. g \in [0 .. Depth - 1 -> Stored]
  BY <1>2
<1>4. s \in Seq(Stored) /\ Len(s) = n + 1
      /\ \A i \in 1 .. n + 1 : s[i] = g[(r + i - 1) % Depth]
  BY ZenonT(40), <1>1, <1>3, WindowSeq
<1>5. q \in Seq(Stored) /\ Len(q) = n /\ \A i \in 1 .. n : q[i] = f[(r + i - 1) % Depth]
  BY ZenonT(40), <1>1, WindowSeq
<1>6. t \in Seq(Stored) /\ Len(t) = n + 1 /\ (\A i \in 1 .. n : t[i] = q[i]) /\ t[n + 1] = v
  BY <1>5, AppendProperties
<1>7. ASSUME NEW i \in 1 .. n + 1
      PROVE  s[i] = t[i]
  <2>1. CASE i = n + 1
    <3>1. (r + i - 1) % Depth = w
      BY <1>1, <2>1, ConstAssumption
    <3>2. g[w] = v
      BY Zenon, <1>2
    <3> QED BY ZenonT(40), <1>4, <1>6, <2>1, <3>1, <3>2
  <2>2. CASE i \in 1 .. n
    <3>1. i \in 1 .. Depth /\ n \in i .. Depth - 1
      BY SMTT(30), Z3T(30), <1>1, <2>2, ConstAssumption
    <3>2. (r + i - 1) % Depth \in 0 .. Depth - 1 /\ (r + i - 1) % Depth # w
      BY <3>1, Positions
    <3>3. g[(r + i - 1) % Depth] = f[(r + i - 1) % Depth]
      BY <3>2
    <3> QED BY ZenonT(40), <1>4, <1>5, <1>6, <2>2, <3>3
  <2>3. i = n + 1 \/ i \in 1 .. n
    BY <1>1
  <2> QED BY ZenonT(40), <2>1, <2>2, <2>3
<1> QED BY ZenonT(40), <1>4, <1>6, <1>7, SeqEqual

\* Reading at r and moving r on takes the oldest.
LEMMA WindowGet ==
  ASSUME NEW f \in [0 .. Depth - 1 -> Stored], NEW r \in 0 .. Depth - 1,
         NEW n \in 1 .. Depth
  PROVE  /\ Window(f, r, n) # << >>
         /\ Head(Window(f, r, n)) = f[r]
         /\ Window(f, (r + 1) % Depth, n - 1) = Tail(Window(f, r, n))
<1> DEFINE q == Window(f, r, n)
           u == (r + 1) % Depth
           s == Window(f, u, n - 1)
           t == Tail(q)
<1>1. n \in 0 .. Depth /\ n - 1 \in 0 .. Depth /\ 1 \in 1 .. n /\ 1 \in 1 .. Depth
  BY ConstAssumption
<1>2. u \in 0 .. Depth - 1
  BY ConstAssumption
<1>3. q \in Seq(Stored) /\ Len(q) = n /\ \A i \in 1 .. n : q[i] = f[(r + i - 1) % Depth]
  BY ZenonT(40), <1>1, WindowSeq
<1>4. s \in Seq(Stored) /\ Len(s) = n - 1
      /\ \A i \in 1 .. n - 1 : s[i] = f[(u + i - 1) % Depth]
  BY ZenonT(40), <1>1, <1>2, WindowSeq
<1>5. q # << >>
  BY <1>3
<1>6. Head(q) = f[r]
  <2>1. (r + 1 - 1) % Depth = r
    BY ConstAssumption
  <2>2. Head(q) = q[1]
    BY SMTT(30), Z3T(30), <1>3, <1>5
  <2> QED BY <1>1, <1>3, <2>1, <2>2
<1>7. t \in Seq(Stored) /\ Len(t) = n - 1 /\ \A i \in 1 .. n - 1 : t[i] = q[i + 1]
  BY SMTT(30), Z3T(30), <1>3, <1>5, HeadTailProperties
<1>8. ASSUME NEW i \in 1 .. n - 1
      PROVE  s[i] = t[i]
  <2>1. i \in 1 .. Depth /\ i < Depth /\ i + 1 \in 1 .. n
    BY ConstAssumption
  <2>2. (u + i - 1) % Depth = (r + (i + 1) - 1) % Depth
    BY <2>1, Positions
  <2> QED BY Zenon, <1>3, <1>4, <1>7, <2>1, <2>2
<1> QED BY Zenon, <1>4, <1>5, <1>6, <1>7, <1>8, SeqEqual

-----------------------------------------------------------------------------
\* A step that leaves the ring and the output alone is a stuttering step of the queue.
LEMMA Stutter ==
  ASSUME UNCHANGED <<ring, out>>
  PROVE  UNCHANGED Q!vars
BY DEF Q!vars, Waiting, ring

\* An empty ring is an empty queue.
LEMMA Emptied ==
  ASSUME count' = 0
  PROVE  Waiting' = << >>
BY DEF Waiting

\* DATA is a put, a bypass or, into a full FIFO, nothing.
LEMMA PushRefines ==
  ASSUME TypeOK, NEW v \in Sample, dac_push(v)
  PROVE  [Q!Next]_(Q!vars)
<1>1. CASE out' = v /\ UNCHANGED <<regs, latched, ring, lines>>
  <2>1. Waiting' = Waiting
    BY <1>1 DEF Waiting, ring
  <2> QED BY <1>1, <2>1 DEF Q!Next, Q!Bypass
<1>2. CASE UNCHANGED <<regs, ring, out>>
  BY <1>2, Stutter
<1>3. CASE /\ count < Depth
           /\ fifo' = [fifo EXCEPT ![wptr] = v]
           /\ count' = count + 1
           /\ rptr' = rptr /\ out' = out
  <2>1. /\ fifo \in [0 .. Depth - 1 -> Stored] /\ rptr \in 0 .. Depth - 1
        /\ count \in 0 .. Depth - 1 /\ count \in 0 .. Depth
        /\ wptr = (rptr + count) % Depth /\ v \in Stored
    BY <1>3, ConstAssumption DEF TypeOK, Stored
  <2>2. Waiting = Window(fifo, rptr, count) /\ Waiting' = Window(fifo', rptr', count')
    BY DEF Waiting, Window
  <2>3. Window([fifo EXCEPT ![(rptr + count) % Depth] = v], rptr, count + 1)
          = Append(Window(fifo, rptr, count), v)
    BY ZenonT(40), <2>1, WindowPut
  <2>4. Waiting' = Append(Waiting, v)
    BY ZenonT(40), <1>3, <2>1, <2>2, <2>3
  <2>5. Len(Waiting) < Depth
    <3>1. Len(Window(fifo, rptr, count)) = count
      BY <2>1, WindowSeq
    <3> QED BY Zenon, <1>3, <2>2, <3>1
  <2> QED BY Zenon, <1>3, <2>4, <2>5 DEF Q!Next, Q!Put
<1> QED BY <1>1, <1>2, <1>3 DEF dac_push

\* A trigger is a get, or nothing.
LEMMA TriggerRefines ==
  ASSUME TypeOK, dac_trigger
  PROVE  [Q!Next]_(Q!vars)
<1>1. CASE UNCHANGED vars
  BY <1>1, Stutter DEF vars
<1>2. CASE UNCHANGED <<regs, ring, out>>
  BY <1>2, Stutter
<1>3. CASE /\ count > 0
           /\ out' = fifo[rptr]
           /\ rptr' = (rptr + 1) % Depth
           /\ count' = count - 1
           /\ fifo' = fifo
  <2>1. /\ fifo \in [0 .. Depth - 1 -> Stored] /\ rptr \in 0 .. Depth - 1
        /\ count \in 1 .. Depth
    BY <1>3, ConstAssumption DEF TypeOK, Stored
  <2>2. Waiting = Window(fifo, rptr, count) /\ Waiting' = Window(fifo', rptr', count')
    BY DEF Waiting, Window
  <2>3. /\ Window(fifo, rptr, count) # << >>
        /\ Head(Window(fifo, rptr, count)) = fifo[rptr]
        /\ Window(fifo, (rptr + 1) % Depth, count - 1) = Tail(Window(fifo, rptr, count))
    BY ZenonT(40), <2>1, WindowGet
  <2>4. Waiting # << >> /\ out' = Head(Waiting) /\ Waiting' = Tail(Waiting)
    BY <1>3, <2>2, <2>3
  <2> QED BY <2>4 DEF Q!Next, Q!Get
<1> QED BY <1>1, <1>2, <1>3 DEF dac_trigger

\* A software reset or a FIFO reset clears the queue.
LEMMA RcrRefines ==
  ASSUME NEW swrst \in BOOLEAN, NEW fiforst \in BOOLEAN, WriteRcr(swrst, fiforst)
  PROVE  [Q!Next]_(Q!vars)
<1>1. CASE swrst \/ fiforst
  <2>1. count' = 0 /\ out' \in {out, NoSample}
    BY <1>1 DEF WriteRcr, dac_fifo_reset
  <2> QED BY <2>1, Emptied DEF Q!Next, Q!Clear
<1>2. CASE ~swrst /\ ~fiforst
  BY <1>2, Stutter DEF WriteRcr, ring
<1> QED BY <1>1, <1>2

\* Every step but a system reset is a step of the queue or leaves it alone.
LEMMA StepRefines ==
  ASSUME TypeOK, [LocalNext]_vars
  PROVE  [Q!Next]_(Q!vars)
<1>1. CASE \E v \in Sample : dac_push(v)
  BY <1>1, PushRefines
<1>2. CASE dac_trigger
  BY <1>2, TriggerRefines
<1>3. CASE \E swrst, fiforst \in BOOLEAN : WriteRcr(swrst, fiforst)
  BY <1>3, RcrRefines
<1>4. CASE UNCHANGED <<ring, out>>
  BY Zenon, <1>4, Stutter
<1>5. \/ \E v \in Sample : dac_push(v)
      \/ dac_trigger
      \/ \E swrst, fiforst \in BOOLEAN : WriteRcr(swrst, fiforst)
      \/ UNCHANGED <<ring, out>>
  BY DEF LocalNext, GuestWrite, dac_hw_trigger, WriteFsr, WriteIer, WriteDer, WriteFcr,
         WriteGcr, mcxn_dac_post_load, vars
<1> QED BY Zenon, <1>1, <1>2, <1>3, <1>4, <1>5

\* For any depth and any samples the DAC's ring buffer implements the bounded queue:
\* samples leave in the order DATA was written, none twice, none invented, and at most
\* Depth wait (dac_push, dac_trigger, WriteRcr).
THEOREM RingIsQueue == LocalSpec => ImplementsQueue
<1>1. Init => Q!Init
  BY DEF Init, Q!Init, Waiting
<1>2. TypeOK /\ [LocalNext]_vars => [Q!Next]_(Q!vars)
  BY StepRefines
<1> QED BY <1>1, <1>2, RingShape, PTL DEF LocalSpec, ImplementsQueue, Q!Spec

-----------------------------------------------------------------------------
\* What the ADC's registers and FIFOs hold.
AdcType ==
  /\ tctrl \in [Trigger -> A!Tctrl]
  /\ fwmark \in [A!Fifo -> Nat]
  /\ adc_ch \in [Channel -> Value]
  /\ adc_fifo \in [A!Fifo -> Seq(Value)]

\* A system reset clears the eDMA's latch and leaves the ADC's copy of it, so the two
\* ends can disagree: but only while the converter is off and the FIFO is empty, and
\* the CTRL write that turns it on publishes again.
AdcEndsAgree ==
  \A f \in A!Fifo :
    adc_level[f] = adc_line[f] \/ (~adcen /\ adc_fifo[f] = << >>)

AdcInv == AdcType /\ A!LinesFollowState /\ A!RdyIsLevel /\ AdcEndsAgree

\* What the PDM's registers and its FIFO hold; the two ends of its request agree.
PdmInv ==
  /\ ctrl1 \in P!Ctrl1
  /\ wmk \in Nat
  /\ chf \in BOOLEAN
  /\ pdm_fifo \in Seq(Sample)
  /\ P!LinesFollowState
  /\ dma_lvl = pdm_line

SamplesInv == Inv /\ AdcInv /\ PdmInv

-----------------------------------------------------------------------------
\* The PDM interface.

\* pdm_update_irq and pdm_update_dma_req publish what the new state wants, whatever it
\* was, if the two ends of the request agreed before.
LEMMA PdmPublish ==
  ASSUME dma_lvl = pdm_line, P!pdm_update_irq, P!pdm_update_dma_req
  PROVE  P!LinesFollowState' /\ dma_lvl' = pdm_line'
BY DEF P!pdm_update_irq, P!pdm_update_dma_req, P!LinesFollowState

\* pdm_update_irq alone is enough when the request's terms do not move.
LEMMA PdmPublishIrq ==
  ASSUME PdmInv, P!pdm_update_irq, UNCHANGED <<ctrl1, wmk, pdm_fifo, dma_lvl, pdm_line>>
  PROVE  P!LinesFollowState' /\ dma_lvl' = pdm_line'
BY DEF PdmInv, P!pdm_update_irq, P!LinesFollowState, P!DmaWanted

\* A sample from the operator keeps the PDM's invariant: ignored, dropped or stored.
LEMMA PdmPush ==
  ASSUME PdmInv, NEW v \in Sample, P!pdm_push_sample(v)
  PROVE  PdmInv'
<1>1. CASE UNCHANGED P!vars
  BY <1>1 DEF PdmInv, P!vars, P!LinesFollowState, P!IrqWanted, P!DmaWanted
<1>2. CASE /\ UNCHANGED <<ctrl1, wmk, chf, pdm_fifo, pdm_out, dma_lvl, pdm_line>>
           /\ P!pdm_update_irq
  BY <1>2, PdmPublishIrq DEF PdmInv
<1>3. CASE /\ pdm_fifo' = Append(pdm_fifo, v)
           /\ chf' = (chf \/ Len(pdm_fifo') > wmk)
           /\ UNCHANGED <<ctrl1, wmk, fifo_stat, pdm_out>>
           /\ P!pdm_update_dma_req
           /\ P!pdm_update_irq
  <2>1. pdm_fifo' \in Seq(Sample)
    BY <1>3 DEF PdmInv
  <2> QED BY <1>3, <2>1, PdmPublish DEF PdmInv
<1> QED BY <1>1, <1>2, <1>3 DEF P!pdm_push_sample

\* A DATACH0 read keeps it: the interrupt is left alone only when the flag stays up,
\* and then nothing it depends on moves.
LEMMA PdmRead ==
  ASSUME PdmInv, P!ReadDatach0
  PROVE  PdmInv'
<1>1. CASE /\ UNCHANGED <<ctrl1, wmk, chf, pdm_fifo, pdm_out, dma_lvl, pdm_line>>
           /\ P!pdm_update_irq
  BY <1>1, PdmPublishIrq DEF PdmInv
<1>2. CASE /\ pdm_fifo # << >>
           /\ pdm_fifo' = Tail(pdm_fifo)
           /\ chf' = (chf /\ Len(pdm_fifo') > wmk)
           /\ UNCHANGED <<ctrl1, wmk, fifo_stat>>
           /\ IF Len(pdm_fifo') <= wmk THEN P!pdm_update_irq ELSE UNCHANGED pdm_irq
           /\ P!pdm_update_dma_req
  <2>1. pdm_fifo' \in Seq(Sample) /\ Len(pdm_fifo') \in Nat /\ chf' \in BOOLEAN
    BY <1>2, HeadTailProperties DEF PdmInv
  <2>2. pdm_irq' = P!IrqWanted'
    <3>1. CASE Len(pdm_fifo') <= wmk
      BY <1>2, <3>1 DEF P!pdm_update_irq
    <3>2. CASE ~(Len(pdm_fifo') <= wmk)
      <4>1. Len(pdm_fifo') > wmk
        BY <3>2, <2>1 DEF PdmInv
      <4>2. chf' = chf
        BY <1>2, <4>1, Zenon DEF PdmInv
      <4> QED BY Zenon, <1>2, <3>2, <4>2 DEF PdmInv, P!LinesFollowState, P!IrqWanted
    <3> QED BY <3>1, <3>2
  <2>3. P!LinesFollowState' /\ dma_lvl' = pdm_line'
    BY <1>2, <2>2 DEF PdmInv, P!pdm_update_dma_req, P!LinesFollowState
  <2> QED BY Zenon, <1>2, <2>1, <2>3 DEF PdmInv
<1> QED BY <1>1, <1>2 DEF P!ReadDatach0

\* Every step of the PDM interface keeps its invariant.
LEMMA PdmStep ==
  ASSUME PdmInv, P!Next
  PROVE  PdmInv'
<1>a. P!Ctrl1Zero \in P!Ctrl1 /\ << >> \in Seq(Sample)
      /\ ResetMark \in Nat /\ 0 \in Nat
  <2>1. P!Ctrl1Zero \in P!Ctrl1
    BY DEF P!Ctrl1, P!Ctrl1Zero, P!Disel
  <2> QED BY <2>1, SamplesAssumption
<1>1. CASE \E v \in Sample : P!pdm_push_sample(v)
  BY Zenon, <1>1, PdmPush
<1>2. CASE P!ReadDatach0
  BY <1>2, PdmRead
<1>3. CASE P!ReadDatachN
  BY <1>3, PdmPublishIrq DEF P!ReadDatachN, PdmInv
<1>4. CASE \E sres \in BOOLEAN, v \in P!Ctrl1 : P!WriteCtrl1(sres, v)
  <2>1. ctrl1' \in P!Ctrl1 /\ wmk' \in Nat /\ chf' \in BOOLEAN /\ pdm_fifo' \in Seq(Sample)
    <3>1. PICK sres \in BOOLEAN, v \in P!Ctrl1 : P!WriteCtrl1(sres, v)
      BY <1>4
    <3>2. CASE sres
      BY ZenonT(40), <1>a, <3>1, <3>2 DEF P!WriteCtrl1, P!pdm_flush_fifos
    <3>3. CASE ~sres
      BY <3>1, <3>3 DEF P!WriteCtrl1, PdmInv
    <3> QED BY <3>2, <3>3
  <2>2. P!pdm_update_dma_req /\ P!pdm_update_irq
    BY <1>4 DEF P!WriteCtrl1
  <2> QED BY <2>1, <2>2, PdmPublish DEF PdmInv
<1>5. CASE P!WriteStat
  BY ZenonT(40), <1>5, PdmPublishIrq DEF P!WriteStat, PdmInv
<1>6. CASE \E bits \in SUBSET P!Err : P!WriteFifoStat(bits)
  BY <1>6, PdmPublishIrq DEF P!WriteFifoStat, PdmInv
<1>7. CASE \E n \in 0 .. PdmDepth - 1 : P!WriteFifoCtrl(n)
  <2>1. wmk' \in Nat /\ UNCHANGED <<ctrl1, chf, fifo_stat, pdm_fifo, pdm_out>>
    BY <1>7 DEF P!WriteFifoCtrl
  <2>2. P!pdm_update_dma_req /\ P!pdm_update_irq
    BY <1>7 DEF P!WriteFifoCtrl
  <2> QED BY <2>1, <2>2, PdmPublish DEF PdmInv
<1>8. CASE P!mcxn_pdm_reset
  <2>1. ctrl1' \in P!Ctrl1 /\ wmk' \in Nat /\ chf' \in BOOLEAN /\ pdm_fifo' \in Seq(Sample)
    BY ZenonT(40), <1>8, <1>a DEF P!mcxn_pdm_reset, P!pdm_flush_fifos
  <2>2. P!LinesFollowState' /\ dma_lvl' = pdm_line'
    BY ZenonT(40), <1>8 DEF P!mcxn_pdm_reset, P!pdm_flush_fifos, P!Ctrl1Zero,
                            P!LinesFollowState,
                P!IrqWanted, P!DmaWanted
  <2> QED BY <2>1, <2>2 DEF PdmInv
<1>9. CASE P!mcxn_pdm_post_load
  BY Zenon, <1>9, PdmPublishIrq DEF P!mcxn_pdm_post_load, PdmInv
<1> QED BY ZenonT(40), <1>1, <1>2, <1>3, <1>4, <1>5, <1>6, <1>7, <1>8, <1>9 DEF P!Next

\* Every step of the PDM interface is a put, a get or a clear of the queue, or leaves
\* it alone (pdm_push_sample, ReadDatach0, pdm_flush_fifos).
LEMMA PdmStepRefines ==
  ASSUME P!Next
  PROVE  [P!Q!Next]_(P!Q!vars)
<1>1. CASE UNCHANGED <<pdm_fifo, pdm_out>>
  BY <1>1 DEF P!Q!vars
<1>2. CASE \E v \in Sample : /\ Len(pdm_fifo) < PdmDepth
                             /\ pdm_fifo' = Append(pdm_fifo, v)
                             /\ pdm_out' = pdm_out
  BY <1>2 DEF P!Q!Next, P!Q!Put
<1>3. CASE /\ pdm_fifo # << >>
           /\ pdm_fifo' = Tail(pdm_fifo)
           /\ pdm_out' = Head(pdm_fifo)
  BY <1>3 DEF P!Q!Next, P!Q!Get
<1>4. CASE pdm_fifo' = << >> /\ pdm_out' = pdm_out
  BY <1>4 DEF P!Q!Next, P!Q!Clear
<1> QED BY Zenon, <1>1, <1>2, <1>3, <1>4 DEF P!Next, P!pdm_push_sample, P!ReadDatach0,
           P!ReadDatachN, P!WriteCtrl1, P!WriteStat, P!WriteFifoStat, P!WriteFifoCtrl,
           P!mcxn_pdm_reset, P!mcxn_pdm_post_load, P!pdm_flush_fifos, P!vars

-----------------------------------------------------------------------------
\* The ADC.

\* A nonempty set of natural numbers has a least one: the trigger a SWTRIG write
\* converts for.
LEMMA Lowest ==
  ASSUME NEW T \in SUBSET Nat, T # {}
  PROVE  \E x \in T : \A y \in T : x <= y
<1> DEFINE R == OpToRel(<, Nat)
<1>1. IsWellFoundedOn(R, Nat)
  BY ZenonT(40), NatLessThanWellFounded
<1>2. \A x, y \in Nat : <<y, x>> \in R <=> y < x
  BY DEF OpToRel
<1> HIDE DEF R
<1>3. PICK x \in T : \A y \in T : ~(<<y, x>> \in R)
  BY ZenonT(40), <1>1, WFMin
<1>4. \A y \in T : ~(y < x)
  BY ZenonT(40), <1>2, <1>3
<1>5. \A y \in T : x <= y
  BY SMTT(30), Z3T(30), <1>4
<1> QED BY <1>5

\* mcxn_adc_update_irq publishes what the new state wants.  Where the two ends of a
\* request disagree nothing is asked for, before or after.
LEMMA AdcPublish ==
  ASSUME AdcInv, A!mcxn_adc_update_irq, AdcType',
         \A f \in A!Fifo : ~adcen /\ adc_fifo[f] = << >> => adc_fifo'[f] = << >>
  PROVE  A!LinesFollowState' /\ AdcEndsAgree'
<1>1. ASSUME NEW f \in A!Fifo
      PROVE  adc_line'[f] = A!DmaWanted(f)' /\ adc_level'[f] = adc_line'[f]
  <2> DEFINE W == A!DmaWanted(f)'
  <2>1. adc_level'[f] = W /\ adc_line'[f] = IF W # adc_level[f] THEN W ELSE adc_line[f]
    BY DEF A!mcxn_adc_update_irq
  <2>2. CASE adc_level[f] = adc_line[f]
    BY <2>1, <2>2
  <2>3. CASE ~adcen /\ adc_fifo[f] = << >>
    <3>1. Len(adc_fifo[f]) = 0 /\ Len(adc_fifo'[f]) = 0
      BY <2>3
    <3>2. fwmark[f] \in Nat /\ fwmark'[f] \in Nat
      BY DEF AdcInv, AdcType
    <3>3. W = FALSE /\ A!DmaWanted(f) = FALSE
      BY SMTT(30), Z3T(30), <3>1, <3>2 DEF A!DmaWanted, A!AboveMark
    <3>4. adc_line[f] = FALSE
      BY Zenon, <3>3 DEF AdcInv, A!LinesFollowState
    <3> QED BY <2>1, <3>3, <3>4, Zenon
  <2> QED BY Zenon, <2>2, <2>3 DEF AdcInv, AdcEndsAgree
<1>2. adc_irq' = ((stat' \cap ie') # {})
  BY DEF A!mcxn_adc_update_irq
<1> QED BY Zenon, <1>1, <1>2 DEF A!LinesFollowState, AdcEndsAgree

\* The sticky causes are overflows only.
LEMMA StickyOnlyOverflow == \A f \in A!Fifo : <<"RDY", f>> \notin A!Sticky
BY DEF A!Sticky

\* mcxn_adc_update_status derives RDY from the FIFOs and watermarks left behind.
LEMMA StatusIsLevel ==
  ASSUME NEW fof, A!mcxn_adc_update_status(fof),
         \A f \in A!Fifo : <<"RDY", f>> \notin fof
  PROVE  A!RdyIsLevel'
<1> SUFFICES ASSUME NEW f \in A!Fifo
             PROVE  (<<"RDY", f>> \in stat') <=> A!AboveMark(f)'
  BY ZenonT(40) DEF A!RdyIsLevel
<1>1. stat' = fof \cup {c \in {"RDY"} \X A!Fifo : A!AboveMark(c[2])'}
  BY DEF A!mcxn_adc_update_status
<1>2. <<"RDY", f>> \in {"RDY"} \X A!Fifo /\ <<"RDY", f>>[2] = f
  OBVIOUS
<1> QED BY <1>1, <1>2

\* A conversion stores its result if there is room, and raises the overflow if not.
LEMMA AdcConversion ==
  ASSUME AdcInv, NEW t \in Trigger, A!mcxn_adc_do_conversion(t)
  PROVE  /\ AdcInv'
         /\ \A f \in A!Fifo : \/ adc_fifo'[f] = adc_fifo[f]
                              \/ \E v \in Value : adc_fifo'[f] = Append(adc_fifo[f], v)
<1>1. CASE UNCHANGED A!vars
  BY Zenon, <1>1 DEF AdcInv, AdcType, AdcEndsAgree, A!LinesFollowState, A!RdyIsLevel,
              A!DmaWanted, A!AboveMark, A!vars, A!regs, A!lines
<1>2. CASE /\ adcen
           /\ UNCHANGED A!regs
           /\ A!adc_fifo_push(tctrl[t].sel, adc_ch[tctrl[t].ch])
           /\ A!mcxn_adc_update_irq
  <2> DEFINE g == tctrl[t].sel
             v == adc_ch[tctrl[t].ch]
  <2>1. g \in A!Fifo /\ v \in Value
    BY Zenon DEF AdcInv, AdcType, A!Tctrl
  <2> HIDE DEF g, v
  <2>2. A!adc_fifo_push(g, v)
    BY <1>2 DEF g, v
  <2>3. \/ adc_fifo' = adc_fifo
        \/ adc_fifo' = [adc_fifo EXCEPT ![g] = Append(@, v)]
    BY Zenon, <2>2 DEF A!adc_fifo_push
  <2>4. adc_fifo \in [A!Fifo -> Seq(Value)]
    BY DEF AdcInv, AdcType
  <2>5. adc_fifo' \in [A!Fifo -> Seq(Value)]
    <3>1. Append(adc_fifo[g], v) \in Seq(Value)
      BY Zenon, <2>1, <2>4, AppendProperties
    <3> QED BY Zenon, <2>1, <2>3, <2>4, <3>1
  <2>6. AdcType'
    BY <1>2, <2>5 DEF AdcInv, AdcType, A!regs
  <2>7. A!RdyIsLevel'
    <3>1. A!mcxn_adc_update_status(A!Sticky)
          \/ A!mcxn_adc_update_status(A!Sticky \cup {<<"FOF", g>>})
      BY <2>2 DEF A!adc_fifo_push
    <3>2. \A f \in A!Fifo : <<"RDY", f>> \notin A!Sticky \cup {<<"FOF", g>>}
      BY ZenonT(40), StickyOnlyOverflow
    <3> QED BY Zenon, <3>1, <3>2, StickyOnlyOverflow, StatusIsLevel
  <2>8. A!LinesFollowState' /\ AdcEndsAgree'
    BY Zenon, <1>2, <2>6, AdcPublish
  <2>9. \A f \in A!Fifo : \/ adc_fifo'[f] = adc_fifo[f]
                          \/ \E w \in Value : adc_fifo'[f] = Append(adc_fifo[f], w)
    BY Zenon, <2>1, <2>3, <2>4
  <2> QED BY ZenonT(40), <2>6, <2>7, <2>8, <2>9 DEF AdcInv
<1> QED BY Zenon, <1>1, <1>2 DEF A!mcxn_adc_do_conversion

\* What one step may do to a result FIFO: the ResultsKept relation on one of them.
Kept(old, new) ==
  \/ new \in {old, << >>}
  \/ old # << >> /\ new = Tail(old)
  \/ \E v \in Value : new = Append(old, v)

\* Every conversion, whatever asked for it, keeps the invariant and the results.
LEMMA AdcConverts ==
  ASSUME AdcInv,
         \/ \E ts \in (SUBSET Trigger) \ {{}} : A!WriteSwtrig(ts)
         \/ \E t \in Trigger : A!mcxn_adc_hw_trigger(t)
  PROVE  AdcInv' /\ \A f \in A!Fifo : Kept(adc_fifo[f], adc_fifo'[f])
<1>1. CASE \E t \in Trigger : A!mcxn_adc_do_conversion(t)
  <2>1. PICK t \in Trigger : A!mcxn_adc_do_conversion(t)
    BY Zenon, <1>1
  <2> QED BY <2>1, AdcConversion DEF Kept
<1>2. CASE UNCHANGED A!vars
  BY ZenonT(40), <1>2 DEF AdcInv, AdcType, AdcEndsAgree, A!LinesFollowState, A!RdyIsLevel,
              A!DmaWanted, A!AboveMark, A!vars, A!regs, A!lines, Kept
<1>3. ASSUME NEW ts \in (SUBSET Trigger) \ {{}}, A!WriteSwtrig(ts)
      PROVE  \E t \in Trigger : A!mcxn_adc_do_conversion(t)
  <2>1. \E t \in ts : \A u \in ts : t <= u
    <3>1. ts \in SUBSET Nat /\ ts # {}
      BY SamplesAssumption
    <3> QED BY <3>1, Lowest
  <2> DEFINE t == CHOOSE t \in ts : \A u \in ts : t <= u
  <2>2. t \in Trigger
    BY <2>1
  <2> QED BY <1>3, <2>2 DEF A!WriteSwtrig
<1>4. (\E t \in Trigger : A!mcxn_adc_do_conversion(t)) \/ UNCHANGED A!vars
  BY Zenon, <1>3 DEF A!mcxn_adc_hw_trigger
<1> QED BY ZenonT(40), <1>1, <1>2, <1>4

\* A write or a read that ends in mcxn_adc_update_status and mcxn_adc_update_irq, and
\* at most takes results away.
LEMMA AdcShrinks ==
  ASSUME AdcInv, NEW fof,
         A!mcxn_adc_update_status(fof), \A f \in A!Fifo : <<"RDY", f>> \notin fof,
         A!mcxn_adc_update_irq,
         UNCHANGED <<tctrl, fwmark, adc_ch>>,
         adc_fifo' \in [A!Fifo -> Seq(Value)],
         \A f \in A!Fifo : \/ adc_fifo'[f] \in {adc_fifo[f], << >>}
                           \/ adc_fifo[f] # << >> /\ adc_fifo'[f] = Tail(adc_fifo[f])
  PROVE  AdcInv' /\ \A f \in A!Fifo : Kept(adc_fifo[f], adc_fifo'[f])
<1>1. AdcType'
  BY DEF AdcInv, AdcType
<1>2. A!RdyIsLevel'
  BY Zenon, StatusIsLevel
<1>3. \A f \in A!Fifo : ~adcen /\ adc_fifo[f] = << >> => adc_fifo'[f] = << >>
  OBVIOUS
<1>4. A!LinesFollowState' /\ AdcEndsAgree'
  BY Zenon, <1>1, <1>3, AdcPublish
<1> QED BY Zenon, <1>1, <1>2, <1>4 DEF AdcInv, Kept

\* A write that ends in mcxn_adc_update_irq only, and moves neither RDY's terms.
LEMMA AdcMasks ==
  ASSUME AdcInv, A!mcxn_adc_update_irq, UNCHANGED <<tctrl, adc_ch, stat, adc_fifo>>,
         fwmark' \in [A!Fifo -> Nat],
         \A f \in A!Fifo : fwmark'[f] = fwmark[f] \/ adc_fifo[f] = << >>
  PROVE  AdcInv' /\ \A f \in A!Fifo : Kept(adc_fifo[f], adc_fifo'[f])
<1>1. AdcType'
  BY Zenon DEF AdcInv, AdcType
<1>2. A!RdyIsLevel'
  <2> SUFFICES ASSUME NEW f \in A!Fifo
               PROVE  A!AboveMark(f)' <=> A!AboveMark(f)
    BY ZenonT(40) DEF AdcInv, A!RdyIsLevel
  <2>1. CASE fwmark'[f] = fwmark[f]
    BY <2>1 DEF A!AboveMark
  <2>2. CASE adc_fifo[f] = << >>
    <3>1. Len(adc_fifo[f]) = 0 /\ fwmark[f] \in Nat /\ fwmark'[f] \in Nat
      BY Zenon, <2>2 DEF AdcInv, AdcType
    <3> QED BY <3>1 DEF A!AboveMark
  <2> QED BY Zenon, <2>1, <2>2
<1>3. A!LinesFollowState' /\ AdcEndsAgree'
  BY Zenon, <1>1, AdcPublish
<1> QED BY Zenon, <1>1, <1>2, <1>3 DEF AdcInv, Kept

\* Every step of the ADC keeps its invariant and its results.
LEMMA AdcStep ==
  ASSUME AdcInv, A!DriverNext
  PROVE  AdcInv' /\ \A f \in A!Fifo : Kept(adc_fifo[f], adc_fifo'[f])
<1>a. adc_fifo \in [A!Fifo -> Seq(Value)] /\ << >> \in Seq(Value)
  BY SMTT(30), Z3T(30) DEF AdcInv, AdcType
<1>1. CASE \/ \E ts \in (SUBSET Trigger) \ {{}} : A!WriteSwtrig(ts)
           \/ \E t \in Trigger : A!mcxn_adc_hw_trigger(t)
  BY Zenon, <1>1, AdcConverts
<1>2. CASE \E f \in A!Fifo : A!ReadResfifo(f)
  <2>1. PICK g \in A!Fifo : A!ReadResfifo(g)
    BY <1>2
  <2>2. adc_fifo[g] # << >> => Tail(adc_fifo[g]) \in Seq(Value)
    BY Zenon, <1>a, HeadTailProperties
  <2>3. adc_fifo' \in [A!Fifo -> Seq(Value)]
        /\ \A f \in A!Fifo : \/ adc_fifo'[f] \in {adc_fifo[f], << >>}
                             \/ adc_fifo[f] # << >> /\ adc_fifo'[f] = Tail(adc_fifo[f])
    BY Zenon, <1>a, <2>1, <2>2 DEF A!ReadResfifo
  <2>4. /\ A!mcxn_adc_update_status(A!Sticky) /\ A!mcxn_adc_update_irq
        /\ UNCHANGED <<tctrl, fwmark, adc_ch>>
    BY Zenon, <2>1 DEF A!ReadResfifo, A!regs
  <2> QED BY ZenonT(40), <2>3, <2>4, StickyOnlyOverflow, AdcShrinks
<1>3. CASE \E v \in SUBSET A!Fifo : A!WriteDe(v)
  BY Zenon, <1>3, AdcMasks DEF A!WriteDe, AdcInv, AdcType
<1>4. CASE \E en \in BOOLEAN, gone \in SUBSET A!Fifo : A!WriteCtrl(en, gone)
  <2>1. PICK en \in BOOLEAN, gone \in SUBSET A!Fifo : A!WriteCtrl(en, gone)
    BY Zenon, <1>4
  <2>2. adc_fifo' = [f \in A!Fifo |-> IF f \in gone THEN << >> ELSE adc_fifo[f]]
    BY <2>1 DEF A!WriteCtrl
  <2>3. adc_fifo' \in [A!Fifo -> Seq(Value)]
        /\ \A f \in A!Fifo : adc_fifo'[f] \in {adc_fifo[f], << >>}
    BY Zenon, <1>a, <2>2
  <2> DEFINE fof == A!Sticky \ ({"FOF"} \X gone)
  <2>4. /\ A!mcxn_adc_update_status(fof) /\ A!mcxn_adc_update_irq
        /\ UNCHANGED <<tctrl, fwmark, adc_ch>>
    BY Zenon, <2>1 DEF A!WriteCtrl
  <2>5. \A f \in A!Fifo : <<"RDY", f>> \notin fof
    BY ZenonT(40), StickyOnlyOverflow
  <2> HIDE DEF fof
  <2> QED BY Zenon, <2>3, <2>4, <2>5, AdcShrinks
<1>5. CASE \E bits \in SUBSET ({"FOF"} \X A!Fifo) : A!WriteStat(bits)
  <2>1. PICK bits \in SUBSET ({"FOF"} \X A!Fifo) : A!WriteStat(bits)
    BY <1>5
  <2> DEFINE fof == A!Sticky \ bits
  <2>2. /\ A!mcxn_adc_update_status(fof) /\ A!mcxn_adc_update_irq
        /\ UNCHANGED <<tctrl, fwmark, adc_ch>> /\ adc_fifo' = adc_fifo
    BY <2>1 DEF A!WriteStat, A!regs
  <2>3. \A f \in A!Fifo : <<"RDY", f>> \notin fof
    BY ZenonT(40), StickyOnlyOverflow
  <2> HIDE DEF fof
  <2> QED BY Zenon, <1>a, <2>2, <2>3, AdcShrinks
<1>6. CASE \E v \in IeIn : A!WriteIe(v)
  BY Zenon, <1>6, AdcMasks DEF A!WriteIe, AdcInv, AdcType
<1>7. CASE \E t \in Trigger, v \in A!Tctrl : A!WriteTctrl(t, v)
  BY SMTT(30), Z3T(30), <1>7 DEF A!WriteTctrl, AdcInv, AdcType, AdcEndsAgree,
                                 A!LinesFollowState,
              A!RdyIsLevel, A!DmaWanted, A!AboveMark, A!lines, Kept
<1>8. CASE \E c \in Channel, v \in Value : A!SetInput(c, v)
  BY SMTT(30), Z3T(30), <1>8 DEF A!SetInput, AdcInv, AdcType, AdcEndsAgree, A!LinesFollowState,
              A!RdyIsLevel, A!DmaWanted, A!AboveMark, A!lines, Kept
<1>9. CASE A!mcxn_adc_post_load
  <2>1. UNCHANGED <<adcen, tctrl, fwmark, ie, de, adc_ch, stat, adc_fifo>>
    BY Zenon, <1>9 DEF A!mcxn_adc_post_load, A!regs
  <2>2. \A f \in A!Fifo : adc_line[f] = A!DmaWanted(f) /\ A!DmaWanted(f)' = A!DmaWanted(f)
    BY <2>1 DEF AdcInv, A!LinesFollowState, A!DmaWanted, A!AboveMark
  <2>3. \A f \in A!Fifo : adc_line'[f] = A!DmaWanted(f) /\ adc_level'[f] = A!DmaWanted(f)
    <3>1. /\ adc_level' = [f \in A!Fifo |-> A!DmaWanted(f)]
          /\ adc_line' = [f \in A!Fifo |-> adc_line[f] \/ A!DmaWanted(f)]
      BY <1>9 DEF A!mcxn_adc_post_load
    <3>2. \A f \in A!Fifo : (A!DmaWanted(f) \/ A!DmaWanted(f)) = A!DmaWanted(f)
      BY Zenon DEF A!DmaWanted
    <3> QED BY <2>2, <3>1, <3>2, Zenon
  <2>4. A!LinesFollowState' /\ AdcEndsAgree'
    BY Zenon, <1>9, <2>1, <2>2, <2>3 DEF A!mcxn_adc_post_load, A!LinesFollowState, AdcEndsAgree
  <2> QED BY Zenon, <2>1, <2>4 DEF AdcInv, AdcType, A!RdyIsLevel, A!AboveMark, Kept
<1>10. CASE A!mcxn_adc_reset
  <2>1. AdcType'
    <3>1. A!ResetTctrl \in [Trigger -> A!Tctrl]
      <4>1. A!Ch0 \in Channel
        BY Zenon, SamplesAssumption DEF A!Ch0
      <4> QED BY <4>1 DEF A!ResetTctrl, A!Tctrl, A!Fifo
    <3> QED BY ZenonT(40), <1>10, <1>a, <3>1, SamplesAssumption DEF A!mcxn_adc_reset, AdcType,
                                                                    A!Empty
  <2>2. /\ stat' = {} /\ de' = {} /\ adc_irq' = FALSE /\ adcen' = FALSE
        /\ \A f \in A!Fifo : adc_fifo'[f] = << >> /\ ~adc_line'[f] /\ fwmark'[f] = 0
        /\ adc_line' = [f \in A!Fifo |-> FALSE]
    BY Zenon, <1>10 DEF A!mcxn_adc_reset, A!Empty
  <2>3. \A f \in A!Fifo : A!DmaWanted(f)' = FALSE /\ A!AboveMark(f)' = FALSE
    <3> SUFFICES ASSUME NEW f \in A!Fifo
                 PROVE  A!DmaWanted(f)' = FALSE /\ A!AboveMark(f)' = FALSE
      OBVIOUS
    <3>1. Len(adc_fifo'[f]) = 0
      BY <2>2
    <3> QED BY <2>2, <3>1 DEF A!DmaWanted, A!AboveMark
  <2>4. A!LinesFollowState' /\ A!RdyIsLevel' /\ AdcEndsAgree'
    BY ZenonT(40), <2>2, <2>3 DEF A!LinesFollowState, A!RdyIsLevel, AdcEndsAgree
  <2> QED BY Zenon, <2>1, <2>2, <2>4 DEF AdcInv, Kept
<1>11. CASE \E f \in A!Fifo, n \in 0 .. AdcDepth - 1 :
              adc_fifo[f] = << >> /\ A!WriteFctrl(f, n)
  <2>1. PICK g \in A!Fifo, n \in 0 .. AdcDepth - 1 :
               adc_fifo[g] = << >> /\ A!WriteFctrl(g, n)
    BY <1>11
  <2>2. fwmark' \in [A!Fifo -> Nat]
        /\ \A f \in A!Fifo : fwmark'[f] = fwmark[f] \/ adc_fifo[f] = << >>
    BY <2>1 DEF A!WriteFctrl, AdcInv, AdcType
  <2> QED BY <2>1, <2>2, AdcMasks DEF A!WriteFctrl
<1> QED BY ZenonT(40), <1>1, <1>2, <1>3, <1>4, <1>5, <1>6, <1>7, <1>8, <1>9, <1>10, <1>11
        DEF A!DriverNext, A!BaseNext

-----------------------------------------------------------------------------
\* The three machines.

\* Power-on satisfies the invariants of the three devices.
LEMMA SamplesInitInv == SamplesInit => SamplesInv
<1> SUFFICES ASSUME SamplesInit PROVE SamplesInv
  OBVIOUS
<1>1. Inv
  BY Zenon, InitInv DEF SamplesInit
<1>2. AdcInv
  <2>1. AdcType
    <3>1. A!ResetTctrl \in [Trigger -> A!Tctrl]
      <4>1. A!Ch0 \in Channel
        BY SamplesAssumption DEF A!Ch0
      <4> QED BY <4>1 DEF A!ResetTctrl, A!Tctrl, A!Fifo
    <3>2. << >> \in Seq(Value)
      OBVIOUS
    <3> QED BY Zenon, <3>1, <3>2, SamplesAssumption DEF SamplesInit, A!Init, AdcType, A!Empty
  <2>2. /\ stat = {} /\ de = {} /\ adc_irq = FALSE
        /\ \A f \in A!Fifo : /\ Len(adc_fifo[f]) = 0 /\ fwmark[f] = 0
                             /\ adc_line[f] = FALSE /\ adc_level[f] = FALSE
    BY DEF SamplesInit, A!Init, A!Empty
  <2>3. \A f \in A!Fifo : A!DmaWanted(f) = FALSE /\ A!AboveMark(f) = FALSE
    BY <2>2 DEF A!DmaWanted, A!AboveMark
  <2> QED BY ZenonT(40), <2>1, <2>2, <2>3 DEF AdcInv, A!LinesFollowState, A!RdyIsLevel,
                                              AdcEndsAgree
<1>3. PdmInv
  <2>1. ctrl1 \in P!Ctrl1
    BY DEF SamplesInit, P!Init, P!Ctrl1, P!Ctrl1Zero, P!Disel
  <2>2. wmk \in Nat /\ chf \in BOOLEAN /\ pdm_fifo \in Seq(Sample)
    <3>1. ResetMark \in Nat
      BY SamplesAssumption
    <3>2. << >> \in Seq(Sample)
      OBVIOUS
    <3> QED BY ZenonT(40), <3>1, <3>2 DEF SamplesInit, P!Init
  <2>3. P!LinesFollowState /\ dma_lvl = pdm_line
    BY ZenonT(40) DEF SamplesInit, P!Init, P!Ctrl1Zero, P!LinesFollowState, P!IrqWanted,
                      P!DmaWanted
  <2> QED BY Zenon, <2>1, <2>2, <2>3 DEF PdmInv
<1> QED BY Zenon, <1>1, <1>2, <1>3 DEF SamplesInv

\* A device that does not move keeps its invariant.
LEMMA AdcStill ==
  ASSUME AdcInv, UNCHANGED adc
  PROVE  AdcInv'
BY DEF adc, AdcInv, AdcType, AdcEndsAgree, A!LinesFollowState, A!RdyIsLevel,
       A!DmaWanted, A!AboveMark

\* The same for the PDM interface.
LEMMA PdmStill ==
  ASSUME PdmInv, UNCHANGED pdm
  PROVE  PdmInv'
BY DEF pdm, PdmInv, P!LinesFollowState, P!IrqWanted, P!DmaWanted

\* Every step of the three machines keeps the invariant.
LEMMA SamplesStep == SamplesInv /\ [SamplesNext]_<<dut, vars, adc, pdm>> => SamplesInv'
<1> SUFFICES ASSUME SamplesInv, [SamplesNext]_<<dut, vars, adc, pdm>>
             PROVE  SamplesInv'
  OBVIOUS
<1>1. [LocalNext]_vars /\ (A!DriverNext \/ UNCHANGED adc) /\ (P!Next \/ UNCHANGED pdm)
  BY DEF SamplesNext
<1>2. Inv'
  BY Zenon, <1>1, NextInv DEF SamplesInv
<1>3. AdcInv'
  BY Zenon, <1>1, AdcStep, AdcStill DEF SamplesInv
<1>4. PdmInv'
  BY <1>1, PdmStep, PdmStill DEF SamplesInv
<1> QED BY <1>2, <1>3, <1>4 DEF SamplesInv

\* The invariant of the three machines.
LEMMA SamplesInvariant == SamplesSpec => []SamplesInv
BY SamplesInitInv, SamplesStep, PTL DEF SamplesSpec

\* For any depths, watermarks, masks and values the interrupt lines of the DAC, the ADC
\* and the PDM interface are what their flags and masks say, the eDMA's latches are up
\* exactly while their FIFOs ask for service, and the ADC's RDY is a level, through
\* software resets, migrations and, of the ADC and the PDM interface, system resets
\* (dac_update_irq, mcxn_adc_update_irq, pdm_update_irq, pdm_update_dma_req).
THEOREM SampleLines == SamplesSpec => []AllLinesFollowState
<1>1. SamplesInv => AllLinesFollowState
  BY DEF SamplesInv, Inv, LinesInv, AdcInv, PdmInv, AllLinesFollowState
<1> QED BY <1>1, SamplesInvariant, PTL

\* For any depth the ADC loses no result it stored but by a read, oldest first, or with
\* its whole FIFO, and an overflow displaces none (adc_fifo_push).
THEOREM AdcKeepsResults == SamplesSpec => AdcResultsKept
<1>1. SamplesInv /\ [SamplesNext]_<<dut, vars, adc, pdm>>
        => [\A f \in A!Fifo : Kept(adc_fifo[f], adc_fifo'[f])]_adc_fifo
  <2> SUFFICES ASSUME SamplesInv, [SamplesNext]_<<dut, vars, adc, pdm>>
               PROVE  [\A f \in A!Fifo : Kept(adc_fifo[f], adc_fifo'[f])]_adc_fifo
    OBVIOUS
  <2>1. A!DriverNext \/ UNCHANGED adc
    BY Zenon DEF SamplesNext
  <2> QED BY Zenon, <2>1, AdcStep DEF SamplesInv, adc
<1>2. [\A f \in A!Fifo : Kept(adc_fifo[f], adc_fifo'[f])]_adc_fifo
        => [\A f \in A!Fifo :
              \/ adc_fifo'[f] \in {adc_fifo[f], << >>}
              \/ adc_fifo[f] # << >> /\ adc_fifo'[f] = Tail(adc_fifo[f])
              \/ \E v \in Value : adc_fifo'[f] = Append(adc_fifo[f], v)]_adc_fifo
  BY DEF Kept
<1> QED BY <1>1, <1>2, SamplesInvariant, PTL DEF SamplesSpec, AdcResultsKept, A!ResultsKept

\* For any depth and any samples the PDM interface implements the bounded queue: what
\* DATACH0 returns is what the operator supplied, in order (pdm_push_sample).
THEOREM PdmIsQueue == SamplesSpec => PdmImplementsQueue
<1>1. SamplesInit => P!Q!Init
  BY DEF SamplesInit, P!Init, P!Q!Init
<1>2. [SamplesNext]_<<dut, vars, adc, pdm>> => [P!Q!Next]_(P!Q!vars)
  <2> SUFFICES ASSUME [SamplesNext]_<<dut, vars, adc, pdm>>
               PROVE  [P!Q!Next]_(P!Q!vars)
    OBVIOUS
  <2>1. P!Next \/ UNCHANGED pdm
    BY DEF SamplesNext
  <2> QED BY Zenon, <2>1, PdmStepRefines DEF pdm, P!Q!vars
<1> QED BY <1>1, <1>2, PTL DEF SamplesSpec, PdmImplementsQueue, P!ImplementsQueue, P!Q!Spec
=============================================================================

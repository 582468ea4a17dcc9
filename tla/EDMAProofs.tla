----------------------------- MODULE EDMAProofs -----------------------------
(***************************************************************************)
(* Proofs about EDMA for every number of channels and sources, every        *)
(* backstop, every guest memory and every set of values the guest writes.   *)
(***************************************************************************)
EXTENDS EDMA, TLAPS

\* The part of the state a minor loop works on.
Engine == [ch : [Channel -> Chan], irq : [Channel -> BOOLEAN]]

\* What every piece of a minor loop keeps, from st to s: the types, lines that
\* follow CH_INT, CH_MUX, and that no channel gains ERQ.
Keeps(st, s) ==
  /\ s \in Engine
  /\ (\A m \in Channel : st.irq[m] = st.ch[m].intr)
       => (\A m \in Channel : s.irq[m] = s.ch[m].intr)
  /\ \A m \in Channel : s.ch[m].mux = st.ch[m].mux
  /\ \A m \in Channel : s.ch[m].erq => st.ch[m].erq

\* Two runs of the engine in a row keep what each of them keeps.
LEMMA KeepsTrans ==
  ASSUME NEW a, NEW b, NEW c, Keeps(a, b), Keeps(b, c)
  PROVE  Keeps(a, c)
BY DEF Keeps

\* A run that changes nothing keeps everything.
LEMMA KeepsRefl ==
  ASSUME NEW a \in Engine
  PROVE  Keeps(a, a)
BY DEF Keeps

\* Replacing one channel's record by a well-typed one with the same CH_MUX and
\* CH_INT and no new ERQ keeps everything.
LEMMA KeepsChan ==
  ASSUME NEW st \in Engine, NEW n \in Channel, NEW c \in Chan,
         c.mux = st.ch[n].mux, c.intr = st.ch[n].intr,
         c.erq => st.ch[n].erq
  PROVE  Keeps(st, SetChan(st, n, c))
BY DEF Keeps, Engine, SetChan

\* Replacing a channel's record by one with CH_INT set, and raising its line.
LEMMA KeepsChanInt ==
  ASSUME NEW st \in Engine, NEW n \in Channel, NEW c \in Chan,
         c.mux = st.ch[n].mux, c.intr = TRUE, c.erq => st.ch[n].erq
  PROVE  Keeps(st, [ch |-> [st.ch EXCEPT ![n] = c],
                    irq |-> [st.irq EXCEPT ![n] = TRUE]])
BY ZenonT(40) DEF Keeps, Engine

\* RaiseInt leaves the line of n equal to its CH_INT.
LEMMA KeepsRaiseInt ==
  ASSUME NEW st \in Engine, NEW n \in Channel
  PROVE  Keeps(st, RaiseInt(st, n))
<1> DEFINE c == [st.ch[n] EXCEPT !.intr = TRUE]
<1>1. st.ch[n] \in Chan /\ c \in Chan /\ c.mux = st.ch[n].mux
        /\ c.erq = st.ch[n].erq /\ c.intr = TRUE
  BY ZenonT(40) DEF Engine, Chan
<1> HIDE DEF c
<1>2. RaiseInt(st, n) =
        [ch |-> [st.ch EXCEPT ![n] = c], irq |-> [st.irq EXCEPT ![n] = TRUE]]
  BY ZenonT(40), <1>1 DEF RaiseInt, edma_update_irq, SetChan, Engine, c
<1> QED  BY ZenonT(40), <1>1, <1>2, KeepsChanInt

\* Refusing a TCD sets CH_ES and, by EEI, CH_INT with its line.
LEMMA KeepsRefuse ==
  ASSUME NEW st \in Engine, NEW n \in Channel
  PROVE  Keeps(st, Refuse(st, n))
<1> DEFINE c == st.ch[n]
           d == [c EXCEPT !.es = @ \cup TcdError(c.tcd) \cup {"ERR"}]
           s1 == SetChan(st, n, d)
<1>1. c \in Chan
  BY DEF Engine
<1>2. TcdError(c.tcd) \subseteq EsBit
  BY <1>1 DEF TcdError, Chan, Tcd, EsBit, ErrBit
<1>3. d \in Chan /\ d.mux = c.mux /\ d.intr = c.intr /\ d.erq = c.erq
  BY <1>1, <1>2 DEF Chan, EsBit
<1>4. Keeps(st, s1)
  BY ZenonT(40), <1>3, KeepsChan
<1>5. Keeps(s1, RaiseInt(s1, n))
  BY ZenonT(40), <1>4, KeepsRaiseInt DEF Keeps
<1> QED  BY <1>4, <1>5, KeepsTrans DEF Refuse

\* Replacing a channel's TCD.
LEMMA KeepsTcd ==
  ASSUME NEW st \in Engine, NEW n \in Channel, NEW t \in Tcd
  PROVE  Keeps(st, SetChan(st, n, [st.ch[n] EXCEPT !.tcd = t]))
<1> DEFINE c == st.ch[n]
           d == [c EXCEPT !.tcd = t]
<1>1. c \in Chan
  BY DEF Engine
<1>2. d \in Chan /\ d.mux = c.mux /\ d.intr = c.intr /\ d.erq = c.erq
  BY <1>1 DEF Chan
<1> QED  BY ZenonT(40), <1>2, KeepsChan

\* Clearing CH_CSR[DONE] keeps everything.
LEMMA KeepsClearDone ==
  ASSUME NEW st \in Engine, NEW n \in Channel
  PROVE  Keeps(st, ClearDone(st, n))
<1> DEFINE c == st.ch[n]
           d == [c EXCEPT !.done = FALSE]
<1>1. c \in Chan
  BY DEF Engine
<1>2. d \in Chan /\ d.mux = c.mux /\ d.intr = c.intr /\ d.erq = c.erq
  BY ZenonT(40), <1>1 DEF Chan
<1> QED  BY ZenonT(40), <1>2, KeepsChan DEF ClearDone

\* Clearing TCD_CSR[START] after a run keeps everything.
LEMMA KeepsClearStart ==
  ASSUME NEW st \in Engine, NEW n \in Channel
  PROVE  Keeps(st, ClearStart(st, n))
<1> DEFINE t == st.ch[n].tcd
           u == [t EXCEPT !.csr = [t.csr EXCEPT !.start = FALSE]]
<1>1. t \in Tcd
  BY DEF Engine, Chan
<1>2. [t.csr EXCEPT !.start = FALSE] \in TcdCsr
  BY ZenonT(40), <1>1 DEF Tcd, TcdCsr
<1>3. u \in Tcd
  BY ZenonT(40), <1>1, <1>2 DEF Tcd
<1>4. ClearStart(st, n) = SetChan(st, n, [st.ch[n] EXCEPT !.tcd = u])
  BY DEF ClearStart
<1> QED  BY ZenonT(40), <1>3, <1>4, KeepsTcd

\* Loading the next TCD, or flagging SGE, keeps everything.
LEMMA KeepsLoad ==
  ASSUME NEW st \in Engine, NEW n \in Channel
  PROVE  Keeps(st, edma_load_next_tcd(st, n))
<1> DEFINE c == st.ch[n]
           d == [c EXCEPT !.es = @ \cup {"SGE", "ERR"}]
<1>1. c \in Chan /\ c.tcd \in Tcd
  BY DEF Engine, Chan
<1>2. CASE c.tcd.sga = BadPtr
  <2>1. d \in Chan /\ d.mux = c.mux /\ d.intr = c.intr /\ d.erq = c.erq
    BY <1>1 DEF Chan, EsBit, ErrBit
  <2> QED  BY ZenonT(40), <1>2, <2>1, KeepsChan DEF edma_load_next_tcd
<1>3. CASE c.tcd.sga # BadPtr
  <2>1. c.tcd.sga \in DOMAIN TcdMem
    BY <1>1, <1>3 DEF Tcd
  <2>2. TcdMem[c.tcd.sga] \in Tcd
    BY Zenon, <2>1, ConstAssumption
  <2> QED  BY <1>3, <2>2, KeepsTcd DEF edma_load_next_tcd
<1> QED  BY <1>2, <1>3

\* The tail of a major loop sets DONE, may drop ERQ, may raise CH_INT and its line.
LEMMA KeepsFinishMajor ==
  ASSUME NEW st \in Engine, NEW n \in Channel
  PROVE  Keeps(st, FinishMajor(st, n))
<1> DEFINE c == st.ch[n]
           d == [c EXCEPT !.done = TRUE, !.erq = @ /\ ~c.tcd.csr.dreq]
           s1 == SetChan(st, n, d)
<1>1. c \in Chan
  BY DEF Engine
<1>2. d \in Chan /\ d.mux = c.mux /\ d.intr = c.intr /\ (d.erq => c.erq)
  BY ZenonT(40), <1>1 DEF Chan
<1>3. Keeps(st, s1)
  BY ZenonT(40), <1>2, KeepsChan
<1>4. Keeps(s1, RaiseInt(s1, n))
  BY ZenonT(40), <1>3, KeepsRaiseInt DEF Keeps
<1> QED  BY Zenon, <1>3, <1>4, KeepsTrans DEF FinishMajor

\* The TCD after a minor loop that is not, or is, the last of its major loop.
LEMMA CountedTcdType ==
  ASSUME NEW t \in Tcd, TcdError(t) = {}
  PROVE  /\ t.citer.n \in Nat \ {0}
         /\ t.citer.link \in Channel /\ t.csr.majorlink \in Channel
         /\ CountDown(t) \in Tcd
         /\ ReloadTcd(t) \in Tcd
<1>1. t.citer \in Iter /\ t.biter \in Iter /\ t.csr \in TcdCsr
        /\ t.adjErr \in SUBSET {"SAE", "DAE"}
  BY DEF Tcd
<1>2. t.citer.n \in 1 .. MaxCount
  BY <1>1, ConstAssumption DEF TcdError, Iter
<1>3. [t.citer EXCEPT !.n = t.citer.n - 1] \in Iter
  BY <1>1, <1>2, ConstAssumption DEF Iter
<1>4. CountDown(t) \in Tcd
  BY <1>3 DEF CountDown, Tcd
<1>5. ReloadTcd(t) \in Tcd
  BY ZenonT(40), <1>1 DEF ReloadTcd, Tcd, ErrBit
<1> QED  BY <1>1, <1>2, <1>4, <1>5, ConstAssumption DEF Iter, TcdCsr

\* The engine state in which the last minor loop of channel n takes its major
\* link, and the one in which another minor loop takes its minor link.
LastLoop(st, n) ==
  SetChan(st, n, [st.ch[n] EXCEPT !.tcd = ReloadTcd(st.ch[n].tcd)])

MoreLoops(st, n) ==
  SetChan(st, n, [st.ch[n] EXCEPT !.tcd = CountDown(st.ch[n].tcd)])

\* A minor loop keeps what its links keep: a and b are what the minor and the
\* major link made of the engine.
LEMMA KeepsAssembled ==
  ASSUME NEW st \in Engine, NEW n \in Channel, NEW a, NEW b,
         TcdError(st.ch[n].tcd) = {} =>
           Keeps(MoreLoops(st, n), a) /\ Keeps(LastLoop(st, n), b)
  PROVE  Keeps(st,
           IF TcdError(st.ch[n].tcd) # {} THEN Refuse(st, n)
           ELSE IF st.ch[n].tcd.citer.n > 1 THEN a
           ELSE FinishMajor(IF b.ch[n].tcd.csr.esg
                            THEN edma_load_next_tcd(b, n) ELSE b, n))
<1> DEFINE t == st.ch[n].tcd
           l == IF b.ch[n].tcd.csr.esg THEN edma_load_next_tcd(b, n) ELSE b
<1>1. CASE TcdError(t) # {}
  BY <1>1, KeepsRefuse
<1>2. CASE TcdError(t) = {}
  <2>1. t \in Tcd
    BY DEF Engine, Chan
  <2>2. CountDown(t) \in Tcd /\ ReloadTcd(t) \in Tcd
    BY <1>2, <2>1, CountedTcdType
  <2>3. Keeps(st, MoreLoops(st, n)) /\ Keeps(st, LastLoop(st, n))
    BY Zenon, <2>2, KeepsTcd DEF MoreLoops, LastLoop
  <2>4. Keeps(st, a) /\ Keeps(st, b) /\ b \in Engine
    <3>1. Keeps(MoreLoops(st, n), a) /\ Keeps(LastLoop(st, n), b)
      BY Zenon, <1>2
    <3>2. Keeps(st, a) /\ Keeps(st, b)
      BY Zenon, <2>3, <3>1, KeepsTrans
    <3>3. b \in Engine
      BY Zenon, <3>2 DEF Keeps
    <3> QED BY Zenon, <3>2, <3>3
  <2>5. Keeps(b, edma_load_next_tcd(b, n))
    BY <2>4, KeepsLoad
  <2>6. Keeps(st, l) /\ l \in Engine
    <3>1. l = edma_load_next_tcd(b, n) \/ l = b
      BY Zenon
    <3> HIDE DEF l
    <3>2. Keeps(st, edma_load_next_tcd(b, n))
      BY Zenon, <2>4, <2>5, KeepsTrans
    <3>3. Keeps(st, l)
      BY Zenon, <2>4, <3>1, <3>2
    <3> QED BY Zenon, <3>3 DEF Keeps
  <2>7. Keeps(l, FinishMajor(l, n))
    BY <2>6, KeepsFinishMajor
  <2>8. Keeps(st, FinishMajor(l, n))
    BY <2>6, <2>7, KeepsTrans
  <2> QED  BY <1>2, <2>4, <2>8
<1> QED  BY <1>1, <1>2

\* A minor loop inside a link.
LEMMA KeepsInLink ==
  ASSUME NEW st \in Engine, NEW n \in Channel
  PROVE  Keeps(st, MinorLoopWith(st, n, NoLink))
<1> DEFINE t == st.ch[n].tcd
           a == MoreLoops(st, n)
           b == LastLoop(st, n)
<1>1. TcdError(t) = {} => Keeps(a, a) /\ Keeps(b, b)
  <2> SUFFICES ASSUME TcdError(t) = {} PROVE Keeps(a, a) /\ Keeps(b, b)
    OBVIOUS
  <2>1. CountDown(t) \in Tcd /\ ReloadTcd(t) \in Tcd
    BY Zenon, CountedTcdType DEF Engine, Chan
  <2>2. a \in Engine /\ b \in Engine
    BY Zenon, <2>1, KeepsTcd DEF MoreLoops, LastLoop, Keeps
  <2> QED  BY <2>2, KeepsRefl
<1> HIDE DEF a, b
<1>2. Keeps(st,
           IF TcdError(t) # {} THEN Refuse(st, n)
           ELSE IF t.citer.n > 1 THEN a
           ELSE FinishMajor(IF b.ch[n].tcd.csr.esg
                            THEN edma_load_next_tcd(b, n) ELSE b, n))
  BY ZenonT(40), <1>1, KeepsAssembled DEF a, b
<1>3. MinorLoopWith(st, n, NoLink) =
           IF TcdError(t) # {} THEN Refuse(st, n)
           ELSE IF t.citer.n > 1 THEN a
           ELSE FinishMajor(IF b.ch[n].tcd.csr.esg
                            THEN edma_load_next_tcd(b, n) ELSE b, n)
  BY DEF MinorLoopWith, NoLink, MoreLoops, LastLoop, a, b
<1> QED  BY <1>2, <1>3

\* A channel link is one minor loop of the linked channel.
LEMMA KeepsLink ==
  ASSUME NEW st \in Engine, NEW n \in Channel
  PROVE  Keeps(st, edma_link_channel(st, n))
<1> DEFINE s1 == ClearDone(st, n)
           s2 == MinorLoopWith(s1, n, NoLink)
<1>1. Keeps(st, s1) /\ s1 \in Engine
  BY ZenonT(40), KeepsClearDone DEF Keeps
<1> HIDE DEF s1
<1>2. Keeps(s1, s2) /\ s2 \in Engine
  BY ZenonT(40), <1>1, KeepsInLink DEF Keeps
<1> HIDE DEF s2
<1>3. Keeps(s2, ClearStart(s2, n))
  BY <1>2, KeepsClearStart
<1>4. edma_link_channel(st, n) = ClearStart(s2, n)
  BY DEF edma_link_channel, edma_run, s1, s2
<1> QED  BY <1>1, <1>2, <1>3, <1>4, KeepsTrans

\* A minor loop of a channel, its links included.
LEMMA KeepsMinorLoop ==
  ASSUME NEW st \in Engine, NEW n \in Channel
  PROVE  Keeps(st, edma_minor_loop(st, n))
<1> DEFINE t == st.ch[n].tcd
           m == MoreLoops(st, n)
           l == LastLoop(st, n)
           a == IF t.citer.elink THEN edma_link_channel(m, t.citer.link) ELSE m
           b == IF t.csr.majorelink
                THEN edma_link_channel(l, t.csr.majorlink) ELSE l
<1>1. TcdError(t) = {} => Keeps(m, a) /\ Keeps(l, b)
  <2> SUFFICES ASSUME TcdError(t) = {} PROVE Keeps(m, a) /\ Keeps(l, b)
    OBVIOUS
  <2>1. /\ CountDown(t) \in Tcd /\ ReloadTcd(t) \in Tcd
        /\ t.citer.link \in Channel /\ t.csr.majorlink \in Channel
    BY Zenon, CountedTcdType DEF Engine, Chan
  <2>2. m \in Engine /\ l \in Engine
    BY Zenon, <2>1, KeepsTcd DEF MoreLoops, LastLoop, Keeps
  <2> HIDE DEF m, l
  <2>3. Keeps(m, a) /\ Keeps(l, b)
    BY <2>1, <2>2, KeepsRefl, KeepsLink
  <2> QED  BY ZenonT(40), <2>3
<1> HIDE DEF a, b
<1>2. Keeps(st,
           IF TcdError(t) # {} THEN Refuse(st, n)
           ELSE IF t.citer.n > 1 THEN a
           ELSE FinishMajor(IF b.ch[n].tcd.csr.esg
                            THEN edma_load_next_tcd(b, n) ELSE b, n))
  BY ZenonT(40), <1>1, KeepsAssembled
<1>3. edma_minor_loop(st, n) =
           IF TcdError(t) # {} THEN Refuse(st, n)
           ELSE IF t.citer.n > 1 THEN a
           ELSE FinishMajor(IF b.ch[n].tcd.csr.esg
                            THEN edma_load_next_tcd(b, n) ELSE b, n)
  BY DEF edma_minor_loop, MinorLoopWith, MoreLoops, LastLoop, a, b
<1> QED  BY <1>2, <1>3

\* A minor loop started by TCD_CSR[START].
LEMMA KeepsRun ==
  ASSUME NEW st \in Engine, NEW n \in Channel
  PROVE  Keeps(st, edma_run(st, n, edma_link_channel))
<1> DEFINE s == edma_minor_loop(st, n)
<1>1. Keeps(st, s) /\ s \in Engine
  BY ZenonT(40), KeepsMinorLoop DEF Keeps
<1>2. edma_run(st, n, edma_link_channel) = ClearStart(s, n)
  BY DEF edma_run, edma_minor_loop
<1> HIDE DEF s
<1> QED  BY <1>1, <1>2, KeepsClearStart, KeepsTrans

-----------------------------------------------------------------------------
\* A request call that schedules nothing raises no latch and marks no edge.
LEMMA RequestFacts ==
  ASSUME TypeOK, NEW moved \in BOOLEAN, NEW r \in BusReactions(moved) \cup Requests
  PROVE  /\ r.level \in [Source -> BOOLEAN]
         /\ r.edge \in [Source -> BOOLEAN]
         /\ r.kick \in BOOLEAN
         /\ ~r.kick => \A s \in Source : r.level[s] => reqLevel[s]
         /\ ~r.kick => r.edge = reqEdge
<1>1. CASE r = NoRequest
  BY <1>1 DEF TypeOK, NoRequest
<1>2. ASSUME NEW s \in Source \ PulseSource, NEW level \in BOOLEAN,
             r = mcxn_edma_req(s, level)
      PROVE  /\ r.level \in [Source -> BOOLEAN]
             /\ r.edge \in [Source -> BOOLEAN]
             /\ r.kick \in BOOLEAN
             /\ ~r.kick => \A u \in Source : r.level[u] => reqLevel[u]
             /\ ~r.kick => r.edge = reqEdge
  BY <1>2 DEF TypeOK, mcxn_edma_req
<1>3. ASSUME NEW s \in PulseSource, NEW level \in BOOLEAN,
             r = mcxn_edma_req_pulse(s, level)
      PROVE  /\ r.level \in [Source -> BOOLEAN]
             /\ r.edge \in [Source -> BOOLEAN]
             /\ r.kick \in BOOLEAN
             /\ ~r.kick => \A u \in Source : r.level[u] => reqLevel[u]
             /\ ~r.kick => r.edge = reqEdge
  BY <1>3, ConstAssumption DEF TypeOK, mcxn_edma_req_pulse
<1>4. CASE r \in CallsDuringTransfer
  <2>1. \A s \in Source : ~r.kick => (r.level[s] => reqLevel[s]) /\ r.edge[s] = reqEdge[s]
    BY <1>4 DEF CallsDuringTransfer
  <2>2. /\ r.level \in [Source -> BOOLEAN]
        /\ r.edge \in [Source -> BOOLEAN]
        /\ r.kick \in BOOLEAN
    BY <1>4 DEF CallsDuringTransfer
  <2> QED  BY <2>1, <2>2 DEF TypeOK
<1> QED  BY <1>1, <1>2, <1>3, <1>4 DEF BusReactions, Requests

\* While the service loop has found nothing to do in this pass, no channel it
\* has passed is eligible: this is what makes the end of the loop safe.
ScanInv ==
  bh.run /\ ~bh.progress => \A m \in Channel : m < bh.n => ~Eligible(m)

\* The inductive invariant.
IInv == TypeOK /\ IrqFollowsInt /\ ScanInv

\* The engine part of the state of a type-correct state.
LEMMA EngineState ==
  ASSUME TypeOK
  PROVE  [ch |-> ch, irq |-> irq] \in Engine
BY DEF TypeOK, Engine

\* The reset values have their types.
LEMMA ResetTypes == ResetChan \in Chan /\ BhIdle \in BhType
<1> USE ConstAssumption
<1>1. ResetIter \in Iter /\ ResetTcd.csr \in TcdCsr
  BY DEF ResetIter, Iter, ResetTcd, TcdCsr, Channel
<1>2. ResetTcd \in Tcd
  BY <1>1 DEF ResetTcd, Tcd, ErrBit
<1> QED  BY <1>2 DEF ResetChan, Chan, BhIdle, BhType

\* Power-on establishes the inductive invariant.
LEMMA InitIInv == Init => IInv
<1> SUFFICES ASSUME Init PROVE IInv
  OBVIOUS
<1>1. TypeOK
  BY ZenonT(40), ResetTypes DEF Init, TypeOK
<1>2. IrqFollowsInt
  BY ZenonT(40) DEF Init, IrqFollowsInt, ResetChan
<1>3. ScanInv
  BY DEF Init, ScanInv, BhIdle
<1> QED  BY <1>1, <1>2, <1>3 DEF IInv

\* A write of one channel register that leaves CH_INT alone.
LEMMA ChanWrite ==
  ASSUME IInv, Idle, NEW n \in Channel, NEW c \in Chan,
         c.intr = ch[n].intr, ch' = [ch EXCEPT ![n] = c],
         UNCHANGED <<irq, reqLevel, reqEnabled, reqEdge, bhScheduled, bh>>
  PROVE  IInv'
<1>1. TypeOK'
  BY DEF IInv, TypeOK
<1>2. IrqFollowsInt'
  BY DEF IInv, TypeOK, IrqFollowsInt
<1>3. ScanInv'
  BY DEF ScanInv, Idle
<1> QED  BY <1>1, <1>2, <1>3 DEF IInv

\* A step that replaces ch and irq by what a run of the engine made of them.
LEMMA EngineStep ==
  ASSUME IInv, NEW st, Keeps([ch |-> ch, irq |-> irq], st),
         ch' = st.ch, irq' = st.irq
  PROVE  /\ ch' \in [Channel -> Chan]
         /\ irq' \in [Channel -> BOOLEAN]
         /\ IrqFollowsInt'
         /\ \A m \in Channel : ch'[m].mux = ch[m].mux
         /\ \A m \in Channel : ch'[m].erq => ch[m].erq
BY DEF Keeps, Engine, IInv, IrqFollowsInt

\* A register write of the guest (edma_write) preserves the inductive invariant.
LEMMA GuestStepIInv ==
  ASSUME IInv, NEW n \in Channel, GuestStep(n)
  PROVE  IInv'
<1>0. ch[n] \in Chan /\ ch[n].tcd \in Tcd /\ ch \in [Channel -> Chan]
  BY DEF IInv, TypeOK, Chan
<1>1. ASSUME NEW v \in ChCsrIn, WriteChCsr(n, v) PROVE IInv'
  <2> DEFINE c == [ch[n] EXCEPT !.erq = v.erq, !.eei = v.eei,
                                !.done = @ /\ ~v.done]
  <2>1. v \in [erq : BOOLEAN, eei : BOOLEAN, done : BOOLEAN]
    BY ConstAssumption
  <2>2. c \in Chan /\ c.intr = ch[n].intr
    BY ZenonT(40), <1>0, <2>1 DEF Chan
  <2>3. ch' = [ch EXCEPT ![n] = c]
    BY ZenonT(40), <1>0, <1>1 DEF WriteChCsr
  <2> QED  BY ZenonT(40), <1>1, <2>2, <2>3, ChanWrite DEF WriteChCsr
<1>2. ASSUME NEW src \in Source \cup {0}, WriteChMux(n, src) PROVE IInv'
  <2> DEFINE c == [ch[n] EXCEPT !.mux = src]
  <2>1. c \in Chan /\ c.intr = ch[n].intr
    BY <1>0 DEF Chan
  <2>2. ch' = [ch EXCEPT ![n] = c]
    BY <1>0, <1>2 DEF WriteChMux
  <2> QED  BY ZenonT(40), <1>2, <2>1, <2>2, ChanWrite DEF WriteChMux
<1>3. CASE WriteChInt(n)
  <2> DEFINE c == [ch[n] EXCEPT !.intr = FALSE]
  <2>1. c \in Chan /\ c.intr = FALSE
    BY ZenonT(40), <1>0 DEF Chan
  <2>2. ch' = [ch EXCEPT ![n] = c] /\ irq' = [irq EXCEPT ![n] = FALSE]
    BY <1>0, <1>3, <2>1 DEF WriteChInt, edma_update_irq
  <2>3. TypeOK'
    BY ZenonT(40), <1>3, <2>1, <2>2 DEF IInv, TypeOK, WriteChInt
  <2>4. IrqFollowsInt'
    BY ZenonT(40), <2>1, <2>2 DEF IInv, TypeOK, IrqFollowsInt
  <2>5. ScanInv'
    BY <1>3 DEF ScanInv, WriteChInt, Idle
  <2> QED  BY <2>3, <2>4, <2>5 DEF IInv
<1>4. ASSUME NEW bits \in {EsBit}, WriteChEs(n, bits) PROVE IInv'
  <2> DEFINE c == [ch[n] EXCEPT !.es = @ \ bits]
  <2>1. c \in Chan /\ c.intr = ch[n].intr
    BY <1>0 DEF Chan
  <2>2. ch' = [ch EXCEPT ![n] = c]
    BY <1>0, <1>4 DEF WriteChEs
  <2> QED  BY ZenonT(40), <1>4, <2>1, <2>2, ChanWrite DEF WriteChEs
<1>5. CASE WriteTcd(n)
  <2> DEFINE With(t) == [ch[n] EXCEPT !.tcd = t]
  <2>1. ASSUME NEW t \in Tcd, ch' = [ch EXCEPT ![n] = With(t)] PROVE IInv'
    <3>1. With(t) \in Chan /\ With(t).intr = ch[n].intr
      BY <1>0 DEF Chan
    <3> QED  BY ZenonT(40), <1>5, <2>1, <3>1, ChanWrite DEF WriteTcd
  <2>2. ASSUME NEW v \in CiterIn, ch' = [ch EXCEPT ![n].tcd.citer = v]
        PROVE  IInv'
    BY ZenonT(40), <1>0, <2>1, <2>2, ConstAssumption DEF Tcd
  <2>3. ASSUME NEW v \in BiterIn, ch' = [ch EXCEPT ![n].tcd.biter = v]
        PROVE  IInv'
    BY ZenonT(40), <1>0, <2>1, <2>3, ConstAssumption DEF Tcd
  <2>4. ASSUME NEW v \in ErrIn, ch' = [ch EXCEPT ![n].tcd.err = v]
        PROVE  IInv'
    BY ZenonT(40), <1>0, <2>1, <2>4, ConstAssumption DEF Tcd
  <2>5. ASSUME NEW v \in AdjErrIn, ch' = [ch EXCEPT ![n].tcd.adjErr = v]
        PROVE  IInv'
    BY ZenonT(40), <1>0, <2>1, <2>5, ConstAssumption DEF Tcd
  <2>6. ASSUME NEW v \in SgaIn, ch' = [ch EXCEPT ![n].tcd.sga = v]
        PROVE  IInv'
    BY ZenonT(40), <1>0, <2>1, <2>6, ConstAssumption DEF Tcd
  <2> QED  BY <1>5, <2>2, <2>3, <2>4, <2>5, <2>6 DEF WriteTcd
<1>6. ASSUME NEW v \in TcdCsrIn, WriteTcdCsr(n, v) PROVE IInv'
  <2> DEFINE st0 == [ch |-> [ch EXCEPT ![n].tcd.csr = v], irq |-> irq]
             st == IF v.start
                   THEN edma_run(ClearDone(st0, n), n, edma_link_channel)
                   ELSE st0
             t == [ch[n].tcd EXCEPT !.csr = v]
             e == [ch |-> ch, irq |-> irq]
  <2>1. t \in Tcd
    BY <1>0, ConstAssumption DEF Tcd
  <2>2. st0 = SetChan(e, n, [e.ch[n] EXCEPT !.tcd = t])
    BY <1>0 DEF SetChan
  <2>e. e \in Engine
    BY Zenon, EngineState DEF IInv
  <2> HIDE DEF st0, t, e
  <2>3. Keeps(e, st0) /\ st0 \in Engine
    BY SMTT(30), Z3T(30), <2>1, <2>2, <2>e, KeepsTcd DEF Keeps
  <2>4. Keeps(e, ClearDone(st0, n)) /\ ClearDone(st0, n) \in Engine
    BY ZenonT(40), <2>3, KeepsClearDone, KeepsTrans DEF Keeps
  <2>5. Keeps(e, edma_run(ClearDone(st0, n), n, edma_link_channel))
    BY <2>4, KeepsRun, KeepsTrans
  <2>6. Keeps(e, st)
    BY <2>3, <2>5
  <2>7. ch' = st.ch /\ irq' = st.irq
    BY <1>6 DEF WriteTcdCsr, st0
  <2> HIDE DEF st
  <2>8. ch' \in [Channel -> Chan] /\ irq' \in [Channel -> BOOLEAN] /\ IrqFollowsInt'
    BY <2>6, <2>7, EngineStep DEF e
  <2>9. PICK r \in BusReactions(v.start /\ MovesData(n)) :
          /\ reqLevel' = r.level
          /\ reqEdge' = r.edge
          /\ bhScheduled' = (bhScheduled \/ r.kick)
    BY <1>6 DEF WriteTcdCsr
  <2>10. (v.start /\ MovesData(n)) \in BOOLEAN
    OBVIOUS
  <2>11. r.level \in [Source -> BOOLEAN] /\ r.edge \in [Source -> BOOLEAN]
    BY ZenonT(40), <2>10, RequestFacts DEF IInv
  <2>12. TypeOK'
    BY ZenonT(40), <1>6, <2>8, <2>9, <2>11 DEF TypeOK, IInv, WriteTcdCsr
  <2>13. ScanInv'
    BY <1>6 DEF ScanInv, WriteTcdCsr, Idle
  <2> QED  BY <2>8, <2>12, <2>13 DEF IInv
<1> QED  BY <1>1, <1>2, <1>3, <1>4, <1>5, <1>6 DEF GuestStep

\* Serving one channel in the bottom half preserves the inductive invariant.
LEMMA BhServeIInv ==
  ASSUME IInv, BhServe
  PROVE  IInv'
<1> DEFINE n == bh.n
           e == [ch |-> ch, irq |-> irq]
           st == edma_minor_loop(ClearDone(e, n), n)
<1>1. n \in Channel
  BY ConstAssumption DEF BhServe, IInv, TypeOK, BhType, Channel
<1>2. e \in Engine
  BY EngineState DEF IInv
<1>3. ch' = st.ch /\ irq' = st.irq
  BY DEF BhServe
<1> HIDE DEF e, n
<1>4. Keeps(e, ClearDone(e, n)) /\ ClearDone(e, n) \in Engine
  BY ZenonT(40), <1>1, <1>2, KeepsClearDone DEF Keeps
<1>5. Keeps(e, st)
  BY <1>1, <1>4, KeepsMinorLoop, KeepsTrans
<1> HIDE DEF st
<1>6. ch' \in [Channel -> Chan] /\ irq' \in [Channel -> BOOLEAN] /\ IrqFollowsInt'
  BY <1>3, <1>5, EngineStep DEF e
<1>7. PICK r \in BusReactions(MovesData(n)) :
        /\ reqLevel' = [r.level EXCEPT ![ch[n].mux] = @ /\ ~r.edge[ch[n].mux]]
        /\ reqEdge' = r.edge
        /\ bhScheduled' = (bhScheduled \/ r.kick)
  BY ZenonT(40) DEF BhServe, n
<1>8. MovesData(n) \in BOOLEAN
  BY DEF MovesData
<1>9. r.level \in [Source -> BOOLEAN] /\ r.edge \in [Source -> BOOLEAN]
        /\ r.kick \in BOOLEAN
  BY <1>8, RequestFacts DEF IInv
<1>10. reqLevel' \in [Source -> BOOLEAN]
  BY ZenonT(40), <1>7, <1>9
<1>11. bh' \in BhType /\ bh'.progress
  <2>1. bh.n + 1 \in 0 .. NChannels /\ bh \in BhType
    BY ConstAssumption DEF BhServe, IInv, TypeOK, BhType
  <2>2. bh' = [bh EXCEPT !.n = bh.n + 1, !.progress = TRUE]
    BY Zenon DEF BhServe
  <2> QED  BY ZenonT(40), <2>1, <2>2 DEF BhType
<1>12. TypeOK'
  BY <1>6, <1>7, <1>9, <1>10, <1>11 DEF TypeOK, IInv, BhServe
<1>13. ScanInv'
  BY <1>11 DEF ScanInv
<1> QED  BY <1>6, <1>12, <1>13 DEF IInv

\* Every step of mcxn_edma_service_bh preserves the inductive invariant.
LEMMA BhStepIInv ==
  ASSUME IInv, BhStep
  PROVE  IInv'
<1>1. CASE BhStart
  <2>1. bh' \in BhType /\ bh'.n = 0
    BY ZenonT(40), <1>1, ResetTypes, ConstAssumption DEF BhStart, BhIdle, BhType
  <2>2. TypeOK' /\ IrqFollowsInt'
    BY ZenonT(40), <1>1, <2>1 DEF BhStart, IInv, TypeOK, IrqFollowsInt
  <2>3. ScanInv'
    BY <2>1 DEF ScanInv, Channel
  <2> QED  BY <2>2, <2>3 DEF IInv
<1>2. CASE BhSkip
  <2>1. /\ bh' \in BhType /\ bh'.n = bh.n + 1 /\ bh'.progress = bh.progress
        /\ bh.n \in Nat
    BY <1>2, ConstAssumption DEF BhSkip, IInv, TypeOK, BhType
  <2>2. TypeOK' /\ IrqFollowsInt'
    BY <1>2, <2>1 DEF BhSkip, IInv, TypeOK, IrqFollowsInt
  <2>3. \A m \in Channel : Eligible(m)' <=> Eligible(m)
    BY <1>2 DEF BhSkip, Eligible
  <2>4. ScanInv'
    BY <1>2, <2>1, <2>3, ConstAssumption DEF BhSkip, IInv, ScanInv, Channel
  <2> QED  BY <2>2, <2>4 DEF IInv
<1>3. CASE BhServe
  BY <1>3, BhServeIInv
<1>4. CASE BhNextPass
  <2>1. bh' \in BhType /\ bh'.n = 0
    <3>1. bh.guard + 1 \in 0 .. MaxLoops - 1 /\ bh \in BhType /\ 0 \in 0 .. NChannels
      BY <1>4, ConstAssumption DEF BhNextPass, Again, IInv, TypeOK, BhType
    <3>2. bh' = [bh EXCEPT !.n = 0, !.progress = FALSE, !.guard = bh.guard + 1]
      BY <1>4 DEF BhNextPass
    <3> QED  BY ZenonT(40), <3>1, <3>2 DEF BhType
  <2>2. TypeOK' /\ IrqFollowsInt'
    BY <1>4, <2>1 DEF BhNextPass, IInv, TypeOK, IrqFollowsInt
  <2>3. ScanInv'
    BY <2>1 DEF ScanInv, Channel
  <2> QED  BY <2>2, <2>3 DEF IInv
<1>5. CASE BhEnd
  <2>1. TypeOK' /\ IrqFollowsInt'
    BY <1>5, ResetTypes DEF BhEnd, IInv, TypeOK, IrqFollowsInt
  <2>2. ScanInv'
    BY <1>5 DEF ScanInv, BhEnd, BhIdle
  <2> QED  BY <2>1, <2>2 DEF IInv
<1> QED  BY <1>1, <1>2, <1>3, <1>4, <1>5 DEF BhStep

\* Every step, reset and migration included, preserves the inductive invariant.
LEMMA NextIInv == IInv /\ [Next]_vars => IInv'
<1> SUFFICES ASSUME IInv, [Next]_vars PROVE IInv'
  OBVIOUS
<1>1. ASSUME NEW n \in Channel, GuestStep(n) PROVE IInv'
  BY <1>1, GuestStepIInv
<1>2. CASE PeripheralRequest
  <2>1. PICK r \in Requests :
          /\ reqLevel' = r.level
          /\ reqEdge' = r.edge
          /\ bhScheduled' = (bhScheduled \/ r.kick)
    BY <1>2 DEF PeripheralRequest
  <2>2. r.level \in [Source -> BOOLEAN] /\ r.edge \in [Source -> BOOLEAN]
    BY ZenonT(40), RequestFacts DEF IInv
  <2>3. TypeOK' /\ IrqFollowsInt'
    BY <1>2, <2>1, <2>2 DEF PeripheralRequest, IInv, TypeOK, IrqFollowsInt
  <2>4. ScanInv'
    BY <1>2 DEF PeripheralRequest, ScanInv, Idle
  <2> QED  BY <2>3, <2>4 DEF IInv
<1>3. ASSUME NEW s \in Source, NEW level \in BOOLEAN,
             mcxn_edma_req_enable(s, level)
      PROVE  IInv'
  <2>1. TypeOK' /\ IrqFollowsInt'
    BY <1>3 DEF mcxn_edma_req_enable, IInv, TypeOK, IrqFollowsInt
  <2>2. ScanInv'
    BY <1>3 DEF mcxn_edma_req_enable, ScanInv, Idle
  <2> QED  BY <2>1, <2>2 DEF IInv
<1>4. CASE BhStep
  BY <1>4, BhStepIInv
<1>5. CASE mcxn_edma_reset
  <2>1. TypeOK'
    BY <1>5, ResetTypes DEF mcxn_edma_reset, IInv, TypeOK
  <2>2. IrqFollowsInt'
    BY ZenonT(40), <1>5 DEF mcxn_edma_reset, IrqFollowsInt, ResetChan
  <2>3. ScanInv'
    BY <1>5 DEF mcxn_edma_reset, ScanInv, Idle
  <2> QED  BY <2>1, <2>2, <2>3 DEF IInv
<1>6. CASE mcxn_edma_post_load
  <2>1. TypeOK'
    BY <1>6 DEF mcxn_edma_post_load, IInv, TypeOK, Chan
  <2>2. IrqFollowsInt'
    BY <1>6 DEF mcxn_edma_post_load, IrqFollowsInt
  <2>3. ScanInv'
    BY <1>6 DEF mcxn_edma_post_load, ScanInv, Idle
  <2> QED  BY <2>1, <2>2, <2>3 DEF IInv
<1>7. CASE UNCHANGED vars
  BY <1>7 DEF vars, IInv, TypeOK, IrqFollowsInt, ScanInv, Eligible
<1> QED  BY <1>1, <1>2, <1>3, <1>4, <1>5, <1>6, <1>7 DEF Next, LocalNext

\* Every reachable state satisfies the inductive invariant.
THEOREM Invariant == Spec => []IInv
BY InitIInv, NextIInv, PTL DEF Spec

\* The state is well-typed, whatever the guest writes and however often the
\* machine is reset or migrated.
THEOREM TypeCorrect == Spec => []TypeOK
<1>1. IInv => TypeOK
  BY DEF IInv
<1> QED  BY <1>1, Invariant, PTL

\* Each channel's interrupt line always equals its CH_INT.
THEOREM IrqCorrect == Spec => []IrqFollowsInt
<1>1. IInv => IrqFollowsInt
  BY Zenon DEF IInv
<1> QED  BY <1>1, Invariant, PTL

-----------------------------------------------------------------------------
\* A step that raises no latch, opens no gate and arms no channel leaves no new
\* channel eligible.
LEMMA NotNewlyEligible ==
  ASSUME TypeOK, NEW n \in Channel,
         ch'[n].mux = ch[n].mux, ch'[n].erq => ch[n].erq,
         \A s \in Source : reqLevel'[s] => reqLevel[s],
         \A s \in Source : reqEnabled'[s] => reqEnabled[s],
         Eligible(n)'
  PROVE  Eligible(n)
BY Zenon DEF Eligible, TypeOK, Chan

\* The step that leaves a channel stalled is a late arming or the backstop.
Excused(n) ==
  \/ GuardTrips
  \/ ch'[n].erq /\ ~ch[n].erq
  \/ ch'[n].mux # ch[n].mux

\* A register write that leaves a channel unattended is a late arming.
LEMMA GuestStall ==
  ASSUME IInv, NEW m \in Channel, GuestStep(m), NEW n \in Channel,
         ~Stalled(n), Stalled(n)'
  PROVE  Excused(n)
<1> SUFFICES ASSUME ch'[n].mux = ch[n].mux, ch'[n].erq => ch[n].erq
             PROVE  FALSE
  BY Zenon DEF Excused
<1>0. Idle /\ reqEnabled' = reqEnabled /\ TypeOK
  BY ZenonT(40) DEF GuestStep, WriteChCsr, WriteChMux, WriteChInt, WriteChEs, WriteTcd,
         WriteTcdCsr, IInv
<1>1. ASSUME UNCHANGED <<reqLevel, bhScheduled>> PROVE FALSE
  <2>1. Eligible(n)
    BY <1>0, <1>1, NotNewlyEligible DEF Stalled
  <2> QED  BY <1>0, <1>1, <2>1 DEF Stalled
<1>2. ASSUME NEW v \in TcdCsrIn, WriteTcdCsr(m, v) PROVE FALSE
  <2>1. PICK r \in BusReactions(v.start /\ MovesData(m)) :
          /\ reqLevel' = r.level
          /\ bhScheduled' = (bhScheduled \/ r.kick)
    BY <1>2 DEF WriteTcdCsr
  <2>2. (v.start /\ MovesData(m)) \in BOOLEAN
    OBVIOUS
  <2>3. ~bhScheduled /\ ~r.kick
    BY ZenonT(40), <2>1 DEF Stalled
  <2>4. \A s \in Source : reqLevel'[s] => reqLevel[s]
    BY ZenonT(40), <1>0, <2>1, <2>2, <2>3, RequestFacts
  <2>5. Eligible(n)
    BY <1>0, <2>4, NotNewlyEligible DEF Stalled
  <2> QED  BY <1>0, <2>3, <2>5 DEF Stalled
<1> QED  BY ZenonT(40), <1>1, <1>2 DEF GuestStep, WriteChCsr, WriteChMux, WriteChInt,
            WriteChEs, WriteTcd

\* Any step that leaves a channel unattended is a late arming or the backstop.
LEMMA NextStall ==
  ASSUME IInv, [Next]_vars, NEW n \in Channel, ~Stalled(n), Stalled(n)'
  PROVE  Excused(n)
<1>0. TypeOK
  BY DEF IInv
<1>1. ASSUME NEW m \in Channel, GuestStep(m) PROVE Excused(n)
  BY <1>1, GuestStall
<1>2. CASE PeripheralRequest
  <2>1. PICK r \in Requests :
          /\ reqLevel' = r.level
          /\ bhScheduled' = (bhScheduled \/ r.kick)
    BY <1>2 DEF PeripheralRequest
  <2>2. ~bhScheduled /\ ~r.kick
    BY ZenonT(40), <2>1 DEF Stalled
  <2>3. \A s \in Source : reqLevel'[s] => reqLevel[s]
    BY ZenonT(40), <1>0, <2>1, <2>2, RequestFacts
  <2>4. Eligible(n)
    BY <1>0, <1>2, <2>3, NotNewlyEligible DEF Stalled, PeripheralRequest
  <2> QED  BY <1>2, <2>2, <2>4 DEF Stalled, PeripheralRequest
<1>3. ASSUME NEW s \in Source, NEW level \in BOOLEAN,
             mcxn_edma_req_enable(s, level)
      PROVE  Excused(n)
  <2>1. ~bhScheduled /\ ~(level /\ reqLevel[s])
    BY ZenonT(40), <1>3 DEF Stalled, mcxn_edma_req_enable
  <2>2. Eligible(n)
    BY <1>0, <1>3, <2>1 DEF Stalled, mcxn_edma_req_enable, Eligible, TypeOK
  <2> QED  BY <1>3, <2>1, <2>2 DEF Stalled, mcxn_edma_req_enable
<1>4. CASE BhStep
  <2>1. CASE BhEnd
    <3>1. Eligible(n)
      BY <1>0, <2>1, NotNewlyEligible DEF BhEnd, TypeOK, Stalled
    <3>2. n < NChannels
      BY ConstAssumption DEF Channel
    <3>3. bh.progress
      BY ZenonT(40), <2>1, <3>1, <3>2 DEF IInv, ScanInv, BhEnd
    <3> QED  BY <2>1, <3>3 DEF Excused, GuardTrips, BhEnd
  <2>2. ASSUME bh'.run PROVE FALSE
    BY <2>2 DEF Stalled, Idle
  <2>3. bh \in BhType
    BY Zenon, <1>0 DEF TypeOK
  <2> QED  BY ZenonT(40), <1>4, <2>1, <2>2, <2>3
           DEF BhStep, BhStart, BhSkip, BhServe, BhNextPass, BhIdle, BhType
<1>5. CASE mcxn_edma_reset
  BY Zenon, <1>5 DEF mcxn_edma_reset, Stalled, Eligible, ResetChan
<1>6. CASE mcxn_edma_post_load
  <2>1. Eligible(n)
    BY <1>6 DEF mcxn_edma_post_load, Stalled, Eligible
  <2>2. ch[n].mux \in Source
    BY Zenon, <1>0, <2>1 DEF Eligible, TypeOK, Chan
  <2> QED  BY <1>6, <2>1, <2>2 DEF mcxn_edma_post_load, Stalled, Eligible
<1>7. CASE UNCHANGED vars
  BY <1>7 DEF vars, Stalled, Eligible, Idle
<1> QED  BY <1>1, <1>2, <1>3, <1>4, <1>5, <1>6, <1>7 DEF Next, LocalNext

\* No step of the engine, of a peripheral or of the machine loses a request:
\* only arming a channel late, or the backstop, leaves one unattended.
THEOREM NoLostRequest == Spec => OnlyLateArmingStalls
<1> DEFINE A == \A n \in Channel : ~Stalled(n) /\ Stalled(n)' => Excused(n)
<1>1. IInv /\ [Next]_vars => [A]_vars
  BY NextStall
<1>2. A <=> \A n \in Channel :
              ~Stalled(n) /\ Stalled(n)' =>
                \/ GuardTrips
                \/ ch'[n].erq /\ ~ch[n].erq
                \/ ch'[n].mux # ch[n].mux
  BY DEF Excused
<1> HIDE DEF A
<1>3. Spec => [][A]_vars
  BY <1>1, Invariant, PTL DEF Spec
<1> QED  BY <1>2, <1>3, PTL DEF OnlyLateArmingStalls

-----------------------------------------------------------------------------
\* A request call that schedules nothing leaves no latched pulse behind.
LEMMA RequestPulse ==
  ASSUME TypeOK, NEW moved \in BOOLEAN, NEW r \in BusReactions(moved) \cup Requests,
         ~r.kick, \A s \in Source : ~(reqEdge[s] /\ reqLevel[s])
  PROVE  \A s \in Source : ~(r.edge[s] /\ r.level[s])
BY RequestFacts

\* No local step leaves a latched pulse behind without a bottom half.
LEMMA NextPulse ==
  ASSUME IInv, PulseEvaporates, [LocalNext]_vars
  PROVE  PulseEvaporates'
<1> SUFFICES ASSUME Idle', ~bhScheduled', NEW s \in Source
             PROVE  ~(reqEdge'[s] /\ reqLevel'[s])
  BY DEF PulseEvaporates
<1>0. TypeOK
  BY Zenon DEF IInv
<1>1. ASSUME NEW m \in Channel, GuestStep(m) PROVE ~(reqEdge'[s] /\ reqLevel'[s])
  <2>1. Idle
    BY ZenonT(40), <1>1 DEF GuestStep, WriteChCsr, WriteChMux, WriteChInt, WriteChEs,
                WriteTcd, WriteTcdCsr
  <2>2. ASSUME UNCHANGED <<reqLevel, reqEdge, bhScheduled>>
        PROVE  ~(reqEdge'[s] /\ reqLevel'[s])
    BY Zenon, <2>1, <2>2 DEF PulseEvaporates
  <2>3. ASSUME NEW v \in TcdCsrIn, WriteTcdCsr(m, v)
        PROVE  ~(reqEdge'[s] /\ reqLevel'[s])
    <3>1. PICK r \in BusReactions(v.start /\ MovesData(m)) :
            /\ reqLevel' = r.level
            /\ reqEdge' = r.edge
            /\ bhScheduled' = (bhScheduled \/ r.kick)
      BY <2>3 DEF WriteTcdCsr
    <3>2. (v.start /\ MovesData(m)) \in BOOLEAN
      OBVIOUS
    <3> QED  BY ZenonT(40), <1>0, <2>1, <3>1, <3>2, RequestPulse DEF PulseEvaporates
  <2> QED  BY ZenonT(40), <1>1, <2>2, <2>3 DEF GuestStep, WriteChCsr, WriteChMux,
              WriteChInt, WriteChEs, WriteTcd
<1>2. CASE PeripheralRequest
  <2>1. PICK r \in Requests :
          /\ reqLevel' = r.level
          /\ reqEdge' = r.edge
          /\ bhScheduled' = (bhScheduled \/ r.kick)
    BY <1>2 DEF PeripheralRequest
  <2> QED  BY ZenonT(40), <1>0, <1>2, <2>1, RequestPulse DEF PulseEvaporates, PeripheralRequest
<1>3. ASSUME NEW u \in Source, NEW level \in BOOLEAN,
             mcxn_edma_req_enable(u, level)
      PROVE  ~(reqEdge'[s] /\ reqLevel'[s])
  BY ZenonT(40), <1>3 DEF mcxn_edma_req_enable, PulseEvaporates
<1>4. CASE BhStep
  <2>1. CASE BhEnd
    BY ZenonT(40), <2>1 DEF BhEnd
  <2>2. ASSUME bh'.run PROVE FALSE
    BY <2>2 DEF Idle
  <2>3. bh \in BhType
    BY <1>0 DEF TypeOK
  <2> QED  BY ZenonT(40), <1>4, <2>1, <2>2, <2>3
           DEF BhStep, BhStart, BhSkip, BhServe, BhNextPass, BhIdle, BhType
<1>5. CASE mcxn_edma_reset
  BY <1>5 DEF mcxn_edma_reset
<1>6. CASE UNCHANGED vars
  BY <1>6 DEF vars, PulseEvaporates, Idle
<1> QED  BY <1>1, <1>2, <1>3, <1>4, <1>5, <1>6 DEF LocalNext

\* In a machine that is never migrated a pulse leaves no trace once the bottom
\* half has run, even across resets and closed gates.
THEOREM PulseOneShot == LocalSpec => []PulseEvaporates
<1>1. Init => PulseEvaporates
  BY DEF Init, PulseEvaporates
<1>2. [LocalNext]_vars => [Next]_vars
  BY DEF Next
<1>3. IInv /\ PulseEvaporates /\ [LocalNext]_vars => PulseEvaporates'
  BY Zenon, NextPulse
<1> QED  BY <1>1, <1>2, <1>3, InitIInv, NextIInv, PTL DEF LocalSpec

-----------------------------------------------------------------------------
\* What a run of the engine from st to s owes a channel m whose TCD is refused: the TCD
\* stays refused, DONE does not rise, and CH_INT rises only for EEI.
Spared(st, s, m) ==
  TcdError(st.ch[m].tcd) # {} =>
    /\ TcdError(s.ch[m].tcd) # {}
    /\ s.ch[m].eei = st.ch[m].eei
    /\ s.ch[m].done => st.ch[m].done
    /\ s.ch[m].intr => st.ch[m].intr \/ st.ch[m].eei

\* Two runs of the engine in a row spare what each of them spares.
LEMMA SparedTrans ==
  ASSUME NEW a, NEW b, NEW c, NEW m, Spared(a, b, m), Spared(b, c, m)
  PROVE  Spared(a, c, m)
BY DEF Spared

\* A channel whose record does not change is spared.
LEMMA SparedSame ==
  ASSUME NEW st, NEW s, NEW m, s.ch[m] = st.ch[m]
  PROVE  Spared(st, s, m)
BY DEF Spared

\* Refusing a TCD raises CH_INT for EEI only, and never DONE.
LEMMA SparedRefuse ==
  ASSUME NEW st \in Engine, NEW n \in Channel
  PROVE  /\ Spared(st, Refuse(st, n), n)
         /\ \A m \in Channel : m # n => Refuse(st, n).ch[m] = st.ch[m]
<1> DEFINE c == st.ch[n]
           d == [c EXCEPT !.es = @ \cup TcdError(c.tcd) \cup {"ERR"}]
           f == [d EXCEPT !.intr = TRUE]
<1>1. c \in Chan
  BY DEF Engine
<1>2. TcdError(c.tcd) \subseteq EsBit
  BY <1>1 DEF TcdError, Chan, Tcd, EsBit, ErrBit
<1>3. d \in Chan /\ d.eei = c.eei /\ d.done = c.done /\ d.intr = c.intr /\ d.tcd = c.tcd
  BY <1>1, <1>2 DEF Chan, EsBit
<1> HIDE DEF d
<1>4. f \in Chan /\ f.eei = c.eei /\ f.done = c.done /\ f.tcd = c.tcd
  BY ZenonT(40), <1>3 DEF Chan
<1> HIDE DEF f
<1>5. CASE c.eei
  <2>1. Refuse(st, n).ch = [st.ch EXCEPT ![n] = f]
    BY ZenonT(40), <1>5, <1>3 DEF Refuse, RaiseInt, SetChan, edma_update_irq, Engine, d, f
  <2>2. Refuse(st, n).ch[n] = f
    BY <2>1 DEF Engine
  <2>3. Spared(st, Refuse(st, n), n)
    BY ZenonT(40), <1>4, <1>5, <2>2 DEF Spared
  <2> QED BY <2>1, <2>3 DEF Engine
<1>6. CASE ~c.eei
  <2>1. Refuse(st, n).ch = [st.ch EXCEPT ![n] = d]
    BY <1>6 DEF Refuse, SetChan, d
  <2>2. Refuse(st, n).ch[n] = d
    BY <2>1 DEF Engine
  <2>3. Spared(st, Refuse(st, n), n)
    BY <1>3, <2>2 DEF Spared
  <2> QED BY <2>1, <2>3 DEF Engine
<1> QED BY <1>5, <1>6

\* The pieces of a minor loop of channel n touch no other channel.
LEMMA OthersUntouched ==
  ASSUME NEW st \in Engine, NEW n \in Channel, NEW m \in Channel, m # n
  PROVE  /\ \A c : SetChan(st, n, c).ch[m] = st.ch[m]
         /\ edma_load_next_tcd(st, n).ch[m] = st.ch[m]
         /\ FinishMajor(st, n).ch[m] = st.ch[m]
         /\ ClearDone(st, n).ch[m] = st.ch[m]
         /\ ClearStart(st, n).ch[m] = st.ch[m]
<1>1. \A c : SetChan(st, n, c).ch[m] = st.ch[m]
  BY DEF SetChan, Engine
<1>2. \A c : RaiseInt(SetChan(st, n, c), n).ch[m] = st.ch[m]
  BY DEF RaiseInt, SetChan, edma_update_irq, Engine
<1> QED BY ZenonT(40), <1>1, <1>2 DEF edma_load_next_tcd, FinishMajor, ClearDone, ClearStart

\* Clearing DONE or START spares every channel.
LEMMA SparedClear ==
  ASSUME NEW st \in Engine, NEW n \in Channel, NEW m \in Channel
  PROVE  Spared(st, ClearDone(st, n), m) /\ Spared(st, ClearStart(st, n), m)
<1>1. CASE m # n
  BY ZenonT(40), <1>1, OthersUntouched, SparedSame
<1>2. CASE m = n
  <2> DEFINE c == st.ch[n]
             t == c.tcd
             d == [c EXCEPT !.done = FALSE]
             u == [t EXCEPT !.csr = [t.csr EXCEPT !.start = FALSE]]
             e == [c EXCEPT !.tcd = u]
  <2>1. c \in Chan /\ t \in Tcd
    BY DEF Engine, Chan
  <2>2. d.tcd = t /\ d.eei = c.eei /\ d.done = FALSE /\ d.intr = c.intr
    BY <2>1 DEF Chan
  <2>3. u.err = t.err /\ u.citer = t.citer
    BY <2>1 DEF Tcd
  <2> HIDE DEF u
  <2>4. e.tcd = u /\ e.eei = c.eei /\ e.done = c.done /\ e.intr = c.intr
    BY <2>1 DEF Chan
  <2> HIDE DEF d, e
  <2>5. ClearDone(st, n).ch[n] = d /\ ClearStart(st, n).ch[n] = e
    BY ZenonT(40) DEF ClearDone, ClearStart, SetChan, Engine, d, e, u
  <2>6. TcdError(u) = TcdError(t)
    BY <2>3 DEF TcdError
  <2> QED BY <1>2, <2>2, <2>4, <2>5, <2>6 DEF Spared
<1> QED BY Zenon, <1>1, <1>2

\* A minor loop spares every channel if its links, a and b, do.
LEMMA SparedAssembled ==
  ASSUME NEW st \in Engine, NEW n \in Channel, NEW a, NEW b, NEW m \in Channel,
         TcdError(st.ch[n].tcd) = {} =>
           /\ b \in Engine
           /\ Spared(MoreLoops(st, n), a, m) /\ Spared(LastLoop(st, n), b, m)
  PROVE  Spared(st,
           IF TcdError(st.ch[n].tcd) # {} THEN Refuse(st, n)
           ELSE IF st.ch[n].tcd.citer.n > 1 THEN a
           ELSE FinishMajor(IF b.ch[n].tcd.csr.esg
                            THEN edma_load_next_tcd(b, n) ELSE b, n), m)
<1> DEFINE l == IF b.ch[n].tcd.csr.esg THEN edma_load_next_tcd(b, n) ELSE b
<1>1. CASE TcdError(st.ch[n].tcd) # {}
  BY Zenon, <1>1, SparedRefuse, SparedSame
<1>2. CASE TcdError(st.ch[n].tcd) = {} /\ m = n
  BY ZenonT(40), <1>2 DEF Spared
<1>3. CASE TcdError(st.ch[n].tcd) = {} /\ m # n
  <2>1. Spared(st, MoreLoops(st, n), m) /\ Spared(st, LastLoop(st, n), m)
    BY <1>3, OthersUntouched, SparedSame DEF MoreLoops, LastLoop
  <2>2. Spared(st, a, m) /\ Spared(st, b, m)
    BY Zenon, <1>3, <2>1, SparedTrans
  <2>3. l \in Engine /\ l.ch[m] = b.ch[m]
    BY ZenonT(40), <1>3, OthersUntouched, KeepsLoad DEF Keeps
  <2> HIDE DEF l
  <2>4. FinishMajor(l, n).ch[m] = b.ch[m]
    BY ZenonT(40), <1>3, <2>3, OthersUntouched
  <2>5. Spared(st, FinishMajor(l, n), m)
    BY ZenonT(40), <2>2, <2>4, SparedSame, SparedTrans
  <2> QED BY <1>3, <2>2, <2>5 DEF l
<1> QED BY ZenonT(40), <1>1, <1>2, <1>3

\* A channel link spares every channel.
LEMMA SparedLink ==
  ASSUME NEW st \in Engine, NEW n \in Channel, NEW m \in Channel
  PROVE  Spared(st, edma_link_channel(st, n), m)
<1> DEFINE s1 == ClearDone(st, n)
           t == s1.ch[n].tcd
           a == MoreLoops(s1, n)
           b == LastLoop(s1, n)
           s2 == MinorLoopWith(s1, n, NoLink)
<1>1. Spared(st, s1, m) /\ s1 \in Engine
  BY SparedClear, KeepsClearDone DEF Keeps
<1> HIDE DEF s1
<1>2. TcdError(t) = {} => b \in Engine /\ Spared(a, a, m) /\ Spared(b, b, m)
  <2> SUFFICES ASSUME TcdError(t) = {}
               PROVE  b \in Engine /\ Spared(a, a, m) /\ Spared(b, b, m)
    OBVIOUS
  <2>1. ReloadTcd(t) \in Tcd
    BY Zenon, <1>1, CountedTcdType DEF Engine, Chan
  <2>2. b \in Engine
    BY Zenon, <1>1, <2>1, KeepsTcd DEF LastLoop, Keeps
  <2> QED BY <2>2, SparedSame
<1> HIDE DEF a, b
<1>3. Spared(s1,
           IF TcdError(t) # {} THEN Refuse(s1, n)
           ELSE IF t.citer.n > 1 THEN a
           ELSE FinishMajor(IF b.ch[n].tcd.csr.esg
                            THEN edma_load_next_tcd(b, n) ELSE b, n), m)
  BY ZenonT(40), <1>1, <1>2, SparedAssembled DEF a, b
<1>4. s2 = IF TcdError(t) # {} THEN Refuse(s1, n)
           ELSE IF t.citer.n > 1 THEN a
           ELSE FinishMajor(IF b.ch[n].tcd.csr.esg
                            THEN edma_load_next_tcd(b, n) ELSE b, n)
  BY DEF MinorLoopWith, NoLink, MoreLoops, LastLoop, a, b
<1>5. Spared(s1, s2, m) /\ s2 \in Engine
  BY ZenonT(40), <1>1, <1>3, <1>4, KeepsInLink DEF Keeps
<1>6. edma_link_channel(st, n) = ClearStart(s2, n)
  BY DEF edma_link_channel, edma_run, s1
<1> HIDE DEF s2
<1>7. Spared(s2, ClearStart(s2, n), m)
  BY Zenon, <1>5, SparedClear
<1> QED BY <1>1, <1>5, <1>6, <1>7, SparedTrans

\* A minor loop spares every channel, its own and those it links to.
LEMMA SparedMinorLoop ==
  ASSUME NEW st \in Engine, NEW n \in Channel, NEW m \in Channel
  PROVE  Spared(st, edma_minor_loop(st, n), m)
<1> DEFINE t == st.ch[n].tcd
           x == MoreLoops(st, n)
           l == LastLoop(st, n)
           a == IF t.citer.elink THEN edma_link_channel(x, t.citer.link) ELSE x
           b == IF t.csr.majorelink
                THEN edma_link_channel(l, t.csr.majorlink) ELSE l
<1>1. TcdError(t) = {} => b \in Engine /\ Spared(x, a, m) /\ Spared(l, b, m)
  <2> SUFFICES ASSUME TcdError(t) = {}
               PROVE  b \in Engine /\ Spared(x, a, m) /\ Spared(l, b, m)
    OBVIOUS
  <2>1. /\ CountDown(t) \in Tcd /\ ReloadTcd(t) \in Tcd
        /\ t.citer.link \in Channel /\ t.csr.majorlink \in Channel
    BY Zenon, CountedTcdType DEF Engine, Chan
  <2>2. x \in Engine /\ l \in Engine
    BY Zenon, <2>1, KeepsTcd DEF MoreLoops, LastLoop, Keeps
  <2> HIDE DEF x, l
  <2>3. b \in Engine
    BY ZenonT(40), <2>1, <2>2, KeepsLink DEF Keeps
  <2>4. Spared(x, a, m) /\ Spared(l, b, m)
    BY Zenon, <2>1, <2>2, SparedSame, SparedLink
  <2> QED BY ZenonT(40), <2>3, <2>4
<1> HIDE DEF a, b
<1>2. Spared(st,
           IF TcdError(t) # {} THEN Refuse(st, n)
           ELSE IF t.citer.n > 1 THEN a
           ELSE FinishMajor(IF b.ch[n].tcd.csr.esg
                            THEN edma_load_next_tcd(b, n) ELSE b, n), m)
  BY ZenonT(40), <1>1, SparedAssembled
<1>3. edma_minor_loop(st, n) =
           IF TcdError(t) # {} THEN Refuse(st, n)
           ELSE IF t.citer.n > 1 THEN a
           ELSE FinishMajor(IF b.ch[n].tcd.csr.esg
                            THEN edma_load_next_tcd(b, n) ELSE b, n)
  BY Zenon DEF edma_minor_loop, MinorLoopWith, MoreLoops, LastLoop, a, b
<1> QED BY ZenonT(40), <1>2, <1>3

\* What one step of the block owes channel m, the step formula of RefusedNeverCompletes.
Honest(m) ==
  TcdError(ch[m].tcd) # {} =>
    /\ ch'[m].done => ch[m].done
    /\ ch'[m].intr => ch[m].intr \/ ch[m].eei

\* A run of the engine that spares a channel is honest about it.
LEMMA SparedIsHonest ==
  ASSUME NEW m, NEW st, Spared([ch |-> ch, irq |-> irq], st, m), ch' = st.ch
  PROVE  Honest(m)
BY DEF Spared, Honest

\* A register write of the guest completes no refused transfer.
LEMMA GuestStepHonest ==
  ASSUME IInv, NEW n \in Channel, GuestStep(n), NEW m \in Channel
  PROVE  Honest(m)
<1>0. ch[n] \in Chan /\ ch[n].tcd \in Tcd /\ ch \in [Channel -> Chan]
  BY DEF IInv, TypeOK, Chan
<1>1. ASSUME NEW v \in ChCsrIn, WriteChCsr(n, v) PROVE Honest(m)
  <2> DEFINE c == [ch[n] EXCEPT !.erq = v.erq, !.eei = v.eei,
                                !.done = @ /\ ~v.done]
  <2>1. (c.done => ch[n].done) /\ c.intr = ch[n].intr
    BY <1>0 DEF Chan
  <2>2. ch' = [ch EXCEPT ![n] = c]
    BY ZenonT(40), <1>0, <1>1 DEF WriteChCsr
  <2> HIDE DEF c
  <2> QED BY <1>0, <2>1, <2>2 DEF Honest
<1>2. ASSUME NEW src \in Source \cup {0}, WriteChMux(n, src) PROVE Honest(m)
  BY <1>0, <1>2 DEF WriteChMux, Honest, Chan
<1>3. CASE WriteChInt(n)
  BY <1>0, <1>3 DEF WriteChInt, edma_update_irq, Honest, Chan
<1>4. ASSUME NEW bits \in {EsBit}, WriteChEs(n, bits) PROVE Honest(m)
  BY <1>0, <1>4 DEF WriteChEs, Honest, Chan
<1>5. CASE WriteTcd(n)
  <2>1. ASSUME NEW t, ch' = [ch EXCEPT ![n] = [ch[n] EXCEPT !.tcd = t]] PROVE Honest(m)
    BY <1>0, <2>1 DEF Honest, Chan
  <2>2. ASSUME NEW v, ch' = [ch EXCEPT ![n].tcd.citer = v] PROVE Honest(m)
    BY ZenonT(40), <1>0, <2>1, <2>2
  <2>3. ASSUME NEW v, ch' = [ch EXCEPT ![n].tcd.biter = v] PROVE Honest(m)
    BY ZenonT(40), <1>0, <2>1, <2>3
  <2>4. ASSUME NEW v, ch' = [ch EXCEPT ![n].tcd.err = v] PROVE Honest(m)
    BY ZenonT(40), <1>0, <2>1, <2>4
  <2>5. ASSUME NEW v, ch' = [ch EXCEPT ![n].tcd.adjErr = v] PROVE Honest(m)
    BY ZenonT(40), <1>0, <2>1, <2>5
  <2>6. ASSUME NEW v, ch' = [ch EXCEPT ![n].tcd.sga = v] PROVE Honest(m)
    BY ZenonT(40), <1>0, <2>1, <2>6
  <2> QED BY <1>5, <2>2, <2>3, <2>4, <2>5, <2>6 DEF WriteTcd
<1>6. ASSUME NEW v \in TcdCsrIn, WriteTcdCsr(n, v) PROVE Honest(m)
  <2> DEFINE st0 == [ch |-> [ch EXCEPT ![n].tcd.csr = v], irq |-> irq]
             s1 == ClearDone(st0, n)
             s2 == edma_minor_loop(s1, n)
             s3 == ClearStart(s2, n)
             t == [ch[n].tcd EXCEPT !.csr = v]
             d == [ch[n] EXCEPT !.tcd = t]
             e == [ch |-> ch, irq |-> irq]
  <2>1. t \in Tcd /\ t.err = ch[n].tcd.err /\ t.citer = ch[n].tcd.citer
    BY <1>0, ConstAssumption DEF Tcd
  <2>2. st0 = SetChan(e, n, [e.ch[n] EXCEPT !.tcd = t]) /\ st0.ch = [ch EXCEPT ![n] = d]
    BY <1>0 DEF SetChan
  <2>e. e \in Engine
    BY EngineState DEF IInv
  <2>3. TcdError(t) = TcdError(ch[n].tcd)
    BY <2>1 DEF TcdError
  <2> HIDE DEF t
  <2>4. d.tcd = t /\ d.eei = ch[n].eei /\ d.done = ch[n].done /\ d.intr = ch[n].intr
    BY <1>0 DEF Chan
  <2> HIDE DEF d, st0
  <2>5. Spared(e, st0, m)
    BY ZenonT(40), <1>0, <2>2, <2>3, <2>4 DEF Spared
  <2> HIDE DEF e
  <2>6. st0 \in Engine
    BY <2>1, <2>2, <2>e, KeepsTcd DEF Keeps
  <2>7. Spared(st0, s1, m) /\ s1 \in Engine
    BY <2>6, SparedClear, KeepsClearDone DEF Keeps
  <2> HIDE DEF s1
  <2>8. Spared(s1, s2, m) /\ s2 \in Engine
    BY <2>7, SparedMinorLoop, KeepsMinorLoop DEF Keeps
  <2> HIDE DEF s2
  <2>9. Spared(s2, s3, m)
    BY <2>8, SparedClear
  <2>10. edma_run(s1, n, edma_link_channel) = s3
    BY DEF edma_run, edma_minor_loop, s2
  <2> HIDE DEF s3
  <2>11. Spared(e, s3, m)
    BY <2>5, <2>7, <2>8, <2>9, SparedTrans
  <2>12. ch' = st0.ch \/ ch' = s3.ch
    BY <1>6, <2>10 DEF WriteTcdCsr, st0, s1
  <2> QED BY <2>5, <2>11, <2>12, SparedIsHonest DEF e
<1> QED BY <1>1, <1>2, <1>3, <1>4, <1>5, <1>6 DEF GuestStep

\* Every step of the block is honest about every channel whose TCD is refused.
LEMMA StepHonest ==
  ASSUME IInv, [Next]_vars, NEW m \in Channel
  PROVE  Honest(m)
<1>1. CASE ch' = ch
  BY <1>1 DEF Honest
<1>2. ASSUME NEW n \in Channel, GuestStep(n) PROVE Honest(m)
  BY <1>2, GuestStepHonest
<1>3. CASE BhServe
  <2> DEFINE n == bh.n
             e == [ch |-> ch, irq |-> irq]
             s1 == ClearDone(e, n)
             s2 == edma_minor_loop(s1, n)
  <2>1. n \in Channel
    BY <1>3, ConstAssumption DEF BhServe, IInv, TypeOK, BhType, Channel
  <2>2. e \in Engine
    BY EngineState DEF IInv
  <2>3. ch' = s2.ch
    BY Zenon, <1>3 DEF BhServe
  <2> HIDE DEF e, n
  <2>4. Spared(e, s1, m) /\ s1 \in Engine
    BY <2>1, <2>2, SparedClear, KeepsClearDone DEF Keeps
  <2> HIDE DEF s1
  <2>5. Spared(s1, s2, m)
    BY Zenon, <2>1, <2>4, SparedMinorLoop
  <2> HIDE DEF s2
  <2> QED BY <2>3, <2>4, <2>5, SparedTrans, SparedIsHonest DEF e
<1>4. CASE mcxn_edma_reset
  BY <1>4 DEF mcxn_edma_reset, Honest, ResetChan
<1>5. CASE PeripheralRequest \/ mcxn_edma_post_load
  BY ZenonT(40), <1>5, <1>1 DEF PeripheralRequest, mcxn_edma_post_load
<1>6. ASSUME NEW s \in Source, NEW level \in BOOLEAN, mcxn_edma_req_enable(s, level)
      PROVE  Honest(m)
  BY <1>6, <1>1 DEF mcxn_edma_req_enable
<1>7. CASE BhStart \/ BhSkip \/ BhNextPass \/ BhEnd
  BY <1>7, <1>1 DEF BhStart, BhSkip, BhNextPass, BhEnd
<1>8. CASE UNCHANGED vars
  BY <1>8, <1>1 DEF vars
<1> QED BY <1>2, <1>3, <1>4, <1>5, <1>6, <1>7, <1>8 DEF Next, LocalNext, BhStep

\* A TCD that edma_validate_tcd refuses is never reported complete, by software start,
\* hardware request or channel link: DONE does not rise and CH_INT rises for EEI only.
THEOREM RefusalIsHonest == Spec => RefusedNeverCompletes
<1>1. IInv /\ [Next]_vars =>
        [\A n \in Channel :
           TcdError(ch[n].tcd) # {} =>
             /\ ch'[n].done => ch[n].done
             /\ ch'[n].intr => ch[n].intr \/ ch[n].eei]_vars
  BY StepHonest DEF Honest
<1> QED BY <1>1, Invariant, PTL DEF Spec, RefusedNeverCompletes
=============================================================================

-------------------------------- MODULE EDMA --------------------------------
(***************************************************************************)
(* The enhanced DMA controller of hw/dma/mcxn_edma.c.                       *)
(*                                                                         *)
(* Kept: every register and latch that decides what the engine does next    *)
(* (CH_CSR, CH_ES, CH_INT, CH_MUX, the TCD's counters, links and CSR bits,  *)
(* the request latches, the bottom half) and the order in which one minor   *)
(* loop changes them.  Abstracted: the bytes a minor loop moves (module     *)
(* EDMATransfer) and the addresses it walks, of which only the verdict of   *)
(* the TCD validation is kept: the field err of a TCD is the set of CH_ES   *)
(* bits the validation would report, adjErr the misalignment that SLAST and *)
(* DLAST would introduce at the end of a major loop.                        *)
(*                                                                         *)
(* QEMU's big lock makes an MMIO write, a request call and the bottom half  *)
(* mutually exclusive.  The bottom half is a loop, so it is split into one  *)
(* step per channel visited; nothing else runs until it returns.            *)
(***************************************************************************)
EXTENDS Naturals, FiniteSets

CONSTANTS
  NChannels,    \* MCXN_EDMA_CHANNELS; channels are scanned in this order
  NSources,     \* request-mux sources 1..NSources (CH_MUX[SRC] = 0 selects none)
  PulseSource,  \* sources wired to req-pulse; the others drive the level input
  MaxLoops,     \* MCXN_EDMA_MAX_LOOPS, the backstop of the service loop
  MaxCount,     \* largest CITER/BITER count
  TcdMem,       \* guest memory that holds TCDs: pointer -> TCD
  BadPtr,       \* a DLAST_SGA that is null, misaligned or unreadable
  CiterIn, BiterIn, TcdCsrIn, ErrIn, AdjErrIn, SgaIn, ChCsrIn
                \* the values the guest writes to each register

Channel == 0 .. NChannels - 1
Source == 1 .. NSources

ErrBit == {"SGE", "NCE", "DOE", "DAE", "SOE", "SAE"}
EsBit == ErrBit \cup {"ERR"}

\* CITER and BITER: ELINK, LINKCH and the count left by the ELINK-aware mask.
Iter == [elink : BOOLEAN, link : Channel, n : 0 .. MaxCount]

\* TCD_CSR.
TcdCsr == [start : BOOLEAN, intmajor : BOOLEAN, dreq : BOOLEAN, esg : BOOLEAN,
           majorelink : BOOLEAN, majorlink : Channel]

Tcd == [citer : Iter, biter : Iter, csr : TcdCsr, err : SUBSET ErrBit,
        adjErr : SUBSET {"SAE", "DAE"}, sga : DOMAIN TcdMem \cup {BadPtr}]

Chan == [erq : BOOLEAN, eei : BOOLEAN, done : BOOLEAN, es : SUBSET EsBit,
         intr : BOOLEAN, mux : Source \cup {0}, tcd : Tcd]

ASSUME ConstAssumption ==
  /\ NChannels \in Nat \ {0}
  /\ NSources \in Nat
  /\ PulseSource \subseteq Source
  /\ MaxLoops \in Nat \ {0}
  /\ MaxCount \in Nat
  /\ BadPtr \notin DOMAIN TcdMem
  /\ TcdMem \in [DOMAIN TcdMem -> Tcd]
  /\ CiterIn \subseteq Iter /\ BiterIn \subseteq Iter
  /\ TcdCsrIn \subseteq TcdCsr
  /\ ErrIn \subseteq SUBSET ErrBit
  /\ AdjErrIn \subseteq SUBSET {"SAE", "DAE"}
  /\ SgaIn \subseteq DOMAIN TcdMem \cup {BadPtr}
  /\ ChCsrIn \subseteq [erq : BOOLEAN, eei : BOOLEAN, done : BOOLEAN]

VARIABLES
  ch,           \* MCXNEDMAState.ch
  irq,          \* level of each channel's line as the NVIC latched it
  reqLevel,     \* req_level
  reqEnabled,   \* req_enabled, the INPUTMUX gate
  reqEdge,      \* req_edge: the source has been driven through req-pulse
  bhScheduled,  \* the bottom half is scheduled
  bh            \* its position: running, next channel, progress, guard

vars == <<ch, irq, reqLevel, reqEnabled, reqEdge, bhScheduled, bh>>

BhType == [run : BOOLEAN, n : 0 .. NChannels, progress : BOOLEAN,
           guard : 0 .. MaxLoops - 1]

BhIdle == [run |-> FALSE, n |-> 0, progress |-> FALSE, guard |-> 0]

\* Types of all the state; a run checks it, the theorem TypeCorrect proves it.
TypeOK ==
  /\ ch \in [Channel -> Chan]
  /\ irq \in [Channel -> BOOLEAN]
  /\ reqLevel \in [Source -> BOOLEAN]
  /\ reqEnabled \in [Source -> BOOLEAN]
  /\ reqEdge \in [Source -> BOOLEAN]
  /\ bhScheduled \in BOOLEAN
  /\ bh \in BhType

-----------------------------------------------------------------------------
(* memset(0): no count, so the reset TCD fails validation with NCE. *)
ResetIter == [elink |-> FALSE, link |-> 0, n |-> 0]

ResetTcd ==
  [citer |-> ResetIter, biter |-> ResetIter,
   csr |-> [start |-> FALSE, intmajor |-> FALSE, dreq |-> FALSE,
            esg |-> FALSE, majorelink |-> FALSE, majorlink |-> 0],
   err |-> {"NCE"}, adjErr |-> {}, sga |-> BadPtr]

ResetChan ==
  [erq |-> FALSE, eei |-> FALSE, done |-> FALSE, es |-> {}, intr |-> FALSE,
   mux |-> 0, tcd |-> ResetTcd]

Init ==
  /\ ch = [n \in Channel |-> ResetChan]
  /\ irq = [n \in Channel |-> FALSE]
  /\ reqLevel = [s \in Source |-> FALSE]
  /\ reqEnabled = [s \in Source |-> TRUE]
  /\ reqEdge = [s \in Source |-> FALSE]
  /\ bhScheduled = FALSE
  /\ bh = BhIdle

-----------------------------------------------------------------------------
(***************************************************************************)
(* One minor loop, as a function of the pair [ch, irq] it changes.          *)
(***************************************************************************)

SetChan(st, n, c) == [ch |-> [st.ch EXCEPT ![n] = c], irq |-> st.irq]

edma_update_irq(st, n) ==
  [ch |-> st.ch, irq |-> [st.irq EXCEPT ![n] = st.ch[n].intr]]

\* Mutant: the completion sets CH_INT and forgets the line.
RaiseIntSilent(st, n) == SetChan(st, n, [st.ch[n] EXCEPT !.intr = TRUE])

RaiseInt(st, n) ==
  edma_update_irq(SetChan(st, n, [st.ch[n] EXCEPT !.intr = TRUE]), n)

\* What the validation at the head of edma_minor_loop reports.
TcdError(t) == IF t.citer.n = 0 THEN {"NCE"} ELSE t.err

\* Mutant: a refused TCD sets DONE.
RefuseDone(st, n) ==
  LET c == st.ch[n]
  IN  SetChan(st, n, [c EXCEPT !.es = @ \cup TcdError(c.tcd) \cup {"ERR"},
                               !.done = TRUE])

\* The TCD is refused: CH_ES, the EEI-gated interrupt, no data and no DONE.
Refuse(st, n) ==
  LET c == st.ch[n]
      s1 == SetChan(st, n, [c EXCEPT !.es = @ \cup TcdError(c.tcd) \cup {"ERR"}])
  IN  IF c.eei THEN RaiseInt(s1, n) ELSE s1

edma_load_next_tcd(st, n) ==
  LET c == st.ch[n]
  IN  SetChan(st, n, IF c.tcd.sga = BadPtr
                     THEN [c EXCEPT !.es = @ \cup {"SGE", "ERR"}]
                     ELSE [c EXCEPT !.tcd = TcdMem[c.tcd.sga]])

\* The tail of a major loop: DONE, then DREQ and INTMAJOR of the TCD that is
\* in the channel now (after scatter/gather, the one just loaded).
FinishMajor(st, n) ==
  LET c == st.ch[n]
      s1 == SetChan(st, n, [c EXCEPT !.done = TRUE,
                                     !.erq = @ /\ ~c.tcd.csr.dreq])
  IN  IF c.tcd.csr.intmajor THEN RaiseInt(s1, n) ELSE s1

\* One more minor loop done, the major loop goes on.
CountDown(t) == [t EXCEPT !.citer = [t.citer EXCEPT !.n = t.citer.n - 1]]

\* SLAST/DLAST applied (DLAST only without ESG) and CITER reloaded.
ReloadTcd(t) ==
  [t EXCEPT !.citer = t.biter,
            !.err = IF t.csr.esg THEN t.adjErr \ {"DAE"} ELSE t.adjErr]

\* edma_minor_loop, with what edma_link_channel does as a parameter.
MinorLoopWith(st, n, Link(_, _)) ==
  LET c == st.ch[n]
      t == c.tcd
      more == SetChan(st, n, [c EXCEPT !.tcd = CountDown(t)])
      last == SetChan(st, n, [c EXCEPT !.tcd = ReloadTcd(t)])
      linked == IF t.csr.majorelink THEN Link(last, t.csr.majorlink) ELSE last
      loaded == IF linked.ch[n].tcd.csr.esg
                THEN edma_load_next_tcd(linked, n) ELSE linked
  IN  IF TcdError(t) # {} THEN Refuse(st, n)
      ELSE IF t.citer.n > 1
      THEN IF t.citer.elink THEN Link(more, t.citer.link) ELSE more
      ELSE FinishMajor(loaded, n)

ClearDone(st, n) == SetChan(st, n, [st.ch[n] EXCEPT !.done = FALSE])

ClearStart(st, n) ==
  LET t == st.ch[n].tcd
      u == [t EXCEPT !.csr = [t.csr EXCEPT !.start = FALSE]]
  IN  SetChan(st, n, [st.ch[n] EXCEPT !.tcd = u])

\* edma_link_channel inside a link (in_link set): nothing.
NoLink(st, link) == st

edma_run(st, n, Link(_, _)) == ClearStart(MinorLoopWith(st, n, Link), n)

edma_link_channel(st, link) == edma_run(ClearDone(st, link), link, NoLink)

edma_minor_loop(st, n) == MinorLoopWith(st, n, edma_link_channel)

\* Some byte goes over the bus, so a peripheral may react.
MovesData(n) == TcdError(ch[n].tcd) = {}

-----------------------------------------------------------------------------
(***************************************************************************)
(* Request inputs.  Each yields the new latches and whether the bottom half *)
(* is scheduled.                                                            *)
(***************************************************************************)

mcxn_edma_req(s, level) ==
  [level |-> [reqLevel EXCEPT ![s] = level], edge |-> reqEdge, kick |-> level]

\* Only the asserting edge of a pulse carries meaning.
mcxn_edma_req_pulse(s, level) ==
  IF level
  THEN [level |-> [reqLevel EXCEPT ![s] = TRUE],
        edge |-> [reqEdge EXCEPT ![s] = TRUE], kick |-> TRUE]
  ELSE [level |-> reqLevel, edge |-> reqEdge, kick |-> FALSE]

NoRequest == [level |-> reqLevel, edge |-> reqEdge, kick |-> FALSE]

Requests ==
  {mcxn_edma_req(s, level) : s \in Source \ PulseSource, level \in BOOLEAN}
    \cup {mcxn_edma_req_pulse(s, level) : s \in PulseSource, level \in BOOLEAN}

\* What the peripherals behind the bus do to the request lines while a minor loop
\* moves data: any number of request calls from their register handlers.  A line
\* that ends up higher than it was, or pulsed, has scheduled the bottom half.
CallsDuringTransfer ==
  {r \in [level : [Source -> BOOLEAN], edge : [Source -> BOOLEAN], kick : BOOLEAN] :
     /\ \A s \in PulseSource :
          \/ r.level[s] = reqLevel[s] /\ r.edge[s] = reqEdge[s]
          \/ r.level[s] /\ r.edge[s] /\ r.kick
     /\ \A s \in Source \ PulseSource :
          r.edge[s] = reqEdge[s] /\ (r.level[s] => reqLevel[s] \/ r.kick)
     /\ r.kick => \E s \in Source :
                    s \notin PulseSource \/ (r.level[s] /\ r.edge[s])}

BusReactions(moved) == IF moved THEN CallsDuringTransfer ELSE {NoRequest}

Idle == ~bh.run

PeripheralRequest ==
  /\ Idle
  /\ \E r \in Requests :
       /\ reqLevel' = r.level
       /\ reqEdge' = r.edge
       /\ bhScheduled' = (bhScheduled \/ r.kick)
  /\ UNCHANGED <<ch, irq, reqEnabled, bh>>

\* Mutant: opening a gate does not look for a waiting request.
ReqEnableNoKick(s, level) ==
  /\ Idle
  /\ reqEnabled[s] # level
  /\ reqEnabled' = [reqEnabled EXCEPT ![s] = level]
  /\ UNCHANGED <<ch, irq, reqLevel, reqEdge, bhScheduled, bh>>

\* INPUTMUX opens or closes the gate of a source.
mcxn_edma_req_enable(s, level) ==
  /\ Idle
  /\ reqEnabled[s] # level
  /\ reqEnabled' = [reqEnabled EXCEPT ![s] = level]
  /\ bhScheduled' = (bhScheduled \/ (level /\ reqLevel[s]))
  /\ UNCHANGED <<ch, irq, reqLevel, reqEdge, bh>>

-----------------------------------------------------------------------------
(***************************************************************************)
(* Guest writes to a channel's registers (edma_write).                      *)
(***************************************************************************)

\* DONE is write-one-to-clear, the rest is stored.  Nothing is scheduled.
WriteChCsr(n, v) ==
  /\ Idle
  /\ ch' = [ch EXCEPT ![n].erq = v.erq, ![n].eei = v.eei,
                      ![n].done = @ /\ ~v.done]
  /\ UNCHANGED <<irq, reqLevel, reqEnabled, reqEdge, bhScheduled, bh>>

WriteChMux(n, src) ==
  /\ Idle
  /\ ch' = [ch EXCEPT ![n].mux = src]
  /\ UNCHANGED <<irq, reqLevel, reqEnabled, reqEdge, bhScheduled, bh>>

\* CH_INT is write-one-to-clear and re-drives the line.
WriteChInt(n) ==
  /\ Idle
  /\ LET st == edma_update_irq([ch |-> [ch EXCEPT ![n].intr = FALSE],
                                irq |-> irq], n)
     IN  ch' = st.ch /\ irq' = st.irq
  /\ UNCHANGED <<reqLevel, reqEnabled, reqEdge, bhScheduled, bh>>

WriteChEs(n, bits) ==
  /\ Idle
  /\ ch' = [ch EXCEPT ![n].es = @ \ bits]
  /\ UNCHANGED <<irq, reqLevel, reqEnabled, reqEdge, bhScheduled, bh>>

\* The TCD registers other than TCD_CSR only store.
WriteTcd(n) ==
  /\ Idle
  /\ \/ \E v \in CiterIn : ch' = [ch EXCEPT ![n].tcd.citer = v]
     \/ \E v \in BiterIn : ch' = [ch EXCEPT ![n].tcd.biter = v]
     \/ \E v \in ErrIn : ch' = [ch EXCEPT ![n].tcd.err = v]
     \/ \E v \in AdjErrIn : ch' = [ch EXCEPT ![n].tcd.adjErr = v]
     \/ \E v \in SgaIn : ch' = [ch EXCEPT ![n].tcd.sga = v]
  /\ UNCHANGED <<irq, reqLevel, reqEnabled, reqEdge, bhScheduled, bh>>

\* Without START the value is stored; with START one minor loop runs at once.
WriteTcdCsr(n, v) ==
  /\ Idle
  /\ LET st0 == [ch |-> [ch EXCEPT ![n].tcd.csr = v], irq |-> irq]
         st == IF v.start
               THEN edma_run(ClearDone(st0, n), n, edma_link_channel) ELSE st0
     IN  ch' = st.ch /\ irq' = st.irq
  /\ \E r \in BusReactions(v.start /\ MovesData(n)) :
       /\ reqLevel' = r.level
       /\ reqEdge' = r.edge
       /\ bhScheduled' = (bhScheduled \/ r.kick)
  /\ UNCHANGED <<reqEnabled, bh>>

-----------------------------------------------------------------------------
(***************************************************************************)
(* mcxn_edma_service_bh.                                                    *)
(***************************************************************************)

\* The channel has a hardware request that the bottom half would serve.
Eligible(n) ==
  /\ ch[n].erq
  /\ ch[n].mux # 0
  /\ reqLevel[ch[n].mux]
  /\ reqEnabled[ch[n].mux]

\* Mutant: the scan starts at channel 1.
BhStartFromOne ==
  /\ Idle
  /\ bhScheduled
  /\ bhScheduled' = FALSE
  /\ bh' = [BhIdle EXCEPT !.run = TRUE, !.n = 1]
  /\ UNCHANGED <<ch, irq, reqLevel, reqEnabled, reqEdge>>

BhStart ==
  /\ Idle
  /\ bhScheduled
  /\ bhScheduled' = FALSE
  /\ bh' = [BhIdle EXCEPT !.run = TRUE]
  /\ UNCHANGED <<ch, irq, reqLevel, reqEnabled, reqEdge>>

BhSkip ==
  /\ bh.run
  /\ bh.n < NChannels
  /\ ~Eligible(bh.n)
  /\ bh' = [bh EXCEPT !.n = @ + 1]
  /\ UNCHANGED <<ch, irq, reqLevel, reqEnabled, reqEdge, bhScheduled>>

\* One minor loop; an edge source is acknowledged after it.
BhServe ==
  /\ bh.run
  /\ bh.n < NChannels
  /\ Eligible(bh.n)
  /\ LET n == bh.n
         src == ch[n].mux
         st == edma_minor_loop(ClearDone([ch |-> ch, irq |-> irq], n), n)
     IN  /\ ch' = st.ch
         /\ irq' = st.irq
         /\ \E r \in BusReactions(MovesData(n)) :
              /\ reqLevel' = [r.level EXCEPT ![src] = @ /\ ~r.edge[src]]
              /\ reqEdge' = r.edge
              /\ bhScheduled' = (bhScheduled \/ r.kick)
         /\ bh' = [bh EXCEPT !.n = @ + 1, !.progress = TRUE]
  /\ UNCHANGED reqEnabled

\* while (progress && ++guard < MCXN_EDMA_MAX_LOOPS)
Again == bh.progress /\ bh.guard + 1 < MaxLoops

\* Mutant: the backstop is never counted.
BhNextPassNoCount ==
  /\ bh.run
  /\ bh.n = NChannels
  /\ Again
  /\ bh' = [bh EXCEPT !.n = 0, !.progress = FALSE]
  /\ UNCHANGED <<ch, irq, reqLevel, reqEnabled, reqEdge, bhScheduled>>

BhNextPass ==
  /\ bh.run
  /\ bh.n = NChannels
  /\ Again
  /\ bh' = [bh EXCEPT !.n = 0, !.progress = FALSE, !.guard = @ + 1]
  /\ UNCHANGED <<ch, irq, reqLevel, reqEnabled, reqEdge, bhScheduled>>

\* Mutant: an unconsumed pulse stays latched.
BhEndKeepsPulse ==
  /\ bh.run
  /\ bh.n = NChannels
  /\ ~Again
  /\ bh' = BhIdle
  /\ UNCHANGED <<ch, irq, reqLevel, reqEnabled, reqEdge, bhScheduled>>

\* The loop ends; every pulse still standing is dropped.
BhEnd ==
  /\ bh.run
  /\ bh.n = NChannels
  /\ ~Again
  /\ reqLevel' = [s \in Source |-> reqLevel[s] /\ ~reqEdge[s]]
  /\ bh' = BhIdle
  /\ UNCHANGED <<ch, irq, reqEnabled, reqEdge, bhScheduled>>

BhStep == BhStart \/ BhSkip \/ BhServe \/ BhNextPass \/ BhEnd

-----------------------------------------------------------------------------
(***************************************************************************)
(* System reset and migration.                                              *)
(***************************************************************************)

\* mcxn_edma_reset with the NVIC's own reset, which clears its latches.  A
\* bottom half that is already scheduled stays scheduled.
mcxn_edma_reset ==
  /\ Idle
  /\ ch' = [n \in Channel |-> ResetChan]
  /\ irq' = [n \in Channel |-> FALSE]
  /\ reqLevel' = [s \in Source |-> FALSE]
  /\ reqEnabled' = [s \in Source |-> TRUE]
  /\ reqEdge' = [s \in Source |-> FALSE]
  /\ UNCHANGED <<bhScheduled, bh>>

\* Save, load in a fresh machine and run mcxn_edma_post_load: the registers and
\* the three request arrays travel, the scheduled bottom half does not.
mcxn_edma_post_load ==
  /\ Idle
  /\ irq' = [n \in Channel |-> ch[n].intr]
  /\ bhScheduled' = (\E s \in Source : reqLevel[s] /\ reqEnabled[s])
  /\ UNCHANGED <<ch, reqLevel, reqEnabled, reqEdge, bh>>

GuestStep(n) ==
  \/ \E v \in ChCsrIn : WriteChCsr(n, v)
  \/ \E src \in Source \cup {0} : WriteChMux(n, src)
  \/ WriteChInt(n)
  \/ \E bits \in {EsBit} : WriteChEs(n, bits)
  \/ WriteTcd(n)
  \/ \E v \in TcdCsrIn : WriteTcdCsr(n, v)

\* Everything but migration.
LocalNext ==
  \/ \E n \in Channel : GuestStep(n)
  \/ PeripheralRequest
  \/ \E s \in Source, level \in BOOLEAN : mcxn_edma_req_enable(s, level)
  \/ BhStep
  \/ mcxn_edma_reset

Next == LocalNext \/ mcxn_edma_post_load

\* The main loop runs a scheduled bottom half and lets it finish; nothing
\* obliges the guest, the peripherals or the operator to do anything.
Fairness == WF_vars(BhStep)

Spec == Init /\ [][Next]_vars

\* One machine from power-on, never migrated.
LocalSpec == Init /\ [][LocalNext]_vars

FairSpec == Spec /\ Fairness

-----------------------------------------------------------------------------
(***************************************************************************)
(* Properties.                                                              *)
(***************************************************************************)

\* The interrupt line of every channel is what its CH_INT says, in every state:
\* after a completion, an error, a W1C, a linked channel's completion, a reset
\* and a migration (edma_update_irq is called at every change of intr).
IrqFollowsInt == \A n \in Channel : irq[n] = ch[n].intr

\* A request is waiting for a channel that is armed for it, and no bottom half
\* is on its way to serve it.
Stalled(n) == Idle /\ ~bhScheduled /\ Eligible(n)

\* The backstop MCXN_EDMA_MAX_LOOPS ends the service loop.
GuardTrips == bh.run /\ bh.n = NChannels /\ bh.progress /\ ~Again

\* A request is never dropped on the floor by the engine: the only steps that
\* leave an armed channel with an asserted, open request and no bottom half are
\* the guest arming the channel late (a write of CH_CSR or CH_MUX, which
\* schedules nothing) and the backstop of the service loop.  Opening a gate, a
\* request, a link, the end of a service pass, reset and migration never do.
OnlyLateArmingStalls ==
  [][\A n \in Channel :
       ~Stalled(n) /\ Stalled(n)' =>
         \/ GuardTrips
         \/ ch'[n].erq /\ ~ch[n].erq
         \/ ch'[n].mux # ch[n].mux]_vars

\* A pulse is one-shot: once no bottom half is pending, no latched level is left
\* on a pulse source, so a channel armed later never sees an old match.
PulseEvaporates ==
  Idle /\ ~bhScheduled => \A s \in Source : ~(reqEdge[s] /\ reqLevel[s])

\* A TCD that fails validation reports no completion: DONE does not rise, and
\* the channel interrupt rises only if CH_CSR[EEI] asked for error interrupts.
RefusedNeverCompletes ==
  [][\A n \in Channel :
       TcdError(ch[n].tcd) # {} =>
         /\ ch'[n].done => ch[n].done
         /\ ch'[n].intr => ch[n].intr \/ ch[n].eei]_vars

\* The service loop ends, whatever the peripherals do to their request lines and
\* even when a refused TCD keeps its level request up for ever.
BhTerminates == bh.run ~> ~bh.run

\* A request that scheduled the bottom half is served: the loop reaches the
\* channel while it is still eligible, unless it stops being eligible first.
ScheduledIsServed ==
  \A n \in Channel :
    (Eligible(n) /\ bhScheduled) ~> (Eligible(n) => bh.run /\ bh.n = n)

-----------------------------------------------------------------------------
\* Readings of the code's comments that the code does not meet.

\* "A channel consumes it when CH_MUX[SRC] selects that source and CH_CSR[ERQ]
\* enables the hardware request" (mcxn_edma.c:750): without the condition that
\* the bottom half is scheduled.
EligibleIsServed ==
  \A n \in Channel : Eligible(n) ~> (Eligible(n) => bh.run /\ bh.n = n)

=============================================================================

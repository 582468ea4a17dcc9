------------------------------ MODULE DacStream ------------------------------
(***************************************************************************)
(* A waveform streamed by DMA and paced by a timer: CTIMER0, INPUTMUX, DAC0   *)
(* and eDMA channel 0 joined by the wires of hw/arm/mcxn_soc.c and by the     *)
(* bus, under the drivers of tests/mcxn-dac-dma and tests/mcxn-dac-hwtrig     *)
(* taken together.                                                           *)
(*                                                                         *)
(* The trigger: a match of CTIMER0 channel 3 pulses INPUTMUX source 5, which  *)
(* DAC0_TRIG routes to the DAC, which pops a sample, all inside the host      *)
(* timer's callback.  The request: the DAC publishes a change, the eDMA       *)
(* latches it and, when it rises, schedules its bottom half.  The bus: a      *)
(* minor loop reads the next word of the buffer and writes it to DATA.  The   *)
(* buffer holds the words 1 .. N; with TCD_CSR[DREQ] it is played once,       *)
(* without it in a ring.  Beyond the tests, INTMAJOR is set, DER, watermark   *)
(* and period take any value, and the driver may close the INPUTMUX gate of   *)
(* the request for a while.                                                  *)
(*                                                                         *)
(* The main loop (util/main-loop.c) polls with the lock released, when the    *)
(* guest runs; then it dispatches the bottom halves, then the timers that     *)
(* are due.  With -icount, which the tests use, the virtual clock's timers    *)
(* are run by the vCPU thread instead, between two pieces of guest code.      *)
(***************************************************************************)
EXTENDS Integers, Sequences

CONSTANTS N, Depth, MaxLoops,
          Wrap, Period,   \* CTIMER0: the counter's range, the values of MR3
          MaxLate,        \* how late a host timer may run
          MaxPause,       \* how often the driver closes the gate
          None

\* The backstop of the service loop, 0x100000 passes, outlasts a full FIFO.
ASSUME StreamAssumption ==
  /\ N \in Nat \ {0}
  /\ Depth \in Nat \ {0}
  /\ MaxLoops \in Nat /\ MaxLoops >= Depth

Citer == [elink |-> FALSE, link |-> 0, n |-> N]
Csr(dreq) == [start |-> FALSE, intmajor |-> TRUE, dreq |-> dreq, esg |-> FALSE,
              majorelink |-> FALSE, majorlink |-> 0]

VARIABLES
  ch, eirq, reqLevel, reqEnabled, reqEdge, bhScheduled, bh,        \* eDMA
  gcr, wml, ier, der, latched, fifo, wptr, rptr, count, out, dirq,
  dma_req_level,                                                   \* DAC
  ct,                                                              \* CTIMER0
  sel, gate,                                                       \* INPUTMUX
  next,    \* the word of the buffer SADDR points at
  step,    \* the driver's position
  pauses,  \* how often it closed the gate since the reset
  loop,    \* what the main loop is doing
  icount   \* the virtual clock counts instructions

E == INSTANCE EDMA WITH
       irq <- eirq, NChannels <- 1, NSources <- 1, PulseSource <- {},
       MaxCount <- N, TcdMem <- << >>, BadPtr <- "bad",
       CiterIn <- {Citer}, BiterIn <- {Citer}, ErrIn <- {{}}, AdjErrIn <- {{}},
       SgaIn <- {"bad"}, TcdCsrIn <- {Csr(dreq) : dreq \in BOOLEAN},
       ChCsrIn <- {[erq |-> TRUE, eei |-> FALSE, done |-> FALSE]}

D == INSTANCE DAC WITH
       irq <- dirq, reqLine <- reqLevel[1],
       Sample <- 1 .. N, NoSample <- 0, IerIn <- {{}}

C == INSTANCE CTimer WITH s <- ct, Match <- {3}, NsPerSec <- 1

Dac0 == <<"dac", 0>>
I == INSTANCE InputMux WITH Dest <- {Dac0}, Request <- {1}

edma == <<ch, eirq, reqLevel, reqEnabled, reqEdge, bhScheduled, bh>>
dac == <<gcr, wml, ier, der, latched, fifo, wptr, rptr, count, out, dirq,
         dma_req_level>>
mux == <<sel, gate>>
driver == <<step, pauses>>
vars == <<edma, dac, ct, mux, next, driver, loop, icount>>

Init ==
  /\ E!Init /\ D!Init /\ C!Init /\ I!Init
  /\ next = 1
  /\ step = "fcr" /\ pauses = 0
  /\ loop = "poll"
  /\ icount \in BOOLEAN

-----------------------------------------------------------------------------
\* A published change reaches mcxn_edma_req, which may schedule the bottom half.
Wire ==
  bhScheduled' = (bhScheduled \/ (/\ dma_req_level' # dma_req_level
                                  /\ E!mcxn_edma_req(1, dma_req_level').kick))

\* A DAC handler run by the guest or by a trigger, with what it does to the wire.
DacHandler(A) ==
  /\ E!Idle
  /\ reqLevel' \in [{1} -> BOOLEAN]   \* A says which
  /\ A
  /\ Wire
  /\ UNCHANGED <<ch, eirq, reqEnabled, reqEdge, bh>>

After(w) == IF w = N THEN 1 ELSE w + 1   \* SADDR += SOFF, SLAST at the end

\* A service step that moves a word: one DATA write, in the middle of the loop.
Serve ==
  /\ E!BhServe
  /\ IF E!MovesData(0)
     THEN D!dac_push(next) /\ Wire /\ next' = After(next)
     ELSE UNCHANGED <<dac, next>>

\* INPUTMUX source 5 fired.
Route ==
  IF Dac0 \in I!mcxn_inputmux_trigger(5)
  THEN DacHandler(D!dac_hw_trigger)
  ELSE UNCHANGED <<edma, dac>>

Due == C!Armed /\ ct.due <= 0

\* CTIMER0's callback, down to what the DAC does with the pulse it may send.
Tick ==
  /\ C!ctimer_tick
  /\ IF 3 \in ct'.pulse THEN Route ELSE UNCHANGED <<edma, dac>>
  /\ UNCHANGED <<mux, next, driver>>

-----------------------------------------------------------------------------
\* Mutant: the timers are run before the bottom halves.
TimersFirst == loop = "poll" \/ loop = "timers"

\* An iteration of the main loop runs the timers after the bottom halves, if any.
\* One that finds nothing to do is not a step.
BhsDone == loop = "timers" \/ (loop = "poll" /\ ~bhScheduled)

BottomHalf ==
  \/ loop = "poll" /\ E!BhStart /\ UNCHANGED <<dac, next>>
  \/ /\ loop = "bh"
     /\ Serve \/ ((E!BhSkip \/ E!BhNextPass \/ E!BhEnd) /\ UNCHANGED <<dac, next>>)

\* A callback arms its timer for later than the time the list is run for.
RunTimers ==
  /\ ~icount /\ BhsDone
  /\ loop' = "poll"
  /\ Tick
  /\ UNCHANGED icount

NothingDue ==
  /\ loop = "timers" /\ (icount \/ ~Due)
  /\ loop' = "poll"
  /\ UNCHANGED <<edma, dac, next>>

MainLoop ==
  /\ \/ BottomHalf /\ loop' = IF bh'.run THEN "bh" ELSE "timers"
     \/ NothingDue
  /\ UNCHANGED <<ct, mux, driver, icount>>

icount_handle_deadline ==
  /\ icount /\ loop = "poll"
  /\ Tick
  /\ UNCHANGED <<loop, icount>>

TimePasses ==
  /\ C!Armed /\ ct.due > -MaxLate
  /\ C!Pass
  /\ UNCHANGED <<edma, dac, mux, next, driver, loop, icount>>

-----------------------------------------------------------------------------
GoTo(s, t) == step = s /\ step' = t /\ UNCHANGED pauses

Dac(A) == DacHandler(A) /\ UNCHANGED <<ct, mux>>

Edma(A) == A /\ UNCHANGED <<dac, ct, mux>>

Tcd(tcd) == Edma(E!WriteTcd(0) /\ ch'[0].tcd = tcd)

Ctimer(A) == A /\ UNCHANGED <<edma, dac, mux>>

\* The driver: DAC, then TCD, mux and ERQ, the DMA request enable, the timer last.
Setup ==
  \/ GoTo("fcr", "gcr") /\ \E w \in 0 .. Depth - 1 : Dac(D!WriteFcr(w))
  \/ /\ GoTo("gcr", "fsr")
     /\ Dac(D!WriteGcr([dacen |-> TRUE, fifoen |-> TRUE, trgsel |-> FALSE]))
  \/ GoTo("fsr", "addr") /\ Dac(D!WriteFsr({"UF"}))
  \/ GoTo("addr", "citer") /\ Tcd([ch[0].tcd EXCEPT !.err = {}])
  \/ GoTo("citer", "biter") /\ Tcd([ch[0].tcd EXCEPT !.citer = Citer])
  \/ GoTo("biter", "csr") /\ Tcd([ch[0].tcd EXCEPT !.biter = Citer])
  \/ GoTo("csr", "mux") /\ \E dreq \in BOOLEAN : Edma(E!WriteTcdCsr(0, Csr(dreq)))
  \/ GoTo("mux", "erq") /\ Edma(E!WriteChMux(0, 1))
  \/ /\ GoTo("erq", "der")
     /\ Edma(E!WriteChCsr(0, [erq |-> TRUE, eei |-> FALSE, done |-> FALSE]))
  \/ GoTo("der", "trig") /\ \E v \in (SUBSET {"WM", "EMPTY"}) \ {{}} : Dac(D!WriteDer(v))
  \/ GoTo("trig", "clk") /\ I!WriteSel(Dac0, 5) /\ UNCHANGED <<edma, dac, ct>>
  \/ GoTo("clk", "mr") /\ Ctimer(C!SelectClock(1))
  \/ GoTo("mr", "mcr") /\ \E p \in Period : Ctimer(C!WriteMr(3, p))
  \/ GoTo("mcr", "tcr") /\ Ctimer(C!WriteMcr([n \in {3} |-> {"RST"}]))
  \/ GoTo("tcr", "run") /\ Ctimer(C!WriteTcr(TRUE, FALSE))

\* A write to the request's gate, which the eDMA hears of.
Gate(alias) ==
  /\ step = "run" /\ UNCHANGED step
  /\ I!WriteReqEnable(alias, {1})
  /\ E!mcxn_edma_req_enable(1, gate'[1])
  /\ UNCHANGED <<dac, ct>>

Pause ==
  /\ gate[1] /\ pauses < MaxPause /\ pauses' = pauses + 1
  /\ Gate("CLR") \/ Gate("TOG")

Resume == ~gate[1] /\ UNCHANGED pauses /\ (Gate("SET") \/ Gate("TOG"))

Guest(A) == loop = "poll" /\ A /\ UNCHANGED <<next, loop, icount>>

SystemReset ==
  /\ loop = "poll"
  /\ E!mcxn_edma_reset
  /\ D!mcxn_dac_reset
  /\ C!mcxn_ctimer_reset
  /\ I!mcxn_inputmux_reset
  /\ next' = 1
  /\ step' = "fcr" /\ pauses' = 0
  /\ UNCHANGED <<loop, icount>>

\* The devices are saved and loaded, the eDMA before the DAC.
Migrate ==
  /\ loop = "poll"
  /\ E!mcxn_edma_post_load
  /\ D!mcxn_dac_post_load
  /\ C!mcxn_ctimer_post_load
  /\ UNCHANGED <<mux, next, driver, loop, icount>>

Next ==
  \/ Guest(Setup) \/ Guest(Pause) \/ Guest(Resume)
  \/ MainLoop \/ RunTimers \/ icount_handle_deadline \/ TimePasses
  \/ SystemReset \/ Migrate

\* The main loop goes round, time passes, with -icount the vCPU thread runs what is
\* due, and a driver that closed the gate opens it again.
Fairness ==
  /\ WF_vars(MainLoop \/ RunTimers)
  /\ WF_vars(Guest(Resume))
  /\ WF_vars(TimePasses)
  /\ WF_vars(icount_handle_deadline)

Spec == Init /\ [][Next]_vars
FairSpec == Spec /\ Fairness

-----------------------------------------------------------------------------
\* The waveform is "BYTE-EXACT and IN ORDER" (tests/mcxn-dac-dma/main.c:25): the
\* word on the pin, the words in the FIFO and the word SADDR points at are
\* consecutive, so none was lost, repeated or swapped between memory and pin.
StreamInOrder ==
  LET w == (IF out = 0 THEN << >> ELSE <<out>>) \o D!Waiting \o <<next>>
  IN  \A i \in 1 .. Len(w) - 1 : w[i + 1] = After(w[i])

\* The DMA never writes a full FIFO: a request always leaves room for the sample it
\* brings, whatever the watermark.
NoOverflow == "OF" \notin latched

\* A request is never forgotten: while the FIFO asks, the gate is open and the channel
\* listens, the bottom half is pending or running.
AskedIsPending ==
  step = "run" /\ D!DmaWanted /\ gate[1] /\ ch[0].erq => bhScheduled \/ bh.run

\* The waveform has no gap: a match underflows the FIFO only when the buffer is
\* finished or the gate is closed.  What the eDMA was asked for at one match it brings
\* before the next, however late the callbacks and whatever the watermark, because an
\* iteration of the main loop runs the bottom halves before the timers.  With -icount
\* nothing orders the two.
NoGap ==
  [][~icount /\ ch[0].erq /\ gate[1] /\ "UF" \notin latched => "UF" \notin latched']_vars

\* A buffer played once is played to the end and interrupts, unless a reset stops it.
Played ==
  (step = "run" /\ ch[0].tcd.csr.dreq) ~> (eirq[0] \/ step # "run")
=============================================================================

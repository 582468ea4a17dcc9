--------------------------------- MODULE SAI ---------------------------------
(***************************************************************************)
(* The serial audio interface of hw/misc/mcxn_sai.c: a transmit and a       *)
(* receive FIFO, a word timer that drains the one into the other when the   *)
(* board's loopback jumper is fitted, an interrupt and two eDMA requests.   *)
(*                                                                         *)
(* The guest numbers the words it sends, so that their order can be seen.   *)
(* line[d] is the level the eDMA has latched, req[d] the device's copy of   *)
(* it (tx_dma_req, rx_dma_req).  TCSR[FWF] equals TCSR[FRF] and is left out; *)
(* SEF and WSF are never set by the code.                                   *)
(***************************************************************************)
EXTENDS Naturals, Sequences, FiniteSets

CONSTANTS
  Depth,      \* MCXN_SAI_FIFO_DEPTH
  MaxWords,   \* bound: words the guest sends
  Loopback,   \* the "loopback" property
  IeIn        \* the interrupt enables the guest writes

Dir == {"tx", "rx"}
Flag == {"FRF", "FEF"}
Csr == [en : BOOLEAN, frde : BOOLEAN, ie : SUBSET Flag, fef : BOOLEAN]

VARIABLES
  csr,    \* TCSR, RCSR
  wm,     \* TCR1[TFW], RCR1[RFW]
  bclk,   \* there is a bit clock: TCR2[BCD] and a running MCLK
  fifo,   \* tx_fifo, rx_fifo
  armed,  \* word_timer is pending
  sent,   \* words written to TDR so far
  irq, req, line

vars == <<csr, wm, bclk, fifo, armed, sent, irq, req, line>>

ResetCsr == [en |-> FALSE, frde |-> FALSE, ie |-> {}, fef |-> FALSE]

Init ==
  /\ csr = [d \in Dir |-> ResetCsr]
  /\ wm = [d \in Dir |-> 0]
  /\ bclk = FALSE
  /\ fifo = [d \in Dir |-> << >>]
  /\ armed = FALSE
  /\ sent = 0
  /\ irq = FALSE
  /\ req = [d \in Dir |-> FALSE]
  /\ line = [d \in Dir |-> FALSE]

-----------------------------------------------------------------------------
\* Room at or below the transmit watermark, data above the receive watermark.
FifoRequest(d) ==
  IF d = "tx" THEN Len(fifo[d]) <= wm[d] ELSE Len(fifo[d]) > wm[d]

\* sai_tcsr_flags, sai_rcsr_flags
Flags(d) ==
  (IF FifoRequest(d) THEN {"FRF"} ELSE {})
    \cup (IF csr[d].fef THEN {"FEF"} ELSE {})

IrqWanted == \E d \in Dir : (Flags(d) \cap csr[d].ie) # {}

DmaWanted(d) == FifoRequest(d) /\ csr[d].frde

\* Evaluated on what the handler leaves behind; only changes are published.
mcxn_sai_update_irq ==
  /\ irq' = IrqWanted'
  /\ req' = [d \in Dir |-> DmaWanted(d)']
  /\ line' = [d \in Dir |-> IF DmaWanted(d)' # req[d] THEN DmaWanted(d)' ELSE line[d]]

\* Mutant: the word is taken from the wrong end of the FIFO.
WordTickNewest ==
  /\ armed
  /\ csr["tx"].en
  /\ fifo["tx"] # << >>
  /\ fifo' = [fifo EXCEPT
       !["tx"] = SubSeq(@, 1, Len(@) - 1),
       !["rx"] = IF Loopback /\ csr["rx"].en /\ Len(@) < Depth
                 THEN Append(@, fifo["tx"][Len(fifo["tx"])]) ELSE @]
  /\ armed' = bclk
  /\ UNCHANGED <<csr, wm, bclk, sent>>
  /\ mcxn_sai_update_irq

\* Mutant: the timer is re-armed only after a word was sent.
WordTickStopsOnUnderrun ==
  /\ armed
  /\ csr["tx"].en
  /\ csr' = IF fifo["tx"] = << >> THEN [csr EXCEPT !["tx"].fef = TRUE] ELSE csr
  /\ fifo' = IF fifo["tx"] = << >> THEN fifo ELSE [fifo EXCEPT !["tx"] = Tail(@)]
  /\ armed' = (bclk /\ fifo["tx"] # << >>)
  /\ UNCHANGED <<wm, bclk, sent>>
  /\ mcxn_sai_update_irq

\* The word timer fires: a word leaves, or the FIFO underruns; with the jumper it
\* comes back in, or the receive FIFO overruns.  Re-armed while there is a clock.
mcxn_sai_word_tick ==
  /\ armed
  /\ csr["tx"].en
  /\ LET back == fifo["tx"] # << >> /\ Loopback /\ csr["rx"].en
         room == Len(fifo["rx"]) < Depth
     IN  /\ csr' = [csr EXCEPT !["tx"].fef = @ \/ fifo["tx"] = << >>,
                               !["rx"].fef = @ \/ (back /\ ~room)]
         /\ fifo' = [fifo EXCEPT
              !["tx"] = IF @ = << >> THEN @ ELSE Tail(@),
              !["rx"] = IF back /\ room THEN Append(@, Head(fifo["tx"])) ELSE @]
  /\ armed' = bclk
  /\ UNCHANGED <<wm, bclk, sent>>
  /\ mcxn_sai_update_irq

\* TCSR and RCSR.  FEF is write-one-to-clear; a FIFO reset empties the FIFO, and
\* its own clearing of FEF is overwritten by the store that follows it.  TE
\* rising starts the word timer if there is a bit clock, TE falling stops it.
WriteCsr(d, v, clearFef, fifoReset) ==
  /\ csr' = [csr EXCEPT ![d] = [en |-> v.en, frde |-> v.frde, ie |-> v.ie,
                                fef |-> @.fef /\ ~clearFef]]
  /\ fifo' = [fifo EXCEPT ![d] = IF fifoReset THEN << >> ELSE @]
  /\ armed' = IF d = "tx" /\ v.en # csr[d].en THEN v.en /\ bclk ELSE armed
  /\ UNCHANGED <<wm, bclk, sent>>
  /\ mcxn_sai_update_irq

WriteTdr ==
  /\ sent < MaxWords
  /\ sent' = sent + 1
  /\ IF Len(fifo["tx"]) >= Depth
     THEN csr' = [csr EXCEPT !["tx"].fef = TRUE] /\ UNCHANGED fifo
     ELSE fifo' = [fifo EXCEPT !["tx"] = Append(@, sent + 1)] /\ UNCHANGED csr
  /\ UNCHANGED <<wm, bclk, armed>>
  /\ mcxn_sai_update_irq

ReadRdr ==
  /\ IF fifo["rx"] = << >>
     THEN csr' = [csr EXCEPT !["rx"].fef = TRUE] /\ UNCHANGED fifo
     ELSE fifo' = [fifo EXCEPT !["rx"] = Tail(@)] /\ UNCHANGED csr
  /\ UNCHANGED <<wm, bclk, armed, sent>>
  /\ mcxn_sai_update_irq

\* TCR1 and RCR1 are plain stores: nothing is re-evaluated.
WriteWatermark(d, n) ==
  /\ wm' = [wm EXCEPT ![d] = n]
  /\ UNCHANGED <<csr, bclk, fifo, armed, sent, irq, req, line>>

\* TCR2 is a plain store and the MCLK changes without a callback: the word timer
\* is neither started nor stopped.
SetBitClock(on) ==
  /\ bclk' = on
  /\ UNCHANGED <<csr, wm, fifo, armed, sent, irq, req, line>>

\* System reset: req is left alone; the NVIC's and the eDMA's resets clear irq
\* and line.
mcxn_sai_reset ==
  /\ csr' = [d \in Dir |-> ResetCsr]
  /\ wm' = [d \in Dir |-> 0]
  /\ bclk' = FALSE
  /\ fifo' = [d \in Dir |-> << >>]
  /\ armed' = FALSE
  /\ irq' = FALSE
  /\ line' = [d \in Dir |-> FALSE]
  /\ UNCHANGED <<sent, req>>

\* Migration: only regs are saved, so the FIFOs, the timer and req start afresh.
\* The eDMA, realized earlier by the SoC, is loaded earlier: its saved latch is in
\* place when update_irq publishes what differs from the fresh req.
mcxn_sai_post_load ==
  /\ fifo' = [d \in Dir |-> << >>]
  /\ armed' = FALSE
  /\ UNCHANGED <<csr, wm, bclk, sent>>
  /\ irq' = IrqWanted'
  /\ req' = [d \in Dir |-> DmaWanted(d)']
  /\ line' = [d \in Dir |-> line[d] \/ DmaWanted(d)']

-----------------------------------------------------------------------------
CsrIn == [en : BOOLEAN, frde : BOOLEAN, ie : IeIn]

\* Register accesses of the guest other than the two plain stores.
GuestAccess ==
  \/ \E d \in Dir, v \in CsrIn, clearFef, fifoReset \in BOOLEAN :
       WriteCsr(d, v, clearFef, fifoReset)
  \/ WriteTdr
  \/ ReadRdr

\* A driver that sets watermarks and clock before it enables anything; a system reset
\* finds no request up, and a migration nothing in the FIFOs or on the way.
Quiet(d) == ~csr[d].en /\ ~csr[d].frde /\ csr[d].ie = {}

DriverNext ==
  \/ GuestAccess
  \/ mcxn_sai_word_tick
  \/ \E d \in Dir, n \in 0 .. Depth - 1 : Quiet(d) /\ WriteWatermark(d, n)
  \/ \E on \in BOOLEAN : Quiet("tx") /\ SetBitClock(on)
  \/ (\A d \in Dir : ~req[d]) /\ mcxn_sai_reset
  \/ ~armed /\ (\A d \in Dir : fifo[d] = << >>) /\ mcxn_sai_post_load

\* The virtual clock advances, so a pending timer fires.
Fairness == WF_vars(mcxn_sai_word_tick)

-----------------------------------------------------------------------------
\* Words leave the SAI and come back over the jumper in the order they were
\* written, none twice: what waits in the receive FIFO followed by what waits in
\* the transmit FIFO is strictly increasing, whatever underruns, overruns and
\* FIFO resets happened (mcxn_sai_word_tick's two memmoves).
InOrder ==
  LET w == fifo["rx"] \o fifo["tx"]
  IN  \A i \in 1 .. Len(w) - 1 : w[i] < w[i + 1]

\* The interrupt line and both eDMA latches are what the FIFOs and the enables
\* say.  "The same FIFO-request condition that raises the interrupt also asks the
\* eDMA for service when TCSR/RCSR[FRDE] is set" (mcxn_sai.c:248).
LinesFollowFifo ==
  /\ irq = IrqWanted
  /\ \A d \in Dir : line[d] = DmaWanted(d)

Running == csr["tx"].en /\ bclk

\* A word written to an enabled transmitter with a bit clock leaves, unless the
\* transmitter or its FIFO is reset or stopped: "words now leave the FIFO at the
\* rate firmware configured" (mcxn_sai.c:454).
WordsLeave == []<>(~Running \/ fifo["tx"] = << >>)
=============================================================================

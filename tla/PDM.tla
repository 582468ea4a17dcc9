--------------------------------- MODULE PDM ---------------------------------
(***************************************************************************)
(* The microphone interface of hw/misc/mcxn_pdm.c.  Samples enter channel 0  *)
(* only, from the operator's "mic-input" property; the other channels have   *)
(* a FIFO that stays empty and an underflow flag, and one of them stands for *)
(* all.  out is the last sample a DATACH0 read returned; line is the level   *)
(* the eDMA has latched, dma_lvl the device's copy of it.                    *)
(***************************************************************************)
EXTENDS Naturals, Sequences

CONSTANTS
  Depth,       \* MCXN_PDM_FIFO_DEPTH
  ResetMark,   \* FIFO_CTRL[WMK] after a reset
  Sample, NoSample

Err == {"OVF0", "UND0", "UNDn"}   \* FIFO_STAT
Disel == {"off", "DMA", "IRQ"}

VARIABLES
  ctrl1,      \* CTRL_1: PDMIEN and CH0EN together, ERREN, DISEL
  wmk,        \* FIFO_CTRL[WMK]
  chf,        \* STAT[CH0F]
  fifo_stat,
  fifo, out,
  irq, dma_lvl, line

vars == <<ctrl1, wmk, chf, fifo_stat, fifo, out, irq, dma_lvl, line>>

Ctrl1 == [on : BOOLEAN, erren : BOOLEAN, disel : Disel]
Ctrl1Zero == [on |-> FALSE, erren |-> FALSE, disel |-> "off"]

Init ==
  /\ ctrl1 = Ctrl1Zero
  /\ wmk = ResetMark
  /\ chf = FALSE
  /\ fifo_stat = {}
  /\ fifo = << >>
  /\ out = NoSample
  /\ irq = FALSE /\ dma_lvl = FALSE /\ line = FALSE

-----------------------------------------------------------------------------
IrqWanted ==
  \/ ctrl1.disel = "IRQ" /\ chf
  \/ ctrl1.erren /\ fifo_stat # {}

DmaWanted == ctrl1.disel = "DMA" /\ Len(fifo) > wmk

pdm_update_irq == irq' = IrqWanted'

pdm_update_dma_req ==
  /\ dma_lvl' = DmaWanted'
  /\ line' = IF DmaWanted' # dma_lvl THEN DmaWanted' ELSE line

\* Mutant: a full FIFO drops its oldest sample.
PushDropsOldest(v) ==
  /\ ctrl1.on
  /\ fifo' = Append(IF Len(fifo) >= Depth THEN Tail(fifo) ELSE fifo, v)
  /\ chf' = (chf \/ Len(fifo') > wmk)
  /\ UNCHANGED <<ctrl1, wmk, fifo_stat, out>>
  /\ pdm_update_dma_req
  /\ pdm_update_irq

\* A sample from the operator: ignored, dropped with an overflow, or stored.
pdm_push_sample(v) ==
  \/ ~ctrl1.on /\ UNCHANGED vars
  \/ /\ ctrl1.on
     /\ Len(fifo) >= Depth
     /\ fifo_stat' = fifo_stat \cup {"OVF0"}
     /\ UNCHANGED <<ctrl1, wmk, chf, fifo, out, dma_lvl, line>>
     /\ pdm_update_irq
  \/ /\ ctrl1.on
     /\ Len(fifo) < Depth
     /\ fifo' = Append(fifo, v)
     /\ chf' = (chf \/ Len(fifo') > wmk)
     /\ UNCHANGED <<ctrl1, wmk, fifo_stat, out>>
     /\ pdm_update_dma_req
     /\ pdm_update_irq

\* DATACH0: the interrupt is re-evaluated only when the flag falls.
ReadDatach0 ==
  \/ /\ fifo # << >>
     /\ fifo' = Tail(fifo)
     /\ out' = Head(fifo)
     /\ chf' = (chf /\ Len(fifo') > wmk)
     /\ UNCHANGED <<ctrl1, wmk, fifo_stat>>
     /\ IF Len(fifo') <= wmk THEN pdm_update_irq ELSE UNCHANGED irq
     /\ pdm_update_dma_req
  \/ /\ fifo = << >>
     /\ fifo_stat' = fifo_stat \cup {"UND0"}
     /\ UNCHANGED <<ctrl1, wmk, chf, fifo, out, dma_lvl, line>>
     /\ pdm_update_irq

ReadDatachN ==
  /\ fifo_stat' = fifo_stat \cup {"UNDn"}
  /\ UNCHANGED <<ctrl1, wmk, chf, fifo, out, dma_lvl, line>>
  /\ pdm_update_irq

pdm_flush_fifos ==
  /\ fifo' = << >>
  /\ chf' = FALSE
  /\ fifo_stat' = {}

\* CTRL_1; with SRES every register becomes zero, the watermark included.
WriteCtrl1(sres, v) ==
  /\ IF sres
     THEN ctrl1' = Ctrl1Zero /\ wmk' = 0 /\ pdm_flush_fifos
     ELSE ctrl1' = v /\ UNCHANGED <<wmk, chf, fifo_stat, fifo>>
  /\ UNCHANGED out
  /\ pdm_update_dma_req
  /\ pdm_update_irq

WriteStat ==
  /\ chf' = FALSE
  /\ UNCHANGED <<ctrl1, wmk, fifo_stat, fifo, out, dma_lvl, line>>
  /\ pdm_update_irq

WriteFifoStat(bits) ==
  /\ fifo_stat' = fifo_stat \ bits
  /\ UNCHANGED <<ctrl1, wmk, chf, fifo, out, dma_lvl, line>>
  /\ pdm_update_irq

WriteFifoCtrl(n) ==
  /\ wmk' = n
  /\ UNCHANGED <<ctrl1, chf, fifo_stat, fifo, out>>
  /\ pdm_update_dma_req
  /\ pdm_update_irq

mcxn_pdm_reset ==
  /\ ctrl1' = Ctrl1Zero
  /\ wmk' = ResetMark
  /\ pdm_flush_fifos
  /\ irq' = FALSE /\ dma_lvl' = FALSE /\ line' = FALSE
  /\ UNCHANGED out

\* Migration: everything but the interrupt line is saved, here and in the eDMA.
mcxn_pdm_post_load ==
  /\ UNCHANGED <<ctrl1, wmk, chf, fifo_stat, fifo, out, dma_lvl, line>>
  /\ pdm_update_irq

-----------------------------------------------------------------------------
Next ==
  \/ \E v \in Sample : pdm_push_sample(v)
  \/ ReadDatach0
  \/ ReadDatachN
  \/ \E sres \in BOOLEAN, v \in Ctrl1 : WriteCtrl1(sres, v)
  \/ WriteStat
  \/ \E bits \in SUBSET Err : WriteFifoStat(bits)
  \/ \E n \in 0 .. Depth - 1 : WriteFifoCtrl(n)
  \/ mcxn_pdm_reset
  \/ mcxn_pdm_post_load

Spec == Init /\ [][Next]_vars

-----------------------------------------------------------------------------
\* The interrupt line is what the flags and masks say, although DATACH0
\* re-evaluates it only when the flag falls, and the eDMA's latch is up exactly
\* while the FIFO is past the watermark in DMA mode, across software reset, system
\* reset and migration: "it asserts while channel 0's fill is past the watermark and
\* DISEL selects DMA, and drops when the eDMA has drained it" (mcxn_pdm.c:89).
LinesFollowState == irq = IrqWanted /\ line = DmaWanted

Q == INSTANCE BoundedQueue
       WITH Value <- Sample, NoValue <- NoSample, q <- fifo, out <- out

\* What the guest reads is what the operator supplied, in order: "a mute
\* microphone must not be indistinguishable from a working one" (mcxn_pdm.c:206).
ImplementsQueue == Q!Spec
=============================================================================

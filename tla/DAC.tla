--------------------------------- MODULE DAC ---------------------------------
(***************************************************************************)
(* The DAC of hw/misc/mcxn_dac.c: a ring buffer of samples, popped by a      *)
(* software or a hardware trigger, that asks the eDMA for more.             *)
(*                                                                         *)
(* reqLine is the other end of the request wire: the level the eDMA has     *)
(* latched for this source.  dma_req_level is the DAC's own copy of it,     *)
(* used to publish changes only.                                            *)
(***************************************************************************)
EXTENDS Naturals, FiniteSets

CONSTANTS
  Depth,     \* dac_depth: 16, or 32 for the HPDAC
  Sample,    \* values of DATA
  NoSample,  \* the output after reset
  IerIn      \* the interrupt masks the guest writes

Flag == {"FULL", "EMPTY", "WM", "OF", "UF"}

ASSUME ConstAssumption ==
  /\ Depth \in Nat \ {0}
  /\ NoSample \notin Sample
  /\ IerIn \subseteq SUBSET Flag

VARIABLES
  gcr,            \* GCR: DACEN, FIFOEN, TRGSEL
  wml,            \* FCR[WML]
  ier, der,       \* IER, DER as sets of flags
  latched,        \* the write-one-to-clear flags of FSR
  fifo, wptr, rptr, count,
  out,            \* the converted sample
  irq,            \* the interrupt line as the NVIC latched it
  dma_req_level,  \* the level last published to the eDMA
  reqLine         \* the level the eDMA has latched

regs == <<gcr, wml, ier, der>>
ring == <<fifo, wptr, rptr, count>>
lines == <<irq, dma_req_level, reqLine>>
vars == <<regs, latched, ring, out, lines>>

\* Types of all the state; the pointers and the occupancy of the ring agree.
TypeOK ==
  /\ gcr \in [dacen : BOOLEAN, fifoen : BOOLEAN, trgsel : BOOLEAN]
  /\ wml \in 0 .. Depth - 1
  /\ ier \in SUBSET Flag
  /\ der \in SUBSET {"WM", "EMPTY"}
  /\ latched \in SUBSET {"OF", "UF"}
  /\ fifo \in [0 .. Depth - 1 -> Sample \cup {NoSample}]
  /\ wptr \in 0 .. Depth - 1
  /\ rptr \in 0 .. Depth - 1
  /\ count \in 0 .. Depth
  /\ wptr = (rptr + count) % Depth
  /\ out \in Sample \cup {NoSample}
  /\ irq \in BOOLEAN
  /\ dma_req_level \in BOOLEAN
  /\ reqLine \in BOOLEAN

ResetGcr == [dacen |-> FALSE, fifoen |-> FALSE, trgsel |-> FALSE]

Init ==
  /\ gcr = ResetGcr
  /\ wml = 0
  /\ ier = {}
  /\ der = {}
  /\ latched = {}
  /\ fifo = [i \in 0 .. Depth - 1 |-> NoSample]
  /\ wptr = 0
  /\ rptr = 0
  /\ count = 0
  /\ out = NoSample
  /\ irq = FALSE
  /\ dma_req_level = FALSE
  /\ reqLine = FALSE

-----------------------------------------------------------------------------
\* Mutant: the watermark flag is one sample too eager.
FsrEager ==
  latched \cup (IF count = 0 THEN {"EMPTY"} ELSE {})
          \cup (IF count >= Depth THEN {"FULL"} ELSE {})
          \cup (IF count <= wml + 1 THEN {"WM"} ELSE {})

dac_fsr ==
  latched \cup (IF count = 0 THEN {"EMPTY"} ELSE {})
          \cup (IF count >= Depth THEN {"FULL"} ELSE {})
          \cup (IF count <= wml THEN {"WM"} ELSE {})

\* The FIFO wants samples: a flag whose DER bit is set.
DmaWanted == (dac_fsr \cap der) # {}

\* Mutant: the request is published only when it rises.
UpdateIrqRiseOnly ==
  /\ irq' = ((dac_fsr \cap ier) # {})'
  /\ dma_req_level' = DmaWanted'
  /\ reqLine' = (reqLine \/ DmaWanted')

\* Evaluated on the registers and the FIFO the handler leaves behind.
dac_update_irq ==
  /\ irq' = ((dac_fsr \cap ier) # {})'
  /\ dma_req_level' = DmaWanted'
  /\ reqLine' = IF DmaWanted' # dma_req_level THEN DmaWanted' ELSE reqLine

dac_fifo_reset ==
  /\ wptr' = 0
  /\ rptr' = 0
  /\ count' = 0
  /\ latched' = {}

-----------------------------------------------------------------------------
\* Mutant: the sample is stored before the FIFO is found full.
PushStoresFirst(v) ==
  \/ /\ ~gcr.fifoen
     /\ out' = v
     /\ UNCHANGED <<regs, latched, ring, lines>>
  \/ /\ gcr.fifoen
     /\ fifo' = [fifo EXCEPT ![wptr] = v]
     /\ latched' = IF count < Depth THEN latched ELSE latched \cup {"OF"}
     /\ wptr' = IF count < Depth THEN (wptr + 1) % Depth ELSE wptr
     /\ count' = IF count < Depth THEN count + 1 ELSE count
     /\ UNCHANGED <<regs, rptr, out>>
     /\ dac_update_irq

\* DATA: without the FIFO straight to the output; into a full FIFO, dropped.
dac_push(v) ==
  \/ /\ ~gcr.fifoen
     /\ out' = v
     /\ UNCHANGED <<regs, latched, ring, lines>>
  \/ /\ gcr.fifoen
     /\ count >= Depth
     /\ latched' = latched \cup {"OF"}
     /\ UNCHANGED <<regs, ring, out>>
     /\ dac_update_irq
  \/ /\ gcr.fifoen
     /\ count < Depth
     /\ fifo' = [fifo EXCEPT ![wptr] = v]
     /\ wptr' = (wptr + 1) % Depth
     /\ count' = count + 1
     /\ UNCHANGED <<regs, latched, rptr, out>>
     /\ dac_update_irq

\* Mutant: the read pointer moves before the sample is taken.
TriggerReadsLate ==
  \/ /\ ~(gcr.dacen /\ gcr.fifoen)
     /\ UNCHANGED vars
  \/ /\ gcr.dacen /\ gcr.fifoen
     /\ count = 0
     /\ latched' = latched \cup {"UF"}
     /\ UNCHANGED <<regs, ring, out>>
     /\ dac_update_irq
  \/ /\ gcr.dacen /\ gcr.fifoen
     /\ count > 0
     /\ rptr' = (rptr + 1) % Depth
     /\ out' = fifo[rptr']
     /\ count' = count - 1
     /\ UNCHANGED <<regs, latched, fifo, wptr>>
     /\ dac_update_irq

\* TCR[SWTRG], and a hardware trigger that is let through.
dac_trigger ==
  \/ /\ ~(gcr.dacen /\ gcr.fifoen)
     /\ UNCHANGED vars
  \/ /\ gcr.dacen /\ gcr.fifoen
     /\ count = 0
     /\ latched' = latched \cup {"UF"}
     /\ UNCHANGED <<regs, ring, out>>
     /\ dac_update_irq
  \/ /\ gcr.dacen /\ gcr.fifoen
     /\ count > 0
     /\ out' = fifo[rptr]
     /\ rptr' = (rptr + 1) % Depth
     /\ count' = count - 1
     /\ UNCHANGED <<regs, latched, fifo, wptr>>
     /\ dac_update_irq

dac_hw_trigger ==
  IF gcr.trgsel THEN UNCHANGED vars ELSE dac_trigger

WriteFsr(bits) ==
  /\ latched' = latched \ bits
  /\ UNCHANGED <<regs, ring, out>>
  /\ dac_update_irq

WriteIer(v) ==
  /\ ier' = v
  /\ UNCHANGED <<gcr, wml, der, latched, ring, out>>
  /\ dac_update_irq

WriteDer(v) ==
  /\ der' = v
  /\ UNCHANGED <<gcr, wml, ier, latched, ring, out>>
  /\ dac_update_irq

WriteFcr(v) ==
  /\ wml' = v
  /\ UNCHANGED <<gcr, ier, der, latched, ring, out>>
  /\ dac_update_irq

WriteGcr(v) ==
  /\ gcr' = v
  /\ UNCHANGED <<wml, ier, der, latched, ring, out>>
  /\ dac_update_irq

\* RCR: SWRST clears registers, FIFO and output, FIFORST only the FIFO.
WriteRcr(swrst, fiforst) ==
  /\ IF swrst
     THEN /\ gcr' = ResetGcr
          /\ wml' = 0
          /\ ier' = {}
          /\ der' = {}
          /\ dac_fifo_reset
          /\ out' = NoSample
     ELSE /\ IF fiforst THEN dac_fifo_reset
             ELSE UNCHANGED <<wptr, rptr, count, latched>>
          /\ UNCHANGED <<regs, out>>
  /\ UNCHANGED fifo
  /\ dac_update_irq

-----------------------------------------------------------------------------
\* System reset: mcxn_dac_reset leaves dma_req_level alone, and the eDMA's own
\* reset clears the latch at the other end.
mcxn_dac_reset ==
  /\ gcr' = ResetGcr
  /\ wml' = 0
  /\ ier' = {}
  /\ der' = {}
  /\ fifo' = [i \in 0 .. Depth - 1 |-> NoSample]
  /\ dac_fifo_reset
  /\ out' = NoSample
  /\ irq' = FALSE
  /\ reqLine' = FALSE
  /\ UNCHANGED dma_req_level

\* Save and load: dma_req_level is not saved, so post_load compares with FALSE.
\* The eDMA, realized earlier by the SoC, is loaded earlier: its saved latch is in
\* place when the DAC drives it.
mcxn_dac_post_load ==
  /\ UNCHANGED <<regs, latched, ring, out>>
  /\ irq' = ((dac_fsr \cap ier) # {})
  /\ dma_req_level' = DmaWanted
  /\ reqLine' = (reqLine \/ DmaWanted)

GuestWrite ==
  \/ \E v \in Sample : dac_push(v)
  \/ dac_trigger
  \/ \E bits \in SUBSET {"OF", "UF"} : WriteFsr(bits)
  \/ \E v \in IerIn : WriteIer(v)
  \/ \E v \in SUBSET {"WM", "EMPTY"} : WriteDer(v)
  \/ \E v \in 0 .. Depth - 1 : WriteFcr(v)
  \/ \E v \in [dacen : BOOLEAN, fifoen : BOOLEAN, trgsel : BOOLEAN] : WriteGcr(v)
  \/ \E swrst, fiforst \in BOOLEAN : WriteRcr(swrst, fiforst)

\* Everything but a system reset.
LocalNext == GuestWrite \/ dac_hw_trigger \/ mcxn_dac_post_load

Next == LocalNext \/ mcxn_dac_reset

Spec == Init /\ [][Next]_vars

\* One power-on: software resets and migrations, no system reset.
LocalSpec == Init /\ [][LocalNext]_vars

-----------------------------------------------------------------------------
\* The interrupt line is what FSR and IER say and the eDMA's latch is up exactly
\* when the FIFO wants samples, in every state: every handler that moves the FIFO, a
\* flag or a mask ends in dac_update_irq, and publishing changes only never lets the
\* two ends of the request drift apart.  "The FIFO asks the eDMA for more samples
\* when it has drained to the watermark (or gone empty) and the matching DER bit is
\* set" (mcxn_dac.c:106).
LinesFollowState ==
  /\ irq = ((dac_fsr \cap ier) # {})
  /\ reqLine = DmaWanted

\* The samples that wait, oldest first.
Waiting == [i \in 1 .. count |-> fifo[(rptr + i - 1) % Depth]]

Q == INSTANCE BoundedQueue
       WITH Value <- Sample, NoValue <- NoSample, q <- Waiting, out <- out

\* The ring buffer with its pointers, flags, resets and migrations implements the
\* queue: the waveform comes out complete and in order but for what a full FIFO
\* refused.
ImplementsQueue == Q!Spec
=============================================================================

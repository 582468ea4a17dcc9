--------------------------------- MODULE ADC ---------------------------------
(***************************************************************************)
(* The LPADC of hw/misc/mcxn_adc.c: software and hardware triggers, two      *)
(* result FIFOs with watermarks, STAT, an interrupt and one eDMA request     *)
(* per FIFO.  A conversion returns the value the operator put on the input   *)
(* the trigger's command selects.  line[f] is the level the eDMA latched,    *)
(* dma_req_level[f] the device's copy of it.                                 *)
(***************************************************************************)
EXTENDS Naturals, Sequences

CONSTANTS
  Depth,     \* MCXN_ADC_FIFO_DEPTH
  Trigger,   \* the triggers, numbered; the lowest one set in SWTRIG converts
  Channel,   \* analog inputs
  Value,     \* what an input can carry
  MidScale,  \* ADC_CH_DEFAULT
  IeIn       \* the interrupt enables the guest writes

Fifo == {0, 1}
Cause == {"RDY", "FOF"} \X Fifo   \* the bits of STAT and IE

VARIABLES
  adcen,     \* CTRL[ADCEN]
  tctrl,     \* per trigger: FIFO_SEL_A, HTEN and the input its command selects
  fwmark,    \* FCTRLn[FWMARK]
  stat, ie,  \* STAT and IE: sets of causes
  de,        \* DE[FWMDEn]: a set of FIFOs
  adc_ch,    \* the inputs
  fifo,      \* the result FIFOs, oldest first
  irq, dma_req_level, line

regs == <<adcen, tctrl, fwmark, ie, de, adc_ch>>
lines == <<irq, dma_req_level, line>>
vars == <<regs, stat, fifo, lines>>

Tctrl == [sel : Fifo, hten : BOOLEAN, ch : Channel]

\* A trigger whose TCMD is 0 selects no command and converts input 0.
Ch0 == CHOOSE c \in Channel : TRUE
ResetTctrl == [t \in Trigger |-> [sel |-> 0, hten |-> FALSE, ch |-> Ch0]]
Empty == [f \in Fifo |-> << >>]

Init ==
  /\ adcen = FALSE
  /\ tctrl = ResetTctrl
  /\ fwmark = [f \in Fifo |-> 0]
  /\ stat = {}
  /\ ie = {}
  /\ de = {}
  /\ adc_ch = [c \in Channel |-> MidScale]
  /\ fifo = Empty
  /\ irq = FALSE
  /\ dma_req_level = [f \in Fifo |-> FALSE]
  /\ line = [f \in Fifo |-> FALSE]

-----------------------------------------------------------------------------
AboveMark(f) == Len(fifo[f]) > fwmark[f]
DmaWanted(f) == f \in de /\ AboveMark(f)

mcxn_adc_update_irq ==
  /\ irq' = ((stat' \cap ie') # {})
  /\ dma_req_level' = [f \in Fifo |-> DmaWanted(f)']
  /\ line' = [f \in Fifo |->
       IF DmaWanted(f)' # dma_req_level[f] THEN DmaWanted(f)' ELSE line[f]]

\* STAT with the sticky causes fof, and RDY derived from the FIFOs left behind.
mcxn_adc_update_status(fof) ==
  stat' = fof \cup {c \in {"RDY"} \X Fifo : AboveMark(c[2])'}

Sticky == stat \cap ({"FOF"} \X Fifo)

\* Mutant: a full FIFO loses its oldest result to the new one.
PushDropsOldest(f, v) ==
  IF Len(fifo[f]) >= Depth
  THEN /\ fifo' = [fifo EXCEPT ![f] = Append(Tail(@), v)]
       /\ mcxn_adc_update_status(Sticky)
  ELSE /\ fifo' = [fifo EXCEPT ![f] = Append(@, v)]
       /\ mcxn_adc_update_status(Sticky)

adc_fifo_push(f, v) ==
  IF Len(fifo[f]) >= Depth
  THEN /\ UNCHANGED fifo
       /\ mcxn_adc_update_status(Sticky \cup {<<"FOF", f>>})
  ELSE /\ fifo' = [fifo EXCEPT ![f] = Append(@, v)]
       /\ mcxn_adc_update_status(Sticky)

mcxn_adc_do_conversion(t) ==
  \/ ~adcen /\ UNCHANGED vars
  \/ /\ adcen
     /\ UNCHANGED regs
     /\ adc_fifo_push(tctrl[t].sel, adc_ch[tctrl[t].ch])
     /\ mcxn_adc_update_irq

\* A SWTRIG write with several bits converts for the lowest of them only.
WriteSwtrig(ts) ==
  mcxn_adc_do_conversion(CHOOSE t \in ts : \A u \in ts : t <= u)

mcxn_adc_hw_trigger(t) ==
  IF tctrl[t].hten THEN mcxn_adc_do_conversion(t) ELSE UNCHANGED vars

ReadResfifo(f) ==
  /\ fifo' = [fifo EXCEPT ![f] = IF @ = << >> THEN @ ELSE Tail(@)]
  /\ UNCHANGED regs
  /\ mcxn_adc_update_status(Sticky)
  /\ mcxn_adc_update_irq

\* DE and FCTRLn end in update_irq, which leaves STAT as it was.
WriteDe(v) ==
  /\ de' = v
  /\ UNCHANGED <<adcen, tctrl, fwmark, ie, adc_ch, stat, fifo>>
  /\ mcxn_adc_update_irq

WriteFctrl(f, n) ==
  /\ fwmark' = [fwmark EXCEPT ![f] = n]
  /\ UNCHANGED <<adcen, tctrl, ie, de, adc_ch, stat, fifo>>
  /\ mcxn_adc_update_irq

\* CTRL: RSTFIFOn empties its FIFO and clears its overflow, RST does so for both.
\* A calibration asked for is complete at once: CAL_RDY, which causes no interrupt,
\* is left out.
WriteCtrl(en, gone) ==
  /\ adcen' = en
  /\ fifo' = [f \in Fifo |-> IF f \in gone THEN << >> ELSE fifo[f]]
  /\ UNCHANGED <<tctrl, fwmark, ie, de, adc_ch>>
  /\ mcxn_adc_update_status(Sticky \ ({"FOF"} \X gone))
  /\ mcxn_adc_update_irq

\* STAT: write-one-to-clear of the sticky causes bits; RDY is derived again.
WriteStat(bits) ==
  /\ UNCHANGED <<regs, fifo>>
  /\ mcxn_adc_update_status(Sticky \ bits)
  /\ mcxn_adc_update_irq

WriteIe(v) ==
  /\ ie' = v
  /\ UNCHANGED <<adcen, tctrl, fwmark, de, adc_ch, stat, fifo>>
  /\ mcxn_adc_update_irq

\* TCTRLn, and the CMDL it points at: plain stores.
WriteTctrl(t, v) ==
  /\ tctrl' = [tctrl EXCEPT ![t] = v]
  /\ UNCHANGED <<adcen, fwmark, ie, de, adc_ch, stat, fifo, lines>>

\* The operator sets the "adc-chN" property.
SetInput(c, v) ==
  /\ adc_ch' = [adc_ch EXCEPT ![c] = v]
  /\ UNCHANGED <<adcen, tctrl, fwmark, ie, de, stat, fifo, lines>>

\* System reset: dma_req_level is left alone; the NVIC's and the eDMA's resets
\* clear irq and line.
mcxn_adc_reset ==
  /\ adcen' = FALSE
  /\ tctrl' = ResetTctrl
  /\ fwmark' = [f \in Fifo |-> 0]
  /\ stat' = {}
  /\ ie' = {}
  /\ de' = {}
  /\ adc_ch' = [c \in Channel |-> MidScale]
  /\ fifo' = Empty
  /\ irq' = FALSE
  /\ line' = [f \in Fifo |-> FALSE]
  /\ UNCHANGED dma_req_level

\* Migration: dma_req_level is not saved; the eDMA is loaded earlier.
mcxn_adc_post_load ==
  /\ UNCHANGED <<regs, stat, fifo>>
  /\ irq' = ((stat \cap ie) # {})
  /\ dma_req_level' = [f \in Fifo |-> DmaWanted(f)]
  /\ line' = [f \in Fifo |-> line[f] \/ DmaWanted(f)]

-----------------------------------------------------------------------------
\* Everything but FCTRLn writes and system resets.
BaseNext ==
  \/ \E ts \in (SUBSET Trigger) \ {{}} : WriteSwtrig(ts)
  \/ \E t \in Trigger : mcxn_adc_hw_trigger(t)
  \/ \E f \in Fifo : ReadResfifo(f)
  \/ \E v \in SUBSET Fifo : WriteDe(v)
  \/ \E en \in BOOLEAN, gone \in SUBSET Fifo : WriteCtrl(en, gone)
  \/ \E bits \in SUBSET ({"FOF"} \X Fifo) : WriteStat(bits)
  \/ \E v \in IeIn : WriteIe(v)
  \/ \E t \in Trigger, v \in Tctrl : WriteTctrl(t, v)
  \/ \E c \in Channel, v \in Value : SetInput(c, v)
  \/ mcxn_adc_post_load

\* A driver that sets a watermark while its FIFO is empty.
DriverNext ==
  \/ BaseNext
  \/ mcxn_adc_reset
  \/ \E f \in Fifo, n \in 0 .. Depth - 1 : fifo[f] = << >> /\ WriteFctrl(f, n)

-----------------------------------------------------------------------------
\* The interrupt line is what STAT and IE say and the eDMA's latches follow the
\* FIFOs, across resets and migrations: "The FIFO asks for service when its
\* occupancy EXCEEDS the watermark" (mcxn_adc.c:234), for an enabled DE bit.
LinesFollowState ==
  /\ irq = ((stat \cap ie) # {})
  /\ \A f \in Fifo : line[f] = DmaWanted(f)

\* RDY is a level: "the FIFO is 'ready' exactly while it holds more entries than
\* the watermark.  It is recomputed on every change of either term (a push, a pop,
\* a FIFO reset, or a write to FCTRL[FWMARK])" (mcxn_adc.c:146).
RdyIsLevel == \A f \in Fifo : (<<"RDY", f>> \in stat) <=> AboveMark(f)

\* A stored result leaves by a read, oldest first, or with its whole FIFO, and a
\* result that finds no room displaces none: "THE NEWER DATA IS NOT STORED and
\* the FIFO holds the original contents" (mcxn_adc.c:169).
ResultsKept ==
  [][\A f \in Fifo :
       \/ fifo'[f] \in {fifo[f], << >>}
       \/ fifo[f] # << >> /\ fifo'[f] = Tail(fifo[f])
       \/ \E v \in Value : fifo'[f] = Append(fifo[f], v)]_fifo
=============================================================================

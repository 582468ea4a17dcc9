------------------------------- MODULE Samples -------------------------------
(***************************************************************************)
(* The devices that keep samples in a FIFO for the guest or the eDMA, each   *)
(* on its own machine: a DAC, an ADC or a PDM interface, chosen at the       *)
(* start.                                                                   *)
(***************************************************************************)
EXTENDS DAC, Sequences

CONSTANTS
  AdcDepth, Trigger, Channel, Value, MidScale, IeIn,   \* of the ADC
  PdmDepth, ResetMark                                  \* of the PDM

VARIABLES
  dut,   \* the device of this machine
  adcen, tctrl, fwmark, stat, ie, de, adc_ch, adc_fifo, adc_irq, adc_level, adc_line,
  ctrl1, wmk, chf, fifo_stat, pdm_fifo, pdm_out, pdm_irq, dma_lvl, pdm_line

A == INSTANCE ADC WITH Depth <- AdcDepth, fifo <- adc_fifo, irq <- adc_irq,
                       dma_req_level <- adc_level, line <- adc_line
P == INSTANCE PDM WITH Depth <- PdmDepth, fifo <- pdm_fifo, out <- pdm_out,
                       irq <- pdm_irq, line <- pdm_line

ASSUME SamplesAssumption ==
  /\ AdcDepth \in Nat \ {0}
  /\ Trigger \subseteq Nat
  /\ Channel # {}
  /\ MidScale \in Value
  /\ IeIn \subseteq SUBSET A!Cause
  /\ PdmDepth \in Nat \ {0}
  /\ ResetMark \in 0 .. PdmDepth - 1

adc == <<adcen, tctrl, fwmark, stat, ie, de, adc_ch, adc_fifo, adc_irq, adc_level,
         adc_line>>
pdm == <<ctrl1, wmk, chf, fifo_stat, pdm_fifo, pdm_out, pdm_irq, dma_lvl, pdm_line>>

SamplesInit ==
  /\ dut \in {"dac", "adc", "pdm"}
  /\ Init
  /\ A!Init
  /\ P!Init

SamplesNext ==
  \/ dut = "dac" /\ LocalNext /\ UNCHANGED <<dut, adc, pdm>>
  \/ dut = "adc" /\ A!DriverNext /\ UNCHANGED <<dut, vars, pdm>>
  \/ dut = "pdm" /\ P!Next /\ UNCHANGED <<dut, vars, adc>>

SamplesSpec == SamplesInit /\ [][SamplesNext]_<<dut, vars, adc, pdm>>

-----------------------------------------------------------------------------
\* In every device the interrupt line is what its flags and masks say, the eDMA's
\* latches are up exactly while its FIFO asks for service (dac_update_irq,
\* mcxn_adc_update_irq, pdm_update_irq and pdm_update_dma_req), and the ADC's STAT[RDY]
\* is the level its comment promises (mcxn_adc.c:146).
AllLinesFollowState ==
  /\ LinesFollowState
  /\ A!LinesFollowState
  /\ A!RdyIsLevel
  /\ P!LinesFollowState

\* ResultsKept of the ADC and ImplementsQueue of the PDM, on their machines.
AdcResultsKept == A!ResultsKept
PdmImplementsQueue == P!ImplementsQueue
=============================================================================

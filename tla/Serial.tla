------------------------------- MODULE Serial -------------------------------
(***************************************************************************)
(* The devices that move data at the pace of a timer or of a peer, each on   *)
(* its own machine: an LP_FLEXCOMM, a SAI or the ENET, chosen at the start.  *)
(***************************************************************************)
EXTENDS Flexcomm

CONSTANTS
  SaiDepth,   \* MCXN_SAI_FIFO_DEPTH
  MaxWords, Loopback, SaiIeIn,
  RxLen, TxLen, RingGuard, FrameMax, MaxEthFrames, MacIn, IntIn

VARIABLES
  dut,        \* the device of this machine
  csr, wm, bclk, fifo, armed, words, sai_irq, req, sai_line,
  eth, netq, arrived, drv

S == INSTANCE SAI WITH Depth <- SaiDepth, IeIn <- SaiIeIn, sent <- words,
                       irq <- sai_irq, line <- sai_line

E == INSTANCE Enet WITH MaxFrames <- MaxEthFrames, s <- eth

ASSUME SaiAssumption ==
  /\ SaiDepth \in Nat \ {0}
  /\ MaxWords \in Nat
  /\ Loopback \in BOOLEAN
  /\ SaiIeIn \subseteq SUBSET S!Flag

ASSUME EnetAssumption ==
  /\ RxLen \in Nat \ {0} /\ TxLen \in Nat \ {0, 1}
  /\ RingGuard \in Nat /\ RingGuard >= TxLen
  /\ FrameMax \in Nat \ {0}
  /\ MaxEthFrames \in Nat
  /\ MacIn \subseteq SUBSET {"RE", "TE", "LM"}
  /\ IntIn \subseteq SUBSET E!Bit

sai == <<csr, wm, bclk, fifo, armed, words, sai_irq, req, sai_line>>
enet == <<eth, netq, arrived, drv>>
serial == <<dut, flexcomm, sai, enet>>

\* The ENET's state on a machine that is about another device.
Absent == eth = {} /\ netq = << >> /\ arrived = 0 /\ drv = {}

SerialInit ==
  /\ dut \in {"flexcomm", "sai", "enet"}
  /\ FlexcommInit
  /\ S!Init
  /\ IF dut = "enet" THEN E!EnetInit ELSE Absent

SerialNext ==
  \/ dut = "flexcomm" /\ DriverNext /\ UNCHANGED <<dut, sai, enet>>
  \/ dut = "sai" /\ S!DriverNext /\ UNCHANGED <<dut, flexcomm, enet>>
  \/ dut = "enet" /\ E!EnetNext /\ UNCHANGED <<dut, flexcomm, sai>>

\* The device that is not there has nothing pending.
SerialSpec ==
  /\ SerialInit
  /\ [][SerialNext]_serial
  /\ ReceiveFairness
  /\ S!Fairness

-----------------------------------------------------------------------------
\* The interrupt line, and the request lines into the eDMA, are what the registers and
\* the FIFOs say, in all three devices (mcxn_flexcomm_update_irq, mcxn_sai_update_irq,
\* mcxn_enet_update_irq).
SerialLinesFollowState ==
  /\ LinesFollowState
  /\ S!LinesFollowFifo
  /\ dut = "enet" => eth.irq = E!IrqWanted(eth)

\* InOrder and WordsLeave of the SAI, on its machine.
SaiInOrder == S!InOrder
SaiWordsLeave == S!WordsLeave

\* The ENET's frames are whole, none is held back from a receiver that runs, none is
\* dropped but for want of buffers or by an early flush, and none is stuck in the
\* transmit ring but by a late start: the properties of Enet, on its machine
\* (mcxn_enet_deliver, mcxn_enet_tx_process, enet_write).
EnetFramesWhole == dut = "enet" => E!FramesWhole
EnetOnlyEarlyFlushDrops == [][\A f \in 1 .. MaxEthFrames : dut = "enet" => E!FrameKept(f)]_enet
EnetOnlyLateStartStalls == [][dut = "enet" => E!StallsLate]_enet
=============================================================================

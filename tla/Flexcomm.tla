------------------------------ MODULE Flexcomm ------------------------------
(***************************************************************************)
(* The LP_FLEXCOMM of hw/char/mcxn_lpuart.c: one interrupt line and two eDMA *)
(* request lines shared by the LPUART, LPSPI and LPI2C functions, of which   *)
(* PSELID selects one.                                                      *)
(*                                                                         *)
(* line[d] is the level the eDMA has latched for direction d, dma_level[d]   *)
(* the device's copy of it (dma_tx_level, dma_rx_level).                     *)
(***************************************************************************)
EXTENDS LpUart, LpSpi, LpI2c

CONSTANTS
  CtrlIn, SpiIerIn, MierIn   \* what the guest writes to CTRL, IER and MIER

ASSUME FlexcommAssumption ==
  /\ Depth \in Nat \ {0}
  /\ MaxBytes \in Nat
  /\ MaxFrames \in Nat
  /\ MaxAsk \in Nat
  /\ CtrlIn \subseteq CtrlReg
  /\ SpiIerIn \subseteq SUBSET SpiFlag
  /\ MierIn \subseteq SUBSET I2cFlag

Dir == {"tx", "rx"}
Persel == {"uart", "spi", "i2c"}   \* no function selected decodes as the LPUART

VARIABLES persel, irq, dma_level, line

lines == <<irq, dma_level, line>>
flexcomm == <<uart, spi, i2c, persel, lines>>

FlexcommInit ==
  /\ UartInit
  /\ SpiInit
  /\ I2cInit
  /\ persel = "uart"
  /\ irq = FALSE
  /\ dma_level = [d \in Dir |-> FALSE]
  /\ line = [d \in Dir |-> FALSE]

Uart == persel = "uart"

-----------------------------------------------------------------------------
mcxn_flexcomm_istat ==
  CASE persel = "spi" -> (spi_ier \cap mcxn_lpspi_status) # {}
    [] persel = "i2c" -> (i2c_mier \cap mcxn_lpi2c_status) # {}
    [] OTHER          -> ctrl.tie \/ (ctrl.rie /\ lpuart_rdrf)

\* A transmitter is always ready for data, a receiver has some when full.
Requests(enabled, full) == [d \in Dir |-> d \in enabled /\ (d = "rx" => full)]

DmaWanted ==
  CASE persel = "spi" -> Requests(spi_der, spi_rx_full)
    [] persel = "i2c" -> Requests(i2c_mder, i2c_rx_full)
    [] OTHER          -> Requests(baud, lpuart_rdrf)

\* Mutant: the request is published when it rises and never taken back.
UpdateIrqRiseOnly ==
  /\ irq' = mcxn_flexcomm_istat'
  /\ dma_level' = DmaWanted'
  /\ line' = [d \in Dir |-> line[d] \/ DmaWanted'[d]]

\* With mcxn_flexcomm_update_dma: only a change of a request is published.
mcxn_flexcomm_update_irq ==
  /\ irq' = mcxn_flexcomm_istat'
  /\ dma_level' = DmaWanted'
  /\ line' = [d \in Dir |->
       IF DmaWanted'[d] # dma_level[d] THEN DmaWanted'[d] ELSE line[d]]

-----------------------------------------------------------------------------
\* The main loop: bytes arrive whichever function is selected.
Arrive(n) ==
  /\ tcp_chr_read(n)
  /\ UNCHANGED <<spi, i2c, persel>>
  /\ mcxn_flexcomm_update_irq

Peer == HostSends /\ UNCHANGED <<spi, i2c, persel, lines>>

MainLoop == Iterate /\ UNCHANGED <<spi, i2c, persel, lines>>

\* A register access of the selected function that re-evaluates the lines.
UartAccess(A) ==
  /\ Uart
  /\ A
  /\ UNCHANGED <<spi, i2c, persel>>
  /\ mcxn_flexcomm_update_irq

SpiAccess(A) ==
  /\ persel = "spi"
  /\ A
  /\ UNCHANGED <<uart, i2c, persel>>
  /\ mcxn_flexcomm_update_irq

I2cAccess(A) ==
  /\ persel = "i2c"
  /\ A
  /\ UNCHANGED <<uart, spi, persel>>
  /\ mcxn_flexcomm_update_irq

\* TCR is a plain store.
SpiTcr(v) ==
  /\ persel = "spi"
  /\ WriteTcr(v)
  /\ UNCHANGED <<uart, i2c, persel, lines>>

\* PSELID: the lines are not re-evaluated, and LOCK locks nothing.
WritePselid(p) ==
  /\ persel' = p
  /\ UNCHANGED <<uart, spi, i2c, lines>>

\* System reset: no line is driven and dma_level is left alone; the NVIC's and the
\* eDMA's resets clear the latches at the other ends.
mcxn_lpuart_reset ==
  /\ UartReset
  /\ SpiReset
  /\ I2cReset
  /\ persel' = "uart"
  /\ irq' = FALSE
  /\ line' = [d \in Dir |-> FALSE]
  /\ UNCHANGED dma_level

\* Migration: dma_level starts as FALSE; the eDMA is loaded earlier.  The chardev
\* is a new one, with nothing recorded.
mcxn_lpuart_post_load ==
  /\ SpiLoad
  /\ I2cLoad
  /\ UNCHANGED <<uartRegs, rxRing, stat_or, gone, queued, sent, persel>>
  /\ Prepare
  /\ irq' = mcxn_flexcomm_istat'
  /\ dma_level' = DmaWanted'
  /\ line' = [d \in Dir |-> line[d] \/ DmaWanted'[d]]

-----------------------------------------------------------------------------
Chardev ==
  \/ \E n \in 1 .. MaxBytes : Arrive(n)
  \/ Uart /\ Peer
  \/ MainLoop

Guest ==
  \/ UartAccess(ReadData)
  \/ \E fe, flush \in BOOLEAN : UartAccess(WriteFifo(fe, flush))
  \/ \E n \in 0 .. Depth - 1 : UartAccess(WriteWater(n))
  \/ \E v \in SUBSET Dir : UartAccess(WriteBaud(v))
  \/ \E v \in CtrlIn : UartAccess(WriteCtrl(v))
  \/ UartAccess(UartReset)
  \/ SpiAccess(WriteCrRst)
  \/ \E men, rrf \in BOOLEAN : SpiAccess(WriteCr(men, rrf))
  \/ SpiAccess(WriteSr)
  \/ \E v \in SpiIerIn : SpiAccess(WriteSpiIer(v))
  \/ \E v \in SUBSET Dir : SpiAccess(WriteSpiDer(v))
  \/ SpiAccess(ReadRdr)
  \/ SpiAccess(WriteTdr)
  \/ I2cAccess(WriteMcrRst)
  \/ \E men \in BOOLEAN : I2cAccess(WriteMcr(men, FALSE))
  \/ \E bits \in SUBSET {"NDF", "SDF"} : I2cAccess(WriteMsr(bits))
  \/ \E v \in MierIn : I2cAccess(WriteMier(v))
  \/ \E v \in SUBSET Dir : I2cAccess(WriteMder(v))
  \/ \E ack \in BOOLEAN : I2cAccess(Start(ack))
  \/ \E ack \in BOOLEAN : I2cAccess(Transmit(ack))
  \/ \E n \in 1 .. MaxAsk : I2cAccess(Receive(n))
  \/ I2cAccess(ReadMrdr)

\* What a careful guest does only at the right moment.
FlushMrdr == \E men \in BOOLEAN : I2cAccess(WriteMcr(men, TRUE))
Fetched == i2c_rx_pending = 0
Fresh == Uart /\ uartRegs = <<Off, {}, FALSE, 0>> /\ queued = 0
NoDma == spi_der = {} /\ i2c_mder = {} /\ ~dma_level["tx"] /\ ~dma_level["rx"]

\* A driver that selects LPSPI or LPI2C once after a reset, sends words under RXMSK
\* on their own, stops and flushes the LPI2C when all it asked for was fetched, on
\* a machine reset and migrated while no DMA request is enabled, and migrated
\* between commands of the LPSPI.
DriverNext ==
  \/ Chardev
  \/ Guest
  \/ \E v \in Tcr : (v.rxmsk => ~v.cont /\ chain = 0) /\ SpiTcr(v)
  \/ Fetched /\ I2cAccess(Stop)
  \/ Fetched /\ FlushMrdr
  \/ \E p \in Persel : Fresh /\ NoDma /\ WritePselid(p)
  \/ NoDma /\ mcxn_lpuart_reset
  \/ NoDma /\ chain = 0 /\ mcxn_lpuart_post_load

\* Any guest.
FlexcommNext ==
  \/ Chardev
  \/ Guest
  \/ \E v \in Tcr : SpiTcr(v)
  \/ I2cAccess(Stop)
  \/ FlushMrdr
  \/ \E p \in Persel : WritePselid(p)
  \/ mcxn_lpuart_reset
  \/ mcxn_lpuart_post_load

FlexcommSpec == FlexcommInit /\ [][FlexcommNext]_flexcomm
DriverSpec == FlexcommInit /\ [][DriverNext]_flexcomm

\* The main loop polls and is woken by a notification, and a guest that enabled the
\* receive interrupt reads until the flag falls.  Nothing else wakes the main loop.
ReceiveFairness ==
  /\ WF_flexcomm(\E n \in 1 .. MaxBytes : Arrive(n))
  /\ WF_flexcomm(notified /\ MainLoop)
  /\ WF_flexcomm(ctrl.rie /\ lpuart_rdrf /\ UartAccess(ReadData))

-----------------------------------------------------------------------------
\* The interrupt line is what the selected function's flags and masks say, and the
\* eDMA's latches are up exactly while its requests are, although only changes are
\* published: "re-drive them from the restored register state so a migrated device
\* lands with the correct level" (mcxn_lpuart.c:1356).
LinesFollowState ==
  /\ irq = mcxn_flexcomm_istat
  /\ line = DmaWanted

Listening == Uart /\ ctrl.re /\ ctrl.rie /\ water < lpuart_rx_depth

\* Every byte the peer sends reaches a guest that listens, but for the last few a
\* watermark lets wait: with room for more than the watermark, flow control stops the
\* stream and lets it run again (mcxn_lpuart_can_rx, mcxn_lpuart_rx and the read of
\* DATA), unless the receiver was enabled behind the main loop's back.
BytesArrive ==
  []<>(~Listening \/ late \/ (sent = queued /\ rx_count <= water))
=============================================================================

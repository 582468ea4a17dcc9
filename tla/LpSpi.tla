-------------------------------- MODULE LpSpi --------------------------------
(***************************************************************************)
(* The LPSPI master of hw/char/mcxn_lpuart.c on its SSI bus.  The device at  *)
(* the other end is external: it counts the words of a transaction, which    *)
(* its chip select delimits, and answers each with its number.  The flags    *)
(* WCF, FCF and TCF rise together; TCF stands for them.                      *)
(***************************************************************************)
EXTENDS Naturals

CONSTANTS MaxFrames   \* bound: words of a transaction

VARIABLES
  spi_men,          \* CR[MEN]
  spi_tcf,          \* SR[TCF]
  spi_ier,          \* IER: a set of flags
  spi_der,          \* DER: the directions whose DMA request is enabled
  spi_tcr,          \* TCR: RXMSK and CONT
  spi_rdr, spi_rx_full,
  spi_cs_asserted,
  pos,              \* device: words since its chip select last rose
  chain             \* guest: words since the last one without CONT

spiRegs == <<spi_men, spi_ier, spi_der, spi_tcr>>
spiRx == <<spi_rdr, spi_rx_full>>
spiBus == <<spi_cs_asserted, pos, chain>>
spi == <<spiRegs, spi_tcf, spiRx, spiBus>>

SpiFlag == {"TDF", "RDF", "TCF"}
Tcr == [rxmsk : BOOLEAN, cont : BOOLEAN]
ResetTcr == [rxmsk |-> FALSE, cont |-> FALSE]

SpiInit ==
  /\ spi_men = FALSE
  /\ spi_tcf = FALSE
  /\ spi_ier = {}
  /\ spi_der = {}
  /\ spi_tcr = ResetTcr
  /\ spi_rdr = 0
  /\ spi_rx_full = FALSE
  /\ spi_cs_asserted = FALSE
  /\ pos = 0
  /\ chain = 0

mcxn_lpspi_status ==
  (IF spi_tcf THEN {"TCF"} ELSE {})
    \cup (IF spi_men THEN {"TDF"} ELSE {})
    \cup (IF spi_rx_full THEN {"RDF"} ELSE {})

-----------------------------------------------------------------------------
\* Mutant: the chip select stays low over a software reset.
KeepCs == UNCHANGED <<spi_cs_asserted, pos>> /\ chain' = 0

\* A software reset releases the chip select.
ReleaseCs ==
  /\ spi_cs_asserted' = FALSE
  /\ pos' = IF spi_cs_asserted THEN 0 ELSE pos
  /\ chain' = 0

\* CR with RST, and with MEN and RRF.  DER and TCR survive RST.
WriteCrRst ==
  /\ spi_men' = FALSE
  /\ spi_tcf' = FALSE
  /\ spi_ier' = {}
  /\ spi_rx_full' = FALSE
  /\ ReleaseCs
  /\ UNCHANGED <<spi_der, spi_tcr, spi_rdr>>

WriteCr(men, rrf) ==
  /\ spi_men' = men
  /\ spi_rx_full' = (spi_rx_full /\ ~rrf)
  /\ UNCHANGED <<spi_tcf, spi_ier, spi_der, spi_tcr, spi_rdr, spiBus>>

WriteSr ==
  /\ spi_tcf' = FALSE
  /\ UNCHANGED <<spiRegs, spiRx, spiBus>>

WriteSpiIer(v) ==
  /\ spi_ier' = v
  /\ UNCHANGED <<spi_men, spi_tcf, spi_der, spi_tcr, spiRx, spiBus>>

WriteSpiDer(v) ==
  /\ spi_der' = v
  /\ UNCHANGED <<spi_men, spi_tcf, spi_ier, spi_tcr, spiRx, spiBus>>

\* A plain store.
WriteTcr(v) ==
  /\ spi_tcr' = v
  /\ UNCHANGED <<spi_men, spi_tcf, spi_ier, spi_der, spiRx, spiBus>>

ReadRdr ==
  /\ spi_rx_full
  /\ spi_rx_full' = FALSE
  /\ UNCHANGED <<spiRegs, spi_tcf, spi_rdr, spiBus>>

\* The word goes over the bus inside the chip select, which stays low under CONT.
Transfer ==
  /\ spi_rdr' = pos + 1
  /\ spi_rx_full' = TRUE
  /\ spi_cs_asserted' = spi_tcr.cont
  /\ pos' = IF spi_tcr.cont THEN pos + 1 ELSE 0

\* TDR of an enabled master.  A word under RXMSK is not shifted out at all.
WriteTdr ==
  /\ spi_men
  /\ chain < MaxFrames
  /\ chain' = IF spi_tcr.cont THEN chain + 1 ELSE 0
  /\ IF spi_tcr.rxmsk
     THEN UNCHANGED <<spiRx, spi_cs_asserted, pos>>
     ELSE Transfer
  /\ spi_tcf' = TRUE
  /\ UNCHANGED spiRegs

\* System reset: DER is left alone, and the chip-select line is not driven; the
\* device's own reset starts it afresh.
SpiReset ==
  /\ spi_men' = FALSE
  /\ spi_tcf' = FALSE
  /\ spi_ier' = {}
  /\ spi_tcr' = ResetTcr
  /\ spi_rdr' = 0
  /\ spi_rx_full' = FALSE
  /\ spi_cs_asserted' = FALSE
  /\ pos' = 0
  /\ chain' = 0
  /\ UNCHANGED spi_der

\* Migration: DER and the chip-select flag are not saved.
SpiLoad ==
  /\ spi_der' = {}
  /\ spi_cs_asserted' = FALSE
  /\ UNCHANGED <<spi_men, spi_tcf, spi_ier, spi_tcr, spiRx, pos, chain>>

-----------------------------------------------------------------------------
\* A command of several words is one transaction at the device, and a new command
\* starts a new one, also across software resets, system resets and migrations:
\* "a multi-byte command (e.g. m25p80 RDID: 0x9F then 3 ID bytes) is ONE
\* transaction -- CS drops only when a frame clears CONT" (mcxn_lpuart.c:690).
OneTransaction == pos = chain
=============================================================================

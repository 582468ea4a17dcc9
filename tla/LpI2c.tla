-------------------------------- MODULE LpI2c --------------------------------
(***************************************************************************)
(* The LPI2C controller of hw/char/mcxn_lpuart.c.  Its bus and the device    *)
(* on it are external: the device acknowledges an address and a byte or      *)
(* not.  A receive command asks for several bytes; the first is fetched at   *)
(* once, each of the others when the one before it is read.  EPF rises with  *)
(* SDF, which stands for both.                                              *)
(***************************************************************************)
EXTENDS Naturals

CONSTANTS MaxAsk   \* bound: bytes the guest has asked for and not read

VARIABLES
  i2c_men,          \* MCR[MEN]
  i2c_msr,          \* the latched flags of MSR
  i2c_mier,         \* MIER: a set of flags
  i2c_mder,         \* MDER: the directions whose DMA request is enabled
  i2c_busy,
  i2c_rx_full,      \* a byte is in MRDR
  i2c_rx_pending,   \* bytes still to be fetched
  asked             \* guest: bytes it asked for and has not read

i2cRegs == <<i2c_men, i2c_mier, i2c_mder>>
i2cRx == <<i2c_rx_full, i2c_rx_pending, asked>>
i2c == <<i2cRegs, i2c_msr, i2c_busy, i2cRx>>

I2cFlag == {"TDF", "RDF", "NDF", "SDF", "MBF"}

I2cInit ==
  /\ i2c_men = FALSE
  /\ i2c_msr = {}
  /\ i2c_mier = {}
  /\ i2c_mder = {}
  /\ i2c_busy = FALSE
  /\ i2c_rx_full = FALSE
  /\ i2c_rx_pending = 0
  /\ asked = 0

mcxn_lpi2c_status ==
  i2c_msr \cup {"TDF"}
    \cup (IF i2c_rx_full THEN {"RDF"} ELSE {})
    \cup (IF i2c_busy THEN {"MBF"} ELSE {})

-----------------------------------------------------------------------------
Forget ==
  /\ i2c_rx_full' = FALSE
  /\ i2c_rx_pending' = 0
  /\ asked' = 0

\* MCR with RST, and with MEN and RRF: RRF drops the byte at hand and leaves the
\* count of those to come.
WriteMcrRst ==
  /\ i2c_men' = FALSE
  /\ i2c_msr' = {}
  /\ i2c_mier' = {}
  /\ i2c_busy' = FALSE
  /\ Forget
  /\ UNCHANGED i2c_mder

WriteMcr(men, rrf) ==
  /\ i2c_men' = men
  /\ i2c_rx_full' = (i2c_rx_full /\ ~rrf)
  /\ asked' = IF rrf /\ i2c_rx_full THEN asked - 1 ELSE asked
  /\ UNCHANGED <<i2c_mier, i2c_mder, i2c_msr, i2c_busy, i2c_rx_pending>>

WriteMsr(bits) ==
  /\ i2c_msr' = i2c_msr \ bits
  /\ UNCHANGED <<i2cRegs, i2c_busy, i2cRx>>

WriteMier(v) ==
  /\ i2c_mier' = v
  /\ UNCHANGED <<i2c_men, i2c_mder, i2c_msr, i2c_busy, i2cRx>>

WriteMder(v) ==
  /\ i2c_mder' = v
  /\ UNCHANGED <<i2c_men, i2c_mier, i2c_msr, i2c_busy, i2cRx>>

\* MTDR of an enabled controller.
Start(ack) ==
  /\ i2c_men
  /\ i2c_busy' = ack
  /\ i2c_msr' = IF ack THEN i2c_msr ELSE i2c_msr \cup {"NDF"}
  /\ UNCHANGED <<i2cRegs, i2cRx>>

Transmit(ack) ==
  /\ i2c_men
  /\ i2c_msr' = IF ack THEN i2c_msr ELSE i2c_msr \cup {"NDF"}
  /\ UNCHANGED <<i2cRegs, i2c_busy, i2cRx>>

\* Mutant: the byte fetched at once is not counted.
ReceiveOneMore(n) ==
  /\ i2c_men
  /\ asked + n <= MaxAsk
  /\ asked' = asked + n
  /\ i2c_rx_full' = TRUE
  /\ i2c_rx_pending' = i2c_rx_pending + n
  /\ UNCHANGED <<i2cRegs, i2c_msr, i2c_busy>>

Receive(n) ==
  /\ i2c_men
  /\ asked + n <= MaxAsk
  /\ asked' = asked + n
  /\ i2c_rx_full' = TRUE
  /\ i2c_rx_pending' = i2c_rx_pending + n - (IF i2c_rx_full THEN 0 ELSE 1)
  /\ UNCHANGED <<i2cRegs, i2c_msr, i2c_busy>>

\* The bytes still to be fetched are forgotten, the one at hand stays.
Stop ==
  /\ i2c_men
  /\ i2c_busy' = FALSE
  /\ i2c_rx_pending' = 0
  /\ i2c_msr' = i2c_msr \cup {"SDF"}
  /\ UNCHANGED <<i2cRegs, i2c_rx_full, asked>>

ReadMrdr ==
  /\ i2c_rx_full
  /\ i2c_rx_full' = (i2c_rx_pending > 0)
  /\ i2c_rx_pending' = IF i2c_rx_pending > 0 THEN i2c_rx_pending - 1 ELSE 0
  /\ asked' = IF asked > 0 THEN asked - 1 ELSE 0
  /\ UNCHANGED <<i2cRegs, i2c_msr, i2c_busy>>

\* System reset: MDER is left alone.
I2cReset ==
  /\ i2c_men' = FALSE
  /\ i2c_msr' = {}
  /\ i2c_mier' = {}
  /\ i2c_busy' = FALSE
  /\ Forget
  /\ UNCHANGED i2c_mder

\* Migration: MDER is not saved.
I2cLoad ==
  /\ i2c_mder' = {}
  /\ UNCHANGED <<i2c_men, i2c_mier, i2c_msr, i2c_busy, i2cRx>>

-----------------------------------------------------------------------------
\* As many bytes can be read as were asked for, and MSR[RDF] is up until the last
\* of them has been read: "receive DATA+1 bytes (drained lazily by MRDR reads, so
\* a multi-byte read needs no deep FIFO -- one lookahead byte + a pending count)"
\* (mcxn_lpuart.c:855).
AskedIsOffered ==
  /\ asked = i2c_rx_pending + (IF i2c_rx_full THEN 1 ELSE 0)
  /\ asked > 0 => i2c_rx_full
=============================================================================

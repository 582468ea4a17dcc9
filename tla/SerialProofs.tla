---------------------------- MODULE SerialProofs ----------------------------
(***************************************************************************)
(* Proofs about the machines of Serial, for any depths, any number of      *)
(* words and any enables: the LP_FLEXCOMM, the SAI, and the ENET by the    *)
(* proofs of EnetFrameProofs.                                              *)
(***************************************************************************)
EXTENDS Serial, Sequences, TLAPS

UartType ==
  /\ ctrl \in CtrlReg
  /\ baud \subseteq Dir
  /\ rxfe \in BOOLEAN
  /\ water \in Nat
  /\ rx_fifo \in [0 .. Depth - 1 -> Nat]
  /\ rx_head \in 0 .. Depth - 1
  /\ rx_count \in 0 .. Depth
  /\ stat_or \in BOOLEAN
  /\ queued \in Nat /\ sent \in 0 .. queued /\ gone \in 0 .. sent
  /\ offer \in Nat
  /\ notified \in BOOLEAN /\ late \in BOOLEAN /\ shrunk \in BOOLEAN

\* The i-th oldest byte of the ring.
At(i) == rx_fifo[(rx_head + i - 1) % Depth]

\* While nothing was lost each byte waits at the place its number gives it.
RingInv ==
  /\ \A i, j \in 1 .. rx_count : i < j => At(i) < At(j)
  /\ \A i \in 1 .. rx_count : At(i) \in gone + 1 .. sent
  /\ ~stat_or => /\ rx_count = sent - gone
                 /\ \A i \in 1 .. rx_count : At(i) = gone + i

\* An offer nobody took room from still fits, and room is never forgotten.
OfferInv ==
  /\ ~shrunk /\ offer > 0 => offer <= Room
  /\ mcxn_lpuart_can_rx > 0 => offer > 0 \/ notified \/ late

UartInv == UartType /\ RingInv /\ OfferInv

\* What any step of any guest does to the LPUART.
UartNext ==
  \/ \E n \in 1 .. MaxBytes : tcp_chr_read(n)
  \/ HostSends
  \/ Iterate
  \/ ReadData
  \/ \E fe, flush \in BOOLEAN : WriteFifo(fe, flush)
  \/ \E n \in 0 .. Depth - 1 : WriteWater(n)
  \/ \E v \in SUBSET Dir : WriteBaud(v)
  \/ \E v \in CtrlIn : WriteCtrl(v)
  \/ UartReset

-----------------------------------------------------------------------------
SpiType ==
  /\ spi_tcr \in Tcr
  /\ spi_cs_asserted \in BOOLEAN
  /\ pos \in Nat
  /\ chain \in Nat

\* A device whose chip select is high is between transactions, and words under RXMSK
\* belong to none.
SpiInv ==
  /\ SpiType
  /\ OneTransaction
  /\ pos > 0 => spi_cs_asserted
  /\ spi_tcr.rxmsk => ~spi_tcr.cont /\ chain = 0

I2cInv ==
  /\ i2c_rx_full \in BOOLEAN
  /\ i2c_rx_pending \in Nat
  /\ asked \in Nat
  /\ AskedIsOffered

\* The device's copy of a request agrees with the eDMA's latch, and a function that
\* is not selected has no interrupt enabled.
LinesInv ==
  /\ LinesFollowState
  /\ dma_level = DmaWanted
  /\ persel \in Persel
  /\ persel # "spi" => spi_ier = {}
  /\ persel # "i2c" => i2c_mier = {}

-----------------------------------------------------------------------------
\* The slot of the i-th oldest byte, and how far behind the last one it is.
LEMMA Slot ==
  ASSUME NEW r \in 0 .. Depth - 1, NEW c \in 0 .. Depth, NEW i \in 1 .. Depth
  PROVE  /\ (r + i - 1) % Depth \in 0 .. Depth - 1
         /\ (((r + i - 1) % Depth) - r - c) % Depth
              = IF i > c THEN i - 1 - c ELSE i - 1 - c + Depth
<1> DEFINE p == (r + i - 1) % Depth
<1>1. p = IF r + i - 1 < Depth THEN r + i - 1 ELSE r + i - 1 - Depth
  BY FlexcommAssumption
<1>2. p \in 0 .. Depth - 1
  BY <1>1, FlexcommAssumption
<1>3. CASE r + i - 1 < Depth
  <2>1. p - r - c = i - 1 - c
    BY <1>1, <1>3, FlexcommAssumption
  <2>2. (i - 1 - c) % Depth = IF i > c THEN i - 1 - c ELSE i - 1 - c + Depth
    BY FlexcommAssumption
  <2> QED BY <1>2, <2>1, <2>2
<1>4. CASE r + i - 1 >= Depth
  <2>1. p - r - c = i - 1 - c - Depth
    BY <1>1, <1>4, FlexcommAssumption
  <2>2. (i - 1 - c - Depth) % Depth = IF i > c THEN i - 1 - c ELSE i - 1 - c + Depth
    BY FlexcommAssumption
  <2> QED BY <1>2, <2>1, <2>2
<1> QED BY <1>3, <1>4, FlexcommAssumption

\* Moving the head on by one renumbers the bytes behind it.
LEMMA NextSlot ==
  ASSUME NEW r \in 0 .. Depth - 1, NEW i \in 1 .. Depth - 1
  PROVE  /\ (r + 1) % Depth \in 0 .. Depth - 1
         /\ (((r + 1) % Depth) + i - 1) % Depth = (r + (i + 1) - 1) % Depth
         /\ (r + 1 - 1) % Depth = r
<1> DEFINE u == (r + 1) % Depth
<1>1. u = IF r + 1 < Depth THEN r + 1 ELSE 0
  BY FlexcommAssumption
<1>2. CASE r + 1 < Depth
  BY <1>1, <1>2, FlexcommAssumption
<1>3. CASE r + 1 = Depth
  BY SMTT(30), Z3T(30), <1>1, <1>3, FlexcommAssumption
<1> QED BY <1>2, <1>3, FlexcommAssumption

\* What mcxn_lpuart_rx does to the ring: the bytes it stores follow those that wait, and
\* it drops one only for want of room.
LEMMA RxStores ==
  ASSUME UartType, NEW n \in 1 .. MaxBytes, n <= queued - sent, mcxn_lpuart_rx(n)
  PROVE  /\ rx_fifo' \in [0 .. Depth - 1 -> Nat]
         /\ \E stored \in 0 .. n :
              /\ rx_count + stored \in 0 .. Depth
              /\ rx_count' = rx_count + stored
              /\ stat_or' = (stat_or \/ stored < n)
              /\ n <= Room => stored = n
              /\ \A i \in 1 .. rx_count : At(i)' = At(i)
              /\ \A i \in rx_count + 1 .. rx_count + stored : At(i)' = sent + i - rx_count
<1> DEFINE stored == IF n <= Room THEN n ELSE IF Room > 0 THEN Room ELSE 0
<1>1. /\ rx_fifo \in [0 .. Depth - 1 -> Nat] /\ rx_head \in 0 .. Depth - 1
      /\ rx_count \in 0 .. Depth /\ rxfe \in BOOLEAN /\ sent \in Nat
  BY DEF UartType
<1>2. Room \in Int /\ Room <= Depth - rx_count
  BY <1>1, FlexcommAssumption DEF Room, lpuart_rx_depth
<1>3. stored \in 0 .. n /\ rx_count + stored \in 0 .. Depth /\ (n <= Room => stored = n)
  BY <1>1, <1>2, FlexcommAssumption
<1>4. /\ rx_fifo' = [i \in 0 .. Depth - 1 |->
                      IF (i - rx_head - rx_count) % Depth < stored
                      THEN sent + 1 + ((i - rx_head - rx_count) % Depth) ELSE rx_fifo[i]]
      /\ rx_count' = rx_count + stored
      /\ stat_or' = (stat_or \/ stored < n)
      /\ rx_head' = rx_head
  BY DEF mcxn_lpuart_rx
<1>5. rx_fifo' \in [0 .. Depth - 1 -> Nat]
  <2>1. ASSUME NEW i \in 0 .. Depth - 1
        PROVE  sent + 1 + ((i - rx_head - rx_count) % Depth) \in Nat
    <3>1. i - rx_head - rx_count \in Int
      BY <1>1, FlexcommAssumption
    <3>2. (i - rx_head - rx_count) % Depth \in Nat
      BY SMTT(30), Z3T(30), <3>1, FlexcommAssumption
    <3> QED BY <1>1, <3>2
  <2> QED BY Zenon, <1>1, <1>4, <2>1
<1>6. ASSUME NEW i \in 1 .. rx_count + stored
      PROVE  At(i)' = IF i > rx_count THEN sent + i - rx_count ELSE At(i)
  <2> DEFINE p == (rx_head + i - 1) % Depth
             k == (p - rx_head - rx_count) % Depth
  <2>1. i \in 1 .. Depth
    BY SMTT(30), Z3T(30), <1>1, <1>3, FlexcommAssumption
  <2>2. p \in 0 .. Depth - 1
        /\ k = IF i > rx_count THEN i - 1 - rx_count ELSE i - 1 - rx_count + Depth
    BY <1>1, <2>1, Slot
  <2>3. At(i) = rx_fifo[p] /\ At(i)' = rx_fifo'[p]
    BY <1>4 DEF At
  <2>4. rx_fifo'[p] = IF k < stored THEN sent + 1 + k ELSE rx_fifo[p]
    <3> HIDE DEF stored, p
    <3> QED BY Zenon, <1>4, <2>2
  <2>5. k < stored <=> i > rx_count
    BY SMTT(30), Z3T(30), <1>1, <1>3, <2>1, <2>2, FlexcommAssumption
  <2>6. i > rx_count => sent + 1 + k = sent + i - rx_count
    BY <1>1, <2>1, <2>2, FlexcommAssumption
  <2> HIDE DEF k
  <2> QED BY Zenon, <2>3, <2>4, <2>5, <2>6
<1>7. /\ \A i \in 1 .. rx_count : At(i)' = At(i)
      /\ \A i \in rx_count + 1 .. rx_count + stored : At(i)' = sent + i - rx_count
  <2> HIDE DEF stored
  <2>1. ASSUME NEW i \in 1 .. rx_count
        PROVE  At(i)' = At(i)
    BY <1>1, <1>3, <1>6
  <2>2. ASSUME NEW i \in rx_count + 1 .. rx_count + stored
        PROVE  At(i)' = sent + i - rx_count
    BY <1>1, <1>3, <1>6
  <2> QED BY <2>1, <2>2
<1> QED BY <1>3, <1>4, <1>5, <1>7

\* The bytes keep their places when the ring and its neighbours stand still.
LEMMA RingStands ==
  ASSUME RingInv, UNCHANGED <<rxRing, stat_or, gone, sent>>
  PROVE  RingInv'
BY DEF RingInv, At, rxRing

\* An emptied ring is in order.
LEMMA Emptied ==
  ASSUME UartType, rx_count' = 0, gone' = sent, sent' = sent
  PROVE  RingInv'
<1>1. 1 .. rx_count' = {}
  OBVIOUS
<1>2. rx_count' = sent' - gone'
  BY DEF UartType
<1> QED BY <1>1, <1>2 DEF RingInv

\* What the backend records is a number of bytes.
LEMMA PrepareType ==
  ASSUME rx_count' \in 0 .. Depth, rxfe' \in BOOLEAN, Prepare
  PROVE  offer' \in Nat /\ notified' \in BOOLEAN /\ late' \in BOOLEAN /\ shrunk' \in BOOLEAN
<1>1. Room' \in Int
  BY FlexcommAssumption DEF Room, lpuart_rx_depth
<1>2. mcxn_lpuart_can_rx' \in {Room', 0}
  BY DEF mcxn_lpuart_can_rx
<1>3. mcxn_lpuart_can_rx' \in Int
  BY <1>1, <1>2
<1> DEFINE c == mcxn_lpuart_can_rx'
<1>4. offer' = IF c > 0 THEN c ELSE 0
  BY DEF Prepare
<1> HIDE DEF c
<1>5. offer' \in Nat
  BY <1>3, <1>4 DEF c
<1> QED BY Zenon, <1>5 DEF Prepare

\* Every step of the LPUART keeps the types; gone never passes sent.
LEMMA UartKeepsType ==
  ASSUME UartType, RingInv, UartNext
  PROVE  UartType'
<1> USE FlexcommAssumption
<1>1. /\ rx_head \in 0 .. Depth - 1 /\ rx_count \in 0 .. Depth /\ rxfe \in BOOLEAN
      /\ queued \in Nat /\ sent \in 0 .. queued /\ gone \in 0 .. sent
  BY Zenon DEF UartType
<1>2. CASE \E n \in 1 .. MaxBytes : tcp_chr_read(n)
  <2>1. PICK n \in 1 .. MaxBytes : tcp_chr_read(n)
    BY <1>2
  <2>2. n <= queued - sent /\ mcxn_lpuart_rx(n) /\ Prepare
    BY <2>1 DEF tcp_chr_read
  <2>3. /\ rx_fifo' \in [0 .. Depth - 1 -> Nat]
        /\ rx_count' \in 0 .. Depth
        /\ stat_or' \in BOOLEAN
    BY Zenon, <2>2, RxStores
  <2>4. UNCHANGED <<uartRegs, rx_head, gone, queued>> /\ sent' = sent + n
    BY <2>2 DEF mcxn_lpuart_rx
  <2>5. sent' \in 0 .. queued' /\ gone' \in 0 .. sent'
    BY SMTT(30), Z3T(30), <1>1, <2>2, <2>4
  <2>6. rxfe' \in BOOLEAN
    BY <1>1, <2>4 DEF uartRegs
  <2>7. offer' \in Nat /\ notified' \in BOOLEAN /\ late' \in BOOLEAN /\ shrunk' \in BOOLEAN
    BY Zenon, <2>2, <2>3, <2>6, PrepareType
  <2> QED BY <2>3, <2>4, <2>5, <2>7 DEF UartType, uartRegs
<1>3. CASE HostSends
  BY SMTT(30), Z3T(30), <1>1, <1>3 DEF HostSends, UartType, uartRegs, rxRing
<1>4. CASE Iterate
  <2>1. UNCHANGED <<uartRegs, rxRing, stat_or, gone, queued, sent>> /\ Prepare
    BY <1>4 DEF Iterate
  <2>2. offer' \in Nat /\ notified' \in BOOLEAN /\ late' \in BOOLEAN /\ shrunk' \in BOOLEAN
    BY Zenon, <1>1, <2>1, PrepareType DEF uartRegs, rxRing
  <2> QED BY <2>1, <2>2 DEF UartType, uartRegs, rxRing
<1>5. ASSUME NEW a, NEW b, Meanwhile(a, b)
      PROVE  /\ queued' \in Nat /\ sent' \in 0 .. queued' /\ offer' \in Nat
             /\ notified' \in BOOLEAN /\ late' \in BOOLEAN /\ shrunk' \in BOOLEAN
             /\ queued' = queued /\ sent' = sent
  BY <1>5 DEF Meanwhile, UartType
<1>6. CASE ReadData
  <2>1. lpuart_rx_pop /\ UNCHANGED <<uartRegs, stat_or>> /\ Meanwhile(TRUE, FALSE)
        /\ rx_count > 0
    BY Zenon, <1>6 DEF ReadData
  <2>2. rx_head' \in 0 .. Depth - 1 /\ rx_count' \in 0 .. Depth
    BY <1>1, <2>1 DEF lpuart_rx_pop
  <2>3. gone' \in 0 .. sent
    <3>1. 1 \in 1 .. rx_count
      BY <1>1, <2>1
    <3>2. At(1) \in gone + 1 .. sent
      BY <3>1 DEF RingInv
    <3>3. At(1) = rx_fifo[rx_head]
      BY <1>1 DEF At
    <3> QED BY SMTT(30), Z3T(30), <1>1, <2>1, <3>2, <3>3 DEF lpuart_rx_pop
  <2> QED BY Zenon, <1>5, <2>1, <2>2, <2>3 DEF UartType, uartRegs, lpuart_rx_pop
<1>7. Flush => rx_head' \in 0 .. Depth - 1 /\ rx_count' \in 0 .. Depth /\ gone' = sent
               /\ rx_fifo' = rx_fifo
  BY DEF Flush
<1>8. CASE \E fe, flush \in BOOLEAN : WriteFifo(fe, flush)
  <2>1. PICK fe \in BOOLEAN, flush \in BOOLEAN : WriteFifo(fe, flush)
    BY <1>8
  <2>2. /\ rxfe' = fe /\ UNCHANGED <<ctrl, baud, water, stat_or>>
        /\ Meanwhile(flush, ~flush)
    BY <2>1 DEF WriteFifo
  <2>3. /\ rx_head' \in 0 .. Depth - 1 /\ rx_count' \in 0 .. Depth /\ gone' \in 0 .. sent
        /\ rx_fifo' = rx_fifo
    BY <1>1, <1>7, <2>1 DEF WriteFifo, rxRing
  <2> QED BY Zenon, <1>5, <2>2, <2>3 DEF UartType
<1>9. CASE \E n \in 0 .. Depth - 1 : WriteWater(n)
  <2>1. PICK n \in 0 .. Depth - 1 : WriteWater(n)
    BY <1>9
  <2>2. water' \in Nat
    BY <2>1 DEF WriteWater
  <2> QED BY Zenon, <1>5, <2>1, <2>2 DEF WriteWater, UartType, rxRing
<1>10. CASE \E v \in SUBSET Dir : WriteBaud(v)
  BY Zenon, <1>5, <1>10 DEF WriteBaud, UartType, rxRing
<1>11. CASE \E v \in CtrlIn : WriteCtrl(v)
  BY Zenon, <1>5, <1>11 DEF WriteCtrl, UartType, rxRing
<1>12. CASE UartReset
  <2>1. Off \in CtrlReg
    BY DEF Off, CtrlReg
  <2>2. Meanwhile(FALSE, FALSE) /\ Flush
    BY Zenon, <1>12 DEF UartReset
  <2>3. ctrl' \in CtrlReg /\ baud' \subseteq Dir /\ rxfe' \in BOOLEAN /\ water' \in Nat
        /\ stat_or' \in BOOLEAN
    BY Zenon, <1>12, <2>1 DEF UartReset
  <2>4. gone' \in 0 .. sent'
    <3>1. gone' = sent /\ sent' = sent
      BY <1>7, <2>2 DEF Meanwhile
    <3> QED BY SMTT(30), Z3T(30), <1>1, <3>1
  <2>5. rx_fifo' \in [0 .. Depth - 1 -> Nat]
    BY Zenon, <1>7, <2>2 DEF UartType
  <2> QED BY Zenon, <1>5, <1>7, <2>2, <2>3, <2>4, <2>5 DEF UartType
<1> QED BY Zenon, <1>2, <1>3, <1>4, <1>6, <1>8, <1>9, <1>10, <1>11,
           <1>12 DEF UartNext

\* Storing bytes keeps the ring in order.
LEMMA RxInOrder ==
  ASSUME UartType, RingInv, NEW n \in 1 .. MaxBytes, tcp_chr_read(n)
  PROVE  RingInv'
<1> USE FlexcommAssumption
<1>1. /\ rx_count \in 0 .. Depth /\ stat_or \in BOOLEAN
      /\ queued \in Nat /\ sent \in 0 .. queued /\ gone \in 0 .. sent
  BY DEF UartType
<1>2. n <= queued - sent /\ mcxn_lpuart_rx(n)
  BY DEF tcp_chr_read
<1>3. gone' = gone /\ sent' = sent + n
  BY Zenon, <1>2 DEF mcxn_lpuart_rx
<1>4. PICK stored \in 0 .. n :
        /\ rx_count + stored \in 0 .. Depth
        /\ rx_count' = rx_count + stored
        /\ stat_or' = (stat_or \/ stored < n)
        /\ \A i \in 1 .. rx_count : At(i)' = At(i)
        /\ \A i \in rx_count + 1 .. rx_count + stored : At(i)' = sent + i - rx_count
  BY Zenon, <1>2, RxStores
<1>5. ASSUME NEW i \in 1 .. rx_count'
      PROVE  At(i)' = IF i <= rx_count THEN At(i) ELSE sent + i - rx_count
  BY <1>1, <1>4
<1>6. ASSUME NEW i \in 1 .. rx_count
      PROVE  At(i) \in gone + 1 .. sent
  BY DEF RingInv
<1>7. ASSUME NEW i \in 1 .. rx_count'
      PROVE  At(i)' \in gone' + 1 .. sent'
  <2>1. CASE i <= rx_count
    BY SMTT(30), Z3T(30), <1>1, <1>3, <1>4, <1>5, <1>6, <2>1
  <2>2. CASE i > rx_count
    <3>1. At(i)' = sent + i - rx_count
      BY SMTT(30), Z3T(30), <1>1, <1>4, <1>5, <2>2
    <3> QED BY SMTT(30), Z3T(30), <1>1, <1>3, <1>4, <2>2, <3>1
  <2> QED BY SMTT(30), Z3T(30), <1>1, <1>4, <2>1, <2>2
<1>8. ASSUME NEW i \in 1 .. rx_count', NEW j \in 1 .. rx_count', i < j
      PROVE  At(i)' < At(j)'
  <2>1. CASE j <= rx_count
    <3>1. i \in 1 .. rx_count /\ j \in 1 .. rx_count
      BY SMTT(30), Z3T(30), <1>1, <1>4, <1>8, <2>1
    <3>2. At(i) < At(j)
      BY Zenon, <1>8, <3>1 DEF RingInv
    <3>3. At(i)' = At(i) /\ At(j)' = At(j)
      BY Zenon, <1>4, <3>1
    <3> QED BY Zenon, <3>2, <3>3
  <2>2. CASE j > rx_count /\ i <= rx_count
    <3>1. i \in 1 .. rx_count /\ j \in rx_count + 1 .. rx_count + stored
      BY SMTT(30), Z3T(30), <1>1, <1>4, <1>8, <2>2
    <3>2. At(i)' = At(i) /\ At(j)' = sent + j - rx_count
      BY <1>4, <3>1
    <3>3. At(i) \in gone + 1 .. sent
      BY Zenon, <1>6, <3>1
    <3> QED BY SMTT(30), Z3T(30), <1>1, <3>1, <3>2, <3>3
  <2>3. CASE i > rx_count
    <3>1. i \in rx_count + 1 .. rx_count + stored /\ j \in rx_count + 1 .. rx_count + stored
      BY SMTT(30), Z3T(30), <1>1, <1>4, <1>8, <2>3
    <3>2. At(i)' = sent + i - rx_count /\ At(j)' = sent + j - rx_count
      BY <1>4, <3>1
    <3> QED BY SMTT(30), Z3T(30), <1>1, <1>8, <3>1, <3>2
  <2> QED BY SMTT(30), Z3T(30), <1>1, <1>4, <2>1, <2>2, <2>3
<1>9. ASSUME ~stat_or'
      PROVE  /\ rx_count' = sent' - gone'
             /\ \A i \in 1 .. rx_count' : At(i)' = gone' + i
  <2>1. ~stat_or /\ stored = n
    <3>1. ~stat_or /\ ~(stored < n)
      BY <1>4, <1>9, Zenon
    <3> QED BY <3>1
  <2>2. rx_count = sent - gone /\ \A i \in 1 .. rx_count : At(i) = gone + i
    BY Zenon, <2>1 DEF RingInv
  <2>3. rx_count' = sent' - gone'
    BY SMTT(30), Z3T(30), <1>1, <1>3, <1>4, <2>1, <2>2
  <2>4. ASSUME NEW i \in 1 .. rx_count'
        PROVE  At(i)' = gone' + i
    <3>1. CASE i <= rx_count
      <4>1. i \in 1 .. rx_count
        BY SMTT(30), Z3T(30), <1>1, <1>4, <3>1
      <4> QED BY Zenon, <1>3, <1>4, <2>2, <4>1
    <3>2. CASE i > rx_count
      <4>1. At(i)' = sent + i - rx_count
        BY <1>1, <1>4, <1>5, <3>2
      <4> QED BY SMTT(30), Z3T(30), <1>1, <1>3, <1>4, <2>2, <4>1
    <3> QED BY SMTT(30), Z3T(30), <1>1, <1>4, <3>1, <3>2
  <2> QED BY <2>3, <2>4
<1> QED BY Zenon, <1>7, <1>8, <1>9 DEF RingInv

\* Reading DATA takes the oldest byte and keeps the others in order.
LEMMA PopInOrder ==
  ASSUME UartType, RingInv, ReadData
  PROVE  RingInv'
<1> USE FlexcommAssumption
<1>1. /\ rx_head \in 0 .. Depth - 1 /\ rx_count \in 1 .. Depth
      /\ queued \in Nat /\ sent \in 0 .. queued /\ gone \in 0 .. sent
  BY SMTT(30), Z3T(30) DEF UartType, ReadData
<1>2. /\ gone' = rx_fifo[rx_head] /\ rx_head' = (rx_head + 1) % Depth
      /\ rx_count' = rx_count - 1 /\ rx_fifo' = rx_fifo
      /\ stat_or' = stat_or /\ sent' = sent
  BY Zenon DEF ReadData, lpuart_rx_pop, Meanwhile
<1>3. gone' = At(1)
  BY SMTT(30), Z3T(30), <1>1, <1>2 DEF At
<1>4. ASSUME NEW i \in 1 .. rx_count'
      PROVE  At(i)' = At(i + 1) /\ i + 1 \in 1 .. rx_count
  <2>1. i \in 1 .. Depth - 1 /\ i + 1 \in 1 .. rx_count
    BY <1>1, <1>2
  <2>2. (((rx_head + 1) % Depth) + i - 1) % Depth = (rx_head + (i + 1) - 1) % Depth
    BY Zenon, <1>1, <2>1, NextSlot
  <2> QED BY Zenon, <1>2, <2>1, <2>2 DEF At
<1>5. 1 \in 1 .. rx_count
  BY SMTT(30), Z3T(30), <1>1
<1>6. ASSUME NEW i \in 1 .. rx_count'
      PROVE  At(i)' \in gone' + 1 .. sent'
  <2>1. i + 1 \in 1 .. rx_count /\ At(i)' = At(i + 1) /\ 1 < i + 1
    BY SMTT(30), Z3T(30), <1>1, <1>2, <1>4
  <2>2. At(1) < At(i + 1) /\ At(i + 1) \in gone + 1 .. sent /\ At(1) \in gone + 1 .. sent
    BY Zenon, <1>5, <2>1 DEF RingInv
  <2> QED BY SMTT(30), Z3T(30), <1>1, <1>2, <1>3, <2>1, <2>2
<1>7. ASSUME NEW i \in 1 .. rx_count', NEW j \in 1 .. rx_count', i < j
      PROVE  At(i)' < At(j)'
  <2>1. /\ i + 1 \in 1 .. rx_count /\ At(i)' = At(i + 1)
        /\ j + 1 \in 1 .. rx_count /\ At(j)' = At(j + 1)
        /\ i + 1 < j + 1
    BY SMTT(30), Z3T(30), <1>1, <1>2, <1>4, <1>7
  <2>2. At(i + 1) < At(j + 1)
    BY <2>1 DEF RingInv
  <2> QED BY Zenon, <2>1, <2>2
<1>8. ASSUME ~stat_or'
      PROVE  /\ rx_count' = sent' - gone'
             /\ \A i \in 1 .. rx_count' : At(i)' = gone' + i
  <2>1. rx_count = sent - gone /\ \A i \in 1 .. rx_count : At(i) = gone + i
    BY Zenon, <1>2, <1>8 DEF RingInv
  <2>2. gone' = gone + 1
    BY Zenon, <1>3, <1>5, <2>1
  <2>3. ASSUME NEW i \in 1 .. rx_count'
        PROVE  At(i)' = gone' + i
    <3>1. At(i)' = At(i + 1) /\ i + 1 \in 1 .. rx_count
      BY Zenon, <1>4
    <3>2. At(i + 1) = gone + (i + 1)
      BY Zenon, <2>1, <3>1
    <3> QED BY SMTT(30), Z3T(30), <1>1, <1>2, <2>2, <3>1, <3>2
  <2>4. rx_count' = sent' - gone'
    BY SMTT(30), Z3T(30), <1>1, <1>2, <2>1, <2>2
  <2> QED BY Zenon, <2>3, <2>4
<1> QED BY Zenon, <1>6, <1>7, <1>8 DEF RingInv

\* No step of the LPUART puts its ring out of order.
LEMMA UartKeepsRing ==
  ASSUME UartType, RingInv, UartNext
  PROVE  RingInv'
<1>1. CASE \E n \in 1 .. MaxBytes : tcp_chr_read(n)
  BY <1>1, RxInOrder
<1>2. CASE ReadData
  BY <1>2, PopInOrder
<1>3. CASE Flush /\ sent' = sent
  BY <1>3, Emptied DEF Flush
<1>4. CASE UNCHANGED <<rxRing, stat_or, gone, sent>>
  BY ZenonT(40), <1>4, RingStands
<1>5. \/ \E n \in 1 .. MaxBytes : tcp_chr_read(n)
      \/ ReadData
      \/ Flush /\ sent' = sent
      \/ UNCHANGED <<rxRing, stat_or, gone, sent>>
  BY ZenonT(40) DEF UartNext, HostSends, Iterate, WriteFifo, WriteWater, WriteBaud, WriteCtrl,
         UartReset, Meanwhile
<1> QED BY Zenon, <1>1, <1>2, <1>3, <1>4, <1>5

\* An iteration of the main loop records the room there is.
LEMMA PrepareOffers ==
  ASSUME UartType', Prepare
  PROVE  OfferInv'
<1> DEFINE c == mcxn_lpuart_can_rx'
<1>1. c \in {Room', 0} /\ Room' \in Int
  <2>1. rx_count' \in 0 .. Depth /\ rxfe' \in BOOLEAN
    BY Zenon DEF UartType
  <2>2. Room' \in Int
    BY <2>1, FlexcommAssumption DEF Room, lpuart_rx_depth
  <2>3. c = Room' \/ c = 0
    BY Zenon DEF mcxn_lpuart_can_rx
  <2> QED BY Zenon, <2>2, <2>3
<1>2. offer' = IF c > 0 THEN c ELSE 0
  BY DEF Prepare
<1> HIDE DEF c
<1>3. (offer' > 0 => offer' <= Room') /\ (c > 0 => offer' > 0)
  BY <1>1, <1>2
<1> QED BY Zenon, <1>3 DEF OfferInv, c

\* A guest access keeps track of what it does to the room.
LEMMA MeanwhileOffers ==
  ASSUME UartType, UartType', OfferInv, NEW notify \in BOOLEAN, NEW enable \in BOOLEAN,
         Meanwhile(notify, enable),
         notify \/ enable \/ mcxn_lpuart_can_rx' = mcxn_lpuart_can_rx
           \/ mcxn_lpuart_can_rx' = 0
  PROVE  OfferInv'
<1> DEFINE c == mcxn_lpuart_can_rx
<1>1. offer' = offer /\ offer \in Nat /\ c \in Int
  <2>1. offer' = offer /\ offer \in Nat /\ rx_count \in 0 .. Depth /\ rxfe \in BOOLEAN
    BY Zenon DEF Meanwhile, UartType
  <2>2. Room \in Int
    BY <2>1, FlexcommAssumption DEF Room, lpuart_rx_depth
  <2>3. c = Room \/ c = 0
    BY Zenon DEF mcxn_lpuart_can_rx
  <2> HIDE DEF c
  <2> QED BY <2>1, <2>2, <2>3
<1>2. ~shrunk' => ~(offer > Room') /\ ~shrunk
  BY Zenon DEF Meanwhile
<1>3. notified' = (notified \/ notify)
      /\ late' = (late \/ (enable /\ c <= 0 /\ c' > 0))
  BY DEF Meanwhile
<1>4. c > 0 => offer > 0 \/ notified \/ late
  BY DEF OfferInv
<1> HIDE DEF c
<1>5. c <= 0 \/ c > 0
  BY <1>1
<1>6. c' > 0 => offer > 0 \/ notified' \/ late'
  <2> SUFFICES ASSUME c' > 0 PROVE offer > 0 \/ notified' \/ late'
    OBVIOUS
  <2>1. CASE c > 0
    BY Zenon, <1>3, <1>4, <2>1
  <2>2. CASE c <= 0 /\ (notify \/ enable)
    BY <1>3, <2>2
  <2>3. CASE c <= 0 /\ (c' = c \/ c' = 0)
    BY SMTT(30), Z3T(30), <1>1, <2>3
  <2> QED BY <1>5, <2>1, <2>2, <2>3 DEF c
<1>7. Room' \in Int
  <2>1. rx_count' \in 0 .. Depth /\ rxfe' \in BOOLEAN
    BY DEF UartType
  <2> QED BY SMTT(30), Z3T(30), <2>1, FlexcommAssumption DEF Room, lpuart_rx_depth
<1>8. ~shrunk' => offer' <= Room'
  BY SMTT(30), Z3T(30), <1>1, <1>2, <1>7
<1> QED BY <1>1, <1>6, <1>8 DEF OfferInv, c

\* Nobody forgets room that was made, and an offer stands until room is taken away.
LEMMA UartKeepsOffer ==
  ASSUME UartType, UartType', OfferInv, UartNext
  PROVE  OfferInv'
<1>1. CASE Prepare
  BY Zenon, <1>1, PrepareOffers
<1>2. CASE HostSends
  BY <1>2 DEF HostSends, OfferInv, Room, lpuart_rx_depth, mcxn_lpuart_can_rx, uartRegs,
              rxRing
<1>3. CASE ReadData
  BY Zenon, <1>3, MeanwhileOffers DEF ReadData
<1>4. CASE \E fe, flush \in BOOLEAN : WriteFifo(fe, flush)
  <2>1. PICK fe \in BOOLEAN, flush \in BOOLEAN : WriteFifo(fe, flush)
    BY <1>4
  <2>2. Meanwhile(flush, ~flush) /\ (flush \/ ~flush)
    BY <2>1 DEF WriteFifo
  <2> QED BY Zenon, <2>2, MeanwhileOffers
<1>5. CASE \E n \in 0 .. Depth - 1 : WriteWater(n)
  <2>1. Meanwhile(FALSE, FALSE) /\ mcxn_lpuart_can_rx' = mcxn_lpuart_can_rx
    <3>1. Meanwhile(FALSE, FALSE) /\ UNCHANGED <<ctrl, rxfe, rx_count>>
      BY Zenon, <1>5 DEF WriteWater, rxRing
    <3> QED BY Zenon, <3>1 DEF mcxn_lpuart_can_rx, Room, lpuart_rx_depth
  <2> QED BY Zenon, <2>1, MeanwhileOffers
<1>6. CASE \E v \in SUBSET Dir : WriteBaud(v)
  <2>1. Meanwhile(FALSE, FALSE) /\ mcxn_lpuart_can_rx' = mcxn_lpuart_can_rx
    <3>1. Meanwhile(FALSE, FALSE) /\ UNCHANGED <<ctrl, rxfe, rx_count>>
      BY Zenon, <1>6 DEF WriteBaud, rxRing
    <3> QED BY Zenon, <3>1 DEF mcxn_lpuart_can_rx, Room, lpuart_rx_depth
  <2> QED BY Zenon, <2>1, MeanwhileOffers
<1>7. CASE \E v \in CtrlIn : WriteCtrl(v)
  <2>1. Meanwhile(FALSE, TRUE)
    BY Zenon, <1>7 DEF WriteCtrl
  <2> QED BY Zenon, <2>1, MeanwhileOffers
<1>8. CASE UartReset
  <2>1. Meanwhile(FALSE, FALSE) /\ mcxn_lpuart_can_rx' = 0
    BY Zenon, <1>8 DEF UartReset, mcxn_lpuart_can_rx, Off
  <2> QED BY Zenon, <2>1, MeanwhileOffers
<1> QED BY <1>1, <1>2, <1>3, <1>4, <1>5, <1>6, <1>7, <1>8 DEF UartNext, tcp_chr_read,
                                                              Iterate

\* The reset state satisfies the invariant.
LEMMA UartInitInv == UartInit => UartInv
<1> SUFFICES ASSUME UartInit PROVE UartInv
  OBVIOUS
<1>1. UartType
  <2>1. Off \in CtrlReg
    BY DEF Off, CtrlReg
  <2>2. rx_head \in 0 .. Depth - 1 /\ rx_count \in 0 .. Depth
        /\ rx_fifo \in [0 .. Depth - 1 -> Nat]
    BY FlexcommAssumption DEF UartInit
  <2>3. queued \in Nat /\ sent \in 0 .. queued /\ gone \in 0 .. sent /\ offer \in Nat
        /\ water \in Nat
    BY DEF UartInit
  <2> QED BY Zenon, <2>1, <2>2, <2>3 DEF UartInit, UartType
<1>2. RingInv
  <2>1. 1 .. rx_count = {} /\ rx_count = sent - gone
    BY SMTT(30), Z3T(30) DEF UartInit
  <2> QED BY <2>1 DEF RingInv
<1>3. OfferInv
  BY DEF UartInit, OfferInv, mcxn_lpuart_can_rx, Off
<1> QED BY <1>1, <1>2, <1>3 DEF UartInv

\* The invariant of the LPUART is inductive.
LEMMA UartNextInv == UartInv /\ [UartNext]_uart => UartInv'
<1> SUFFICES ASSUME UartInv, [UartNext]_uart PROVE UartInv'
  OBVIOUS
<1>1. CASE UartNext
  BY <1>1, UartKeepsType, UartKeepsRing, UartKeepsOffer DEF UartInv
<1>2. CASE UNCHANGED uart
  BY Zenon, <1>2 DEF UartInv, UartType, RingInv, At, OfferInv, Room, lpuart_rx_depth,
              mcxn_lpuart_can_rx, uart, uartRegs, rxRing, host
<1> QED BY <1>1, <1>2

\* Whatever the guest does to the three functions, and the machine to the device, the
\* LPUART takes one of its own steps or none; a migration is an iteration of a new
\* main loop.
LEMMA AnyStepOfUart ==
  ASSUME [FlexcommNext]_flexcomm
  PROVE  [UartNext]_uart
<1>1. CASE Chardev
  BY Zenon, <1>1 DEF Chardev, Arrive, Peer, MainLoop, UartNext
<1>2. CASE Guest
  BY Zenon, <1>2 DEF Guest, UartAccess, SpiAccess, I2cAccess, UartNext
<1>3. CASE mcxn_lpuart_reset
  BY <1>3 DEF mcxn_lpuart_reset, UartNext
<1>4. CASE mcxn_lpuart_post_load
  BY Zenon, <1>4 DEF mcxn_lpuart_post_load, UartNext, Iterate
<1>5. CASE UNCHANGED uart
  BY <1>5
<1>6. \/ Chardev \/ Guest \/ mcxn_lpuart_reset \/ mcxn_lpuart_post_load \/ UNCHANGED uart
  BY Zenon DEF FlexcommNext, SpiTcr, I2cAccess, FlushMrdr, WritePselid, flexcomm
<1> QED BY <1>1, <1>2, <1>3, <1>4, <1>5, <1>6

\* The LPUART's invariant holds for any guest.
LEMMA UartInvariant == FlexcommSpec => []UartInv
<1>1. FlexcommInit => UartInv
  BY UartInitInv DEF FlexcommInit
<1>2. UartInv /\ [FlexcommNext]_flexcomm => UartInv'
  BY AnyStepOfUart, UartNextInv
<1> QED BY <1>1, <1>2, PTL DEF FlexcommSpec

\* For any depth and any guest, also one that disables the FIFO over waiting bytes,
\* resets and migrates: bytes are read in the order the peer sent them, none twice,
\* and none is missing while STAT[OR] is clear (lpuart_rx_push, lpuart_rx_pop).
THEOREM InOrderForAnyGuest == FlexcommSpec => []BytesInOrder
<1>1. UartInv => BytesInOrder
  <2> SUFFICES ASSUME UartInv PROVE BytesInOrder
    OBVIOUS
  <2>1. RingInv
    BY DEF UartInv
  <2>2. \A i \in 1 .. rx_count : Received[i] = At(i)
    BY DEF Received, At
  <2>3. stat_or \/ rx_count = sent - gone
    BY <2>1 DEF RingInv
  <2> QED BY <2>1, <2>2, <2>3 DEF RingInv, BytesInOrder
<1> QED BY <1>1, UartInvariant, PTL

\* For any depth and any guest the main loop polls or is about to whenever there is
\* room and a byte to deliver, unless the room was made by enabling the receiver or its
\* FIFO (mcxn_lpuart_can_rx and the calls of qemu_chr_fe_accept_input).
THEOREM StallsOnlyAfterLateEnable == FlexcommSpec => []OnlyLateEnableStalls
<1>1. UartInv => OnlyLateEnableStalls
  BY DEF UartInv, OfferInv, OnlyLateEnableStalls
<1> QED BY <1>1, UartInvariant, PTL

\* STAT[OR] comes up only in a delivery larger than the room that is left.
LEMMA OverrunStep ==
  ASSUME UartInv, [UartNext]_uart
  PROVE  stat_or' /\ ~stat_or => shrunk
<1>1. CASE \E n \in 1 .. MaxBytes : tcp_chr_read(n)
  <2>1. PICK n \in 1 .. MaxBytes : tcp_chr_read(n)
    BY <1>1
  <2>2. n <= offer /\ n <= queued - sent /\ mcxn_lpuart_rx(n)
    BY <2>1 DEF tcp_chr_read
  <2>3. stat_or' /\ ~stat_or => ~(n <= Room)
    <3>1. PICK stored \in 0 .. n :
            stat_or' = (stat_or \/ stored < n) /\ (n <= Room => stored = n)
      BY Zenon, <2>2, RxStores DEF UartInv
    <3>2. n <= Room => ~(stored < n)
      BY <3>1, FlexcommAssumption
    <3> QED BY <3>1, <3>2, Zenon
  <2>4. ~shrunk => n <= Room
    <3>1. offer \in Nat /\ Room \in Int
      BY FlexcommAssumption DEF UartInv, UartType, Room, lpuart_rx_depth
    <3>2. ~shrunk /\ offer > 0 => offer <= Room
      BY DEF UartInv, OfferInv
    <3> QED BY SMTT(30), Z3T(30), <2>2, <3>1, <3>2, FlexcommAssumption
  <2> QED BY <2>3, <2>4, Zenon
<1>2. CASE stat_or' = stat_or \/ stat_or' = FALSE
  BY Zenon, <1>2
<1>3. (\E n \in 1 .. MaxBytes : tcp_chr_read(n)) \/ stat_or' = stat_or \/ stat_or' = FALSE
  BY Zenon DEF UartNext, HostSends, Iterate, ReadData, WriteFifo, WriteWater, WriteBaud,
         WriteCtrl, UartReset, uart
<1> QED BY Zenon, <1>1, <1>2, <1>3

\* For any depth and any guest a byte is dropped only when the guest took room away
\* after the backend had asked for it (mcxn_lpuart_can_rx, mcxn_lpuart_rx).
THEOREM OverrunsOnlyAfterShrinking == FlexcommSpec => OnlyShrinkingOverruns
<1>1. UartInv /\ [FlexcommNext]_flexcomm => [stat_or' /\ ~stat_or => shrunk]_uart
  BY AnyStepOfUart, OverrunStep
<1> QED BY <1>1, UartInvariant, PTL DEF FlexcommSpec, OnlyShrinkingOverruns

-----------------------------------------------------------------------------
\* The driver is a guest.
LEMMA DriverIsGuest == [DriverNext]_flexcomm => [FlexcommNext]_flexcomm
BY DEF DriverNext, FlexcommNext

\* Every step keeps a command and the device's transaction the same length.
LEMMA SpiNextInv ==
  ASSUME SpiInv, [DriverNext]_flexcomm
  PROVE  SpiInv'
<1> USE FlexcommAssumption
<1>1. /\ spi_tcr \in Tcr /\ spi_cs_asserted \in BOOLEAN /\ pos \in Nat /\ chain = pos
      /\ pos > 0 => spi_cs_asserted
      /\ spi_tcr.rxmsk => ~spi_tcr.cont /\ chain = 0
      /\ spi_tcr.cont \in BOOLEAN /\ spi_tcr.rxmsk \in BOOLEAN
  BY Zenon DEF SpiInv, SpiType, OneTransaction, Tcr
<1>2. CASE UNCHANGED <<spi_tcr, spiBus>>
  BY <1>2 DEF SpiInv, SpiType, OneTransaction, spiBus
<1> DEFINE Idle == /\ spi_tcr' \in Tcr /\ (spi_tcr'.rxmsk => ~spi_tcr'.cont)
                   /\ spi_cs_asserted' = FALSE /\ pos' = 0 /\ chain' = 0
<1>0. ASSUME Idle PROVE SpiInv'
  <2>1. ~(pos' > 0) /\ pos' \in Nat /\ chain' \in Nat
    BY <1>0
  <2> QED BY <1>0, <2>1, Zenon DEF SpiInv, SpiType, OneTransaction
<1>3. CASE ReleaseCs /\ spi_tcr' = spi_tcr
  <2>1. pos' = 0
    BY <1>1, <1>3 DEF ReleaseCs
  <2> QED BY Zenon, <1>0, <1>1, <1>3, <2>1 DEF ReleaseCs
<1>4. CASE SpiReset
  <2>1. ResetTcr \in Tcr /\ ~ResetTcr.rxmsk
    BY DEF ResetTcr, Tcr
  <2> QED BY Zenon, <1>0, <1>4, <2>1 DEF SpiReset
<1>5. CASE SpiLoad /\ chain = 0
  BY ZenonT(40), <1>0, <1>1, <1>5 DEF SpiLoad
<1>6. CASE \E v \in Tcr : (v.rxmsk => ~v.cont /\ chain = 0) /\ SpiTcr(v)
  BY <1>1, <1>6 DEF SpiTcr, WriteTcr, SpiInv, SpiType, OneTransaction, spiBus
<1>7. CASE WriteTdr
  <2>1. /\ chain' = IF spi_tcr.cont THEN chain + 1 ELSE 0
        /\ IF spi_tcr.rxmsk THEN UNCHANGED <<spi_cs_asserted, pos>>
           ELSE /\ spi_cs_asserted' = spi_tcr.cont
                /\ pos' = IF spi_tcr.cont THEN pos + 1 ELSE 0
        /\ spi_tcr' = spi_tcr
    BY Zenon, <1>7 DEF WriteTdr, Transfer, spiRegs
  <2>2. CASE spi_tcr.rxmsk
    BY ZenonT(40), <1>1, <2>1, <2>2 DEF SpiInv, SpiType, OneTransaction
  <2>3. CASE ~spi_tcr.rxmsk
    BY SMTT(30), Z3T(30), <1>1, <2>1, <2>3 DEF SpiInv, SpiType, OneTransaction
  <2> QED BY Zenon, <2>2, <2>3
<1>8. \/ UNCHANGED <<spi_tcr, spiBus>>
      \/ ReleaseCs /\ spi_tcr' = spi_tcr
      \/ SpiReset
      \/ SpiLoad /\ chain = 0
      \/ \E v \in Tcr : (v.rxmsk => ~v.cont /\ chain = 0) /\ SpiTcr(v)
      \/ WriteTdr
  <2>1. CASE Guest
    BY Zenon, <2>1 DEF Guest, UartAccess, SpiAccess, I2cAccess, WriteCrRst, WriteCr,
                       WriteSr,
                WriteSpiIer, WriteSpiDer, ReadRdr, spi, spiRegs
  <2>2. CASE ~Guest
    BY Zenon, <2>2 DEF DriverNext, Chardev, Arrive, Peer, MainLoop, I2cAccess, FlushMrdr,
                WritePselid, mcxn_lpuart_reset, mcxn_lpuart_post_load, flexcomm, spi, spiRegs
  <2> QED BY <2>1, <2>2
<1> QED BY ZenonT(40), <1>2, <1>3, <1>4, <1>5, <1>6, <1>7, <1>8

\* Every step keeps the count of bytes to come and the flag in step with what was asked.
LEMMA I2cNextInv ==
  ASSUME I2cInv, [DriverNext]_flexcomm
  PROVE  I2cInv'
<1>1. /\ i2c_rx_full \in BOOLEAN /\ i2c_rx_pending \in Nat /\ asked \in Nat
      /\ asked = i2c_rx_pending + (IF i2c_rx_full THEN 1 ELSE 0)
      /\ asked > 0 => i2c_rx_full
  BY DEF I2cInv, AskedIsOffered
<1>2. CASE UNCHANGED i2cRx
  BY <1>2 DEF I2cInv, AskedIsOffered, i2cRx
<1>a. ASSUME i2c_rx_full' = FALSE, i2c_rx_pending' = 0, asked' = 0
      PROVE  I2cInv'
  <2>1. ~(asked' > 0) /\ asked' = i2c_rx_pending' + 0 /\ 0 \in Nat
    BY <1>a
  <2> QED BY <1>a, <2>1, Zenon DEF I2cInv, AskedIsOffered
<1>b. ASSUME NEW n \in Nat, i2c_rx_full' = TRUE, i2c_rx_pending' = n, asked' = n + 1
      PROVE  I2cInv'
  <2>1. n + 1 \in Nat
    OBVIOUS
  <2> QED BY <1>b, <2>1, Zenon DEF I2cInv, AskedIsOffered
<1>3. CASE Forget
  BY Zenon, <1>3, <1>a DEF Forget
<1>4. CASE \E men \in BOOLEAN : Fetched /\ WriteMcr(men, TRUE)
  <2>1. i2c_rx_full' = FALSE /\ i2c_rx_pending' = 0
    BY <1>4, Zenon DEF Fetched, WriteMcr
  <2>2. asked' = 0
    BY <1>1, <1>4 DEF Fetched, WriteMcr
  <2> QED BY Zenon, <1>a, <2>1, <2>2
<1>5. CASE Fetched /\ Stop
  BY Zenon, <1>1, <1>5 DEF Fetched, Stop, I2cInv, AskedIsOffered
<1>6. CASE \E n \in 1 .. MaxAsk : Receive(n)
  BY <1>1, <1>6, FlexcommAssumption DEF Receive, I2cInv, AskedIsOffered
<1>7. CASE ReadMrdr
  <2>1. /\ i2c_rx_full /\ i2c_rx_full' = (i2c_rx_pending > 0)
        /\ i2c_rx_pending' = IF i2c_rx_pending > 0 THEN i2c_rx_pending - 1 ELSE 0
        /\ asked' = IF asked > 0 THEN asked - 1 ELSE 0
    BY <1>7 DEF ReadMrdr
  <2>2. CASE i2c_rx_pending > 0
    <3>1. i2c_rx_full' = TRUE
      BY <2>1, <2>2, Zenon
    <3>2. i2c_rx_pending' \in Nat /\ asked' = i2c_rx_pending' + 1
      BY <1>1, <2>1, <2>2
    <3> QED BY Zenon, <1>b, <3>1, <3>2
  <2>3. CASE ~(i2c_rx_pending > 0)
    <3>1. i2c_rx_full' = FALSE
      <4>1. (i2c_rx_pending > 0) = FALSE
        BY <1>1, <2>3
      <4> QED BY <2>1, <4>1, Zenon
    <3>2. i2c_rx_pending' = 0 /\ asked' = 0
      BY <1>1, <2>1, <2>3
    <3> QED BY Zenon, <1>a, <3>1, <3>2
  <2> QED BY <2>2, <2>3
<1>8. \/ UNCHANGED i2cRx
      \/ Forget
      \/ \E men \in BOOLEAN : Fetched /\ WriteMcr(men, TRUE)
      \/ Fetched /\ Stop
      \/ \E n \in 1 .. MaxAsk : Receive(n)
      \/ ReadMrdr
  <2>1. CASE Guest
    <3>1. ASSUME NEW men \in BOOLEAN, WriteMcr(men, FALSE)
          PROVE  UNCHANGED i2cRx
      BY <1>1, <3>1 DEF WriteMcr, i2cRx
    <3> QED BY Zenon, <2>1, <3>1 DEF Guest, UartAccess, SpiAccess, I2cAccess, WriteMcrRst,
                                     WriteMsr,
                WriteMier, WriteMder, Start, Transmit, i2c
  <2>2. CASE ~Guest
    BY Zenon, <2>2 DEF DriverNext, Chardev, Arrive, Peer, MainLoop, I2cAccess, FlushMrdr,
                       SpiTcr,
                WritePselid, mcxn_lpuart_reset, mcxn_lpuart_post_load, I2cReset, I2cLoad,
                flexcomm, i2c
  <2> QED BY Zenon, <2>1, <2>2
<1> QED BY Zenon, <1>2, <1>3, <1>4, <1>5, <1>6, <1>7, <1>8

-----------------------------------------------------------------------------
\* The wanted levels are a function of the two directions.
LEMMA WantedType ==
  DmaWanted \in [Dir -> BOOLEAN] /\ DmaWanted' \in [Dir -> BOOLEAN]
<1>1. \A e, f : Requests(e, f) \in [Dir -> BOOLEAN]
  BY Zenon DEF Requests
<1> QED BY <1>1, Zenon DEF DmaWanted

\* After mcxn_flexcomm_update_irq both ends of both wires agree if they agreed before.
LEMMA Publish ==
  ASSUME LinesInv, mcxn_flexcomm_update_irq
  PROVE  LinesFollowState' /\ dma_level' = DmaWanted'
<1>1. DmaWanted' \in [Dir -> BOOLEAN]
  BY Zenon, WantedType
<1>2. line = dma_level /\ line' = [d \in Dir |->
         IF DmaWanted'[d] # dma_level[d] THEN DmaWanted'[d] ELSE line[d]]
  BY DEF LinesInv, LinesFollowState, mcxn_flexcomm_update_irq
<1>3. line' = [d \in Dir |-> DmaWanted'[d]]
  BY <1>2
<1>4. line' = DmaWanted'
  BY <1>1, <1>3
<1> QED BY <1>4 DEF LinesFollowState, mcxn_flexcomm_update_irq

\* What the lines are computed from.
Seen == <<ctrl, baud, water, rx_count, spi_men, spi_tcf, spi_ier, spi_der, spi_rx_full,
          i2c, persel>>

\* A function that is not selected keeps its interrupts disabled.
Masks == (persel # "spi" => spi_ier = {}) /\ (persel # "i2c" => i2c_mier = {})

\* Every step keeps the lines and the masks, given that the driver selects a function
\* of a fresh device and that no request is enabled at a reset or a migration.
LEMMA LinesNextInv ==
  ASSUME LinesInv, [DriverNext]_flexcomm
  PROVE  LinesInv'
<1>1. /\ irq = mcxn_flexcomm_istat /\ line = DmaWanted /\ dma_level = DmaWanted
      /\ persel \in Persel /\ Masks
  BY DEF LinesInv, LinesFollowState, Masks
<1>2. CASE UNCHANGED <<Seen, lines>>
  BY <1>2 DEF LinesInv, LinesFollowState, mcxn_flexcomm_istat, DmaWanted, Seen, lines, i2c,
              i2cRegs, i2cRx, mcxn_lpspi_status, mcxn_lpi2c_status, lpuart_rdrf
<1>3. CASE mcxn_flexcomm_update_irq /\ persel' = persel /\ Masks'
  BY Zenon, <1>1, <1>3, Publish DEF LinesInv, Masks
<1>4. CASE \E p \in Persel : Fresh /\ NoDma /\ WritePselid(p)
  <2>1. PICK p \in Persel : Fresh /\ NoDma /\ WritePselid(p)
    BY Zenon, <1>4
  <2>2. /\ persel = "uart" /\ ctrl = Off /\ baud = {} /\ spi_der = {} /\ i2c_mder = {}
        /\ spi_ier = {} /\ i2c_mier = {}
    BY Zenon, <1>1, <2>1 DEF Fresh, Uart, uartRegs, NoDma, Masks
  <2>3. UNCHANGED <<ctrl, baud, water, rx_count, spi_ier, spi_der, spi_rx_full, i2c, lines>>
        /\ persel' = p
    BY <2>1 DEF WritePselid, uart, uartRegs, rxRing, spi, spiRegs, spiRx
  <2>4. \A full : Requests({}, full) = [d \in Dir |-> FALSE]
    BY Zenon DEF Requests
  <2>5. DmaWanted = [d \in Dir |-> FALSE]
    BY <2>2, <2>4 DEF DmaWanted
  <2>6. DmaWanted' = [d \in Dir |-> FALSE]
    BY Zenon, <2>2, <2>3, <2>4 DEF DmaWanted, i2c, i2cRegs, Persel
  <2>7. ~mcxn_flexcomm_istat
    BY <2>2 DEF mcxn_flexcomm_istat, Off
  <2>8. ~mcxn_flexcomm_istat'
    BY <2>2, <2>3 DEF mcxn_flexcomm_istat, Off, i2c, i2cRegs, Persel
  <2>9. mcxn_flexcomm_istat \in BOOLEAN /\ mcxn_flexcomm_istat' \in BOOLEAN
    <3>1. Off.tie \in BOOLEAN
      BY DEF Off
    <3> QED BY Zenon, <2>2, <2>3, <3>1 DEF mcxn_flexcomm_istat
  <2>10. mcxn_flexcomm_istat' = mcxn_flexcomm_istat
    BY <2>7, <2>8, <2>9
  <2> QED BY <1>1, <2>2, <2>3, <2>5, <2>6, <2>10
          DEF LinesInv, LinesFollowState, lines, i2c, i2cRegs
<1>5. ASSUME NoDma
      PROVE  dma_level = [d \in Dir |-> FALSE] /\ line = [d \in Dir |-> FALSE]
  <2>1. DmaWanted \in [Dir -> BOOLEAN]
    BY WantedType
  <2>2. \A d \in Dir : ~DmaWanted[d]
    BY <1>1, <1>5 DEF NoDma, Dir
  <2>3. DmaWanted = [d \in Dir |-> FALSE]
    BY <2>1, <2>2
  <2> QED BY <1>1, <2>3
<1>6. CASE NoDma /\ mcxn_lpuart_reset
  <2>1. /\ ctrl' = Off /\ baud' = {} /\ spi_ier' = {} /\ i2c_mier' = {} /\ persel' = "uart"
        /\ irq' = FALSE /\ line' = [d \in Dir |-> FALSE] /\ dma_level' = dma_level
    BY <1>6 DEF mcxn_lpuart_reset, UartReset, SpiReset, I2cReset
  <2>2. DmaWanted' = [d \in Dir |-> FALSE]
    <3>1. \A full : Requests({}, full) = [d \in Dir |-> FALSE]
      BY Zenon DEF Requests
    <3> QED BY <2>1, <3>1 DEF DmaWanted
  <2>3. mcxn_flexcomm_istat' = FALSE
    BY Zenon, <2>1 DEF mcxn_flexcomm_istat, Off
  <2> QED BY Zenon, <1>5, <1>6, <2>1, <2>2, <2>3 DEF LinesInv, LinesFollowState, Persel
<1>7. CASE NoDma /\ mcxn_lpuart_post_load
  <2>1. /\ irq' = mcxn_flexcomm_istat' /\ dma_level' = DmaWanted'
        /\ line' = [d \in Dir |-> line[d] \/ DmaWanted'[d]]
        /\ persel' = persel /\ spi_ier' = spi_ier /\ i2c_mier' = i2c_mier
    BY Zenon, <1>7 DEF mcxn_lpuart_post_load, SpiLoad, I2cLoad
  <2>2. line' = DmaWanted'
    <3>1. DmaWanted' \in [Dir -> BOOLEAN]
      BY WantedType
    <3>2. \A d \in Dir : line[d] = FALSE
      BY <1>5, <1>7
    <3>3. line' = [d \in Dir |-> DmaWanted'[d]]
      BY Zenon, <2>1, <3>1, <3>2
    <3> QED BY <3>1, <3>3
  <2> QED BY <1>1, <2>1, <2>2 DEF LinesInv, LinesFollowState, Masks
<1>8. \/ UNCHANGED <<Seen, lines>>
      \/ mcxn_flexcomm_update_irq /\ persel' = persel /\ Masks'
      \/ \E p \in Persel : Fresh /\ NoDma /\ WritePselid(p)
      \/ NoDma /\ mcxn_lpuart_reset
      \/ NoDma /\ mcxn_lpuart_post_load
  <2>1. ASSUME \/ persel = "uart" /\ UNCHANGED <<spi, i2c, persel>>
               \/ persel = "spi" /\ UNCHANGED <<i2c, persel>>
               \/ persel = "i2c" /\ UNCHANGED <<spi, persel>>
               \/ UNCHANGED <<spi, i2c, persel>>
        PROVE  persel' = persel /\ Masks'
    BY Zenon, <1>1, <2>1 DEF Masks, spi, spiRegs, i2c, i2cRegs
  <2>2. CASE Guest \/ (Fetched /\ I2cAccess(Stop)) \/ (Fetched /\ FlushMrdr)
    <3>1. /\ mcxn_flexcomm_update_irq
          /\ \/ persel = "uart" /\ UNCHANGED <<spi, i2c, persel>>
             \/ persel = "spi" /\ UNCHANGED <<i2c, persel>>
             \/ persel = "i2c" /\ UNCHANGED <<spi, persel>>
      BY Zenon, <2>2 DEF Guest, UartAccess, SpiAccess, I2cAccess, FlushMrdr, Uart
    <3> QED BY <2>1, <3>1
  <2>3. CASE \E n \in 1 .. MaxBytes : Arrive(n)
    BY Zenon, <2>1, <2>3 DEF Arrive
  <2>4. CASE (Uart /\ Peer) \/ MainLoop
    BY Zenon, <2>4 DEF Peer, HostSends, MainLoop, Iterate, Seen, uartRegs, rxRing, spi,
                          spiRegs, spiRx
  <2>5. CASE \E v \in Tcr : SpiTcr(v)
    BY ZenonT(40), <2>5 DEF SpiTcr, WriteTcr, Seen, uart, uartRegs, rxRing, spiRx
  <2>6. CASE UNCHANGED flexcomm
    BY <2>6 DEF flexcomm, Seen, uart, uartRegs, rxRing, spi, spiRegs, spiRx
  <2> QED BY Zenon, <2>2, <2>3, <2>4, <2>5, <2>6 DEF DriverNext, Chardev
<1> QED BY <1>2, <1>3, <1>4, <1>6, <1>7, <1>8

DriverInv == SpiInv /\ I2cInv /\ LinesInv

\* The reset state satisfies the invariant.
LEMMA DriverInitInv == FlexcommInit => DriverInv
<1> SUFFICES ASSUME FlexcommInit PROVE DriverInv
  OBVIOUS
<1>1. SpiInv
  <2>1. ResetTcr \in Tcr /\ ~ResetTcr.rxmsk
    BY DEF ResetTcr, Tcr
  <2>2. ~(0 > 0) /\ 0 \in Nat
    OBVIOUS
  <2> QED BY <2>1, <2>2, Zenon
          DEF FlexcommInit, SpiInit, SpiInv, SpiType, OneTransaction
<1>2. I2cInv
  <2>1. ~(0 > 0) /\ 0 \in Nat /\ 0 + 0 = 0
    OBVIOUS
  <2> QED BY <2>1, Zenon DEF FlexcommInit, I2cInit, I2cInv, AskedIsOffered
<1>3. LinesInv
  <2>1. /\ ctrl = Off /\ baud = {} /\ spi_ier = {} /\ i2c_mier = {} /\ persel = "uart"
        /\ irq = FALSE /\ line = [d \in Dir |-> FALSE] /\ dma_level = [d \in Dir |-> FALSE]
    BY DEF FlexcommInit, UartInit, SpiInit, I2cInit
  <2>2. DmaWanted = [d \in Dir |-> FALSE]
    <3>1. \A full : Requests({}, full) = [d \in Dir |-> FALSE]
      BY Zenon DEF Requests
    <3> QED BY <2>1, <3>1 DEF DmaWanted
  <2>3. mcxn_flexcomm_istat = FALSE
    BY <2>1 DEF mcxn_flexcomm_istat, Off
  <2> QED BY Zenon, <2>1, <2>2, <2>3 DEF LinesInv, LinesFollowState, Persel
<1> QED BY <1>1, <1>2, <1>3 DEF DriverInv

\* Every step of the driver keeps the invariant.
LEMMA DriverNextInv == DriverInv /\ [DriverNext]_flexcomm => DriverInv'
BY SpiNextInv, I2cNextInv, LinesNextInv DEF DriverInv

\* What the driver's guest may rely on.
LEMMA DriverInvariant == DriverSpec => []DriverInv
BY DriverInitInv, DriverNextInv, PTL DEF DriverSpec

\* For commands of any length a command is one transaction at the device and a new
\* command starts a new one, across software resets, system resets and migrations
\* (lpspi_transfer, CR[RST], mcxn_lpuart_reset).
THEOREM CommandIsTransaction == DriverSpec => []OneTransaction
<1>1. DriverInv => OneTransaction
  BY DEF DriverInv, SpiInv
<1> QED BY <1>1, DriverInvariant, PTL

\* For receive commands of any length as many bytes can be read as were asked for, and
\* MSR[RDF] is up until the last of them has been read (lpi2c_cmd, the read of MRDR).
THEOREM AskedCanBeRead == DriverSpec => []AskedIsOffered
<1>1. DriverInv => AskedIsOffered
  BY DEF DriverInv, I2cInv
<1> QED BY <1>1, DriverInvariant, PTL

\* For any depth and masks, whichever function is selected, the interrupt is what its
\* flags and masks say and the eDMA's latches are up exactly while its requests are
\* (mcxn_flexcomm_update_irq, mcxn_flexcomm_update_dma, mcxn_lpuart_post_load).
THEOREM FlexcommLines == DriverSpec => []LinesFollowState
<1>1. DriverInv => LinesFollowState
  BY Zenon DEF DriverInv, LinesInv
<1> QED BY <1>1, DriverInvariant, PTL

-----------------------------------------------------------------------------
\* Two FIFOs one behind the other, r in front of t, whose words are in the order
\* they were numbered, up to n.
Increasing(q) == \A i, j \in 1 .. Len(q) : i < j => q[i] < q[j]
UpTo(q, n) == \A i \in 1 .. Len(q) : q[i] <= n

Queued(r, t, n) ==
  /\ r \in Seq(Nat) /\ Increasing(r) /\ UpTo(r, n)
  /\ t \in Seq(Nat) /\ Increasing(t) /\ UpTo(t, n)
  /\ \A i \in 1 .. Len(r), j \in 1 .. Len(t) : r[i] < t[j]

\* What waits in the SAI is in order.
SaiOrder ==
  /\ words \in Nat
  /\ fifo \in [S!Dir -> Seq(Nat)]
  /\ Queued(fifo["rx"], fifo["tx"], words)

\* The device's copies of the requests agree with the eDMA's latches.
SaiLines ==
  /\ wm \in [S!Dir -> Nat]
  /\ S!LinesFollowFifo
  /\ \A d \in S!Dir : req[d] = sai_line[d]

SaiInv == SaiOrder /\ SaiLines

-----------------------------------------------------------------------------
\* The first word taken from an ordered FIFO leaves it ordered, and was its least.
LEMMA TakeFirst ==
  ASSUME NEW q \in Seq(Nat), NEW n \in Nat, q # << >>, Increasing(q), UpTo(q, n)
  PROVE  /\ Tail(q) \in Seq(Nat) /\ Increasing(Tail(q)) /\ UpTo(Tail(q), n)
         /\ Head(q) \in Nat /\ Head(q) = q[1] /\ 1 \in 1 .. Len(q)
         /\ \A i \in 1 .. Len(Tail(q)) : i + 1 \in 1 .. Len(q) /\ Tail(q)[i] = q[i + 1]
                                         /\ Head(q) < Tail(q)[i]
<1> DEFINE u == Tail(q)
<1>1. /\ Head(q) \in Nat /\ u \in Seq(Nat) /\ Len(u) = Len(q) - 1
      /\ \A i \in 1 .. Len(u) : u[i] = q[i + 1]
  OBVIOUS
<1>2. Len(q) \in Nat \ {0}
  OBVIOUS
<1>3. Head(q) = q[1]
  BY <1>2
<1> HIDE DEF u
<1>4. ASSUME NEW i \in 1 .. Len(u)
      PROVE  /\ i + 1 \in 1 .. Len(q) /\ u[i] = q[i + 1] /\ u[i] <= n
             /\ Head(q) < u[i]
  <2>1. i + 1 \in 1 .. Len(q) /\ 1 \in 1 .. Len(q) /\ 1 < i + 1
    BY <1>1, <1>2
  <2>2. q[1] < q[i + 1] /\ q[i + 1] <= n
    BY <2>1 DEF Increasing, UpTo
  <2> QED BY Zenon, <1>1, <1>3, <2>1, <2>2
<1>5. ASSUME NEW i \in 1 .. Len(u), NEW j \in 1 .. Len(u), i < j
      PROVE  u[i] < u[j]
  <2>1. i + 1 \in 1 .. Len(q) /\ j + 1 \in 1 .. Len(q) /\ i + 1 < j + 1
    BY <1>1, <1>2, <1>5
  <2>2. q[i + 1] < q[j + 1]
    BY <2>1 DEF Increasing
  <2> QED BY Zenon, <1>1, <2>2
<1>6. Increasing(u) /\ UpTo(u, n)
  BY Zenon, <1>4, <1>5 DEF Increasing, UpTo
<1> QED BY <1>1, <1>2, <1>3, <1>4, <1>6 DEF u

\* A larger word put at the end of an ordered FIFO leaves it ordered.
LEMMA PutLast ==
  ASSUME NEW q \in Seq(Nat), NEW v \in Nat, NEW n \in Nat, Increasing(q), UpTo(q, n),
         v <= n, \A i \in 1 .. Len(q) : q[i] < v
  PROVE  /\ Append(q, v) \in Seq(Nat) /\ Increasing(Append(q, v)) /\ UpTo(Append(q, v), n)
         /\ \A i \in 1 .. Len(Append(q, v)) :
              Append(q, v)[i] = v \/ (i \in 1 .. Len(q) /\ Append(q, v)[i] = q[i])
<1> DEFINE u == Append(q, v)
<1>1. /\ u \in Seq(Nat) /\ Len(u) = Len(q) + 1 /\ Len(q) \in Nat
      /\ \A i \in 1 .. Len(q) : u[i] = q[i]
      /\ u[Len(q) + 1] = v
  OBVIOUS
<1> HIDE DEF u
<1>2. ASSUME NEW i \in 1 .. Len(u)
      PROVE  (i = Len(q) + 1 /\ u[i] = v) \/ (i \in 1 .. Len(q) /\ u[i] = q[i])
  BY SMTT(30), Z3T(30), <1>1
<1>3. UpTo(u, n)
  BY <1>2 DEF UpTo
<1>4. ASSUME NEW i \in 1 .. Len(u), NEW j \in 1 .. Len(u), i < j
      PROVE  u[i] < u[j]
  <2>1. i \in 1 .. Len(q) /\ u[i] = q[i]
    BY SMTT(30), Z3T(30), <1>1, <1>4
  <2>2. CASE j = Len(q) + 1
    BY Zenon, <1>1, <2>1, <2>2
  <2>3. CASE j \in 1 .. Len(q)
    BY Zenon, <1>1, <1>4, <2>1, <2>3 DEF Increasing
  <2> QED BY Zenon, <1>2, <2>2, <2>3
<1>5. Increasing(u)
  BY <1>4 DEF Increasing
<1> QED BY <1>1, <1>2, <1>3, <1>5 DEF u

\* What the steps of the SAI do to the two FIFOs keeps them in order.
LEMMA QueuedSteps ==
  ASSUME NEW r, NEW t, NEW n \in Nat, Queued(r, t, n)
  PROVE  /\ Queued(<< >>, t, n)
         /\ Queued(r, << >>, n)
         /\ r # << >> => Queued(Tail(r), t, n)
         /\ t # << >> => Queued(r, Tail(t), n)
         /\ t # << >> => Queued(Append(r, Head(t)), Tail(t), n)
         /\ Queued(r, t, n + 1)
         /\ Queued(r, Append(t, n + 1), n + 1)
<1>1. /\ r \in Seq(Nat) /\ Increasing(r) /\ UpTo(r, n)
      /\ t \in Seq(Nat) /\ Increasing(t) /\ UpTo(t, n)
      /\ \A i \in 1 .. Len(r), j \in 1 .. Len(t) : r[i] < t[j]
  BY DEF Queued
<1>2. << >> \in Seq(Nat) /\ Increasing(<< >>) /\ UpTo(<< >>, n) /\ 1 .. Len(<< >>) = {}
  <2>1. << >> \in Seq(Nat) /\ Len(<< >>) = 0 /\ 1 .. 0 = {}
    OBVIOUS
  <2> QED BY <2>1 DEF Increasing, UpTo
<1>3. Queued(<< >>, t, n) /\ Queued(r, << >>, n)
  BY <1>1, <1>2, Zenon DEF Queued
<1>4. ASSUME r # << >> PROVE Queued(Tail(r), t, n)
  <2>1. /\ Tail(r) \in Seq(Nat) /\ Increasing(Tail(r)) /\ UpTo(Tail(r), n)
        /\ \A i \in 1 .. Len(Tail(r)) : i + 1 \in 1 .. Len(r) /\ Tail(r)[i] = r[i + 1]
    BY Zenon, <1>1, <1>4, TakeFirst
  <2>2. \A i \in 1 .. Len(Tail(r)), j \in 1 .. Len(t) : Tail(r)[i] < t[j]
    BY Zenon, <1>1, <2>1
  <2> QED BY Zenon, <1>1, <2>1, <2>2 DEF Queued
<1>5. ASSUME t # << >>
      PROVE  Queued(r, Tail(t), n) /\ Queued(Append(r, Head(t)), Tail(t), n)
  <2>1. /\ Tail(t) \in Seq(Nat) /\ Increasing(Tail(t)) /\ UpTo(Tail(t), n)
        /\ Head(t) \in Nat /\ Head(t) = t[1] /\ 1 \in 1 .. Len(t)
        /\ \A i \in 1 .. Len(Tail(t)) : i + 1 \in 1 .. Len(t) /\ Tail(t)[i] = t[i + 1]
                                        /\ Head(t) < Tail(t)[i]
    BY ZenonT(40), <1>1, <1>5, TakeFirst
  <2>2. \A i \in 1 .. Len(r), j \in 1 .. Len(Tail(t)) : r[i] < Tail(t)[j]
    BY <1>1, <2>1
  <2>3. Head(t) <= n /\ \A i \in 1 .. Len(r) : r[i] < Head(t)
    BY Zenon, <1>1, <2>1 DEF UpTo
  <2>4. /\ Append(r, Head(t)) \in Seq(Nat) /\ Increasing(Append(r, Head(t)))
        /\ UpTo(Append(r, Head(t)), n)
        /\ \A i \in 1 .. Len(Append(r, Head(t))) :
             \/ Append(r, Head(t))[i] = Head(t)
             \/ i \in 1 .. Len(r) /\ Append(r, Head(t))[i] = r[i]
    BY Zenon, <1>1, <2>1, <2>3, PutLast
  <2>5. \A i \in 1 .. Len(Append(r, Head(t))), j \in 1 .. Len(Tail(t)) :
          Append(r, Head(t))[i] < Tail(t)[j]
    BY ZenonT(40), <2>1, <2>2, <2>4
  <2>6. Queued(r, Tail(t), n)
    BY Zenon, <1>1, <2>1, <2>2 DEF Queued
  <2> QED BY Zenon, <2>1, <2>4, <2>5, <2>6 DEF Queued
<1>6. ASSUME NEW q \in Seq(Nat), UpTo(q, n)
      PROVE  UpTo(q, n + 1) /\ \A i \in 1 .. Len(q) : q[i] < n + 1 /\ q[i] \in Nat
  <2>1. \A i \in 1 .. Len(q) : q[i] \in Nat
    BY SMTT(30), Z3T(30), <1>6
  <2> QED BY SMTT(30), Z3T(30), <1>6, <2>1 DEF UpTo
<1>7. Queued(r, t, n + 1)
  BY Zenon, <1>1, <1>6 DEF Queued
<1>8. Queued(r, Append(t, n + 1), n + 1)
  <2>1. UpTo(t, n + 1) /\ UpTo(r, n + 1) /\ n + 1 \in Nat /\ n + 1 <= n + 1
        /\ (\A i \in 1 .. Len(t) : t[i] < n + 1) /\ (\A i \in 1 .. Len(r) : r[i] < n + 1)
    BY SMTT(30), Z3T(30), <1>1, <1>6
  <2>2. /\ Append(t, n + 1) \in Seq(Nat) /\ Increasing(Append(t, n + 1))
        /\ UpTo(Append(t, n + 1), n + 1)
        /\ \A i \in 1 .. Len(Append(t, n + 1)) :
             \/ Append(t, n + 1)[i] = n + 1
             \/ i \in 1 .. Len(t) /\ Append(t, n + 1)[i] = t[i]
    BY Zenon, <1>1, <2>1, PutLast
  <2>3. \A i \in 1 .. Len(r), j \in 1 .. Len(Append(t, n + 1)) : r[i] < Append(t, n + 1)[j]
    BY Zenon, <1>1, <2>1, <2>2
  <2> QED BY ZenonT(40), <1>1, <2>1, <2>2, <2>3 DEF Queued
<1> QED BY ZenonT(40), <1>3, <1>4, <1>5, <1>7, <1>8

\* Words in order up to n are in order in the two FIFOs taken together.
LEMMA QueuedTogether ==
  ASSUME NEW r, NEW t, NEW n \in Nat, Queued(r, t, n)
  PROVE  \A i \in 1 .. Len(r \o t) - 1 : (r \o t)[i] < (r \o t)[i + 1]
<1>1. /\ r \in Seq(Nat) /\ Increasing(r) /\ t \in Seq(Nat) /\ Increasing(t)
      /\ \A i \in 1 .. Len(r), j \in 1 .. Len(t) : r[i] < t[j]
  BY Zenon DEF Queued
<1> DEFINE w == r \o t
<1>2. /\ Len(w) = Len(r) + Len(t)
      /\ \A i \in 1 .. Len(r) + Len(t) : w[i] = IF i <= Len(r) THEN r[i] ELSE t[i - Len(r)]
  BY <1>1
<1>3. Len(r) \in Nat /\ Len(t) \in Nat
  BY SMTT(30), Z3T(30), <1>1
<1> HIDE DEF w
<1>4. ASSUME NEW i \in 1 .. Len(w) - 1
      PROVE  w[i] < w[i + 1]
  <2>1. CASE i + 1 <= Len(r)
    <3>1. w[i] = r[i] /\ w[i + 1] = r[i + 1] /\ i \in 1 .. Len(r) /\ i + 1 \in 1 .. Len(r)
          /\ i < i + 1
      BY SMTT(30), Z3T(30), <1>2, <1>3, <2>1
    <3> QED BY ZenonT(40), <1>1, <3>1 DEF Increasing
  <2>2. CASE i = Len(r)
    <3>1. w[i] = r[i] /\ w[i + 1] = t[1] /\ i \in 1 .. Len(r) /\ 1 \in 1 .. Len(t)
      BY SMTT(30), Z3T(30), <1>2, <1>3, <2>2
    <3> QED BY ZenonT(40), <1>1, <3>1
  <2>3. CASE i > Len(r)
    <3> DEFINE j == i - Len(r)
    <3>1. w[i] = t[j] /\ w[i + 1] = t[j + 1] /\ j \in 1 .. Len(t) /\ j + 1 \in 1 .. Len(t)
          /\ j < j + 1
      BY <1>2, <1>3, <2>3
    <3> QED BY Zenon, <1>1, <3>1 DEF Increasing
  <2> QED BY SMTT(30), Z3T(30), <1>2, <1>3, <2>1, <2>2, <2>3
<1> QED BY <1>4 DEF w

-----------------------------------------------------------------------------
\* No access, word tick, reset or migration of the SAI puts a word out of order.
LEMMA SaiKeepsOrder ==
  ASSUME SaiOrder, S!DriverNext
  PROVE  SaiOrder'
<1> DEFINE r == fifo["rx"]
           t == fifo["tx"]
<1>1. words \in Nat /\ fifo \in [S!Dir -> Seq(Nat)] /\ Queued(r, t, words)
  BY DEF SaiOrder
<1>2. S!Dir = {"tx", "rx"}
  BY DEF S!Dir
<1>3. r \in Seq(Nat) /\ t \in Seq(Nat)
  BY <1>1, <1>2
<1>4. /\ Queued(<< >>, t, words) /\ Queued(r, << >>, words)
      /\ (r # << >> => Queued(Tail(r), t, words))
      /\ (t # << >> => Queued(r, Tail(t), words))
      /\ (t # << >> => Queued(Append(r, Head(t)), Tail(t), words))
      /\ Queued(r, t, words + 1) /\ Queued(r, Append(t, words + 1), words + 1)
  BY Zenon, <1>1, QueuedSteps
<1>5. Queued(<< >>, << >>, words)
  BY Zenon, <1>1, <1>4, QueuedSteps
<1>6. ASSUME NEW a, NEW b, NEW n \in Nat, Queued(a, b, n), words' = n,
             fifo' \in [S!Dir -> Seq(Nat)], fifo'["rx"] = a, fifo'["tx"] = b
      PROVE  SaiOrder'
  BY Zenon, <1>6 DEF SaiOrder
<1>7. ASSUME fifo' = [d \in S!Dir |-> << >>], words' = words
      PROVE  SaiOrder'
  <2>1. << >> \in Seq(Nat)
    OBVIOUS
  <2>2. fifo' \in [S!Dir -> Seq(Nat)] /\ fifo'["rx"] = << >> /\ fifo'["tx"] = << >>
    BY <1>2, <1>7, <2>1
  <2> QED BY <1>1, <1>5, <1>6, <1>7, <2>2
<1>8. ASSUME UNCHANGED <<fifo, words>>
      PROVE  SaiOrder'
  BY <1>8 DEF SaiOrder
<1>9. ASSUME NEW a \in Seq(Nat), NEW b \in Seq(Nat), NEW n \in Nat, Queued(a, b, n),
             words' = n, fifo' = [fifo EXCEPT !["tx"] = b, !["rx"] = a]
      PROVE  SaiOrder'
  <2>1. fifo' \in [S!Dir -> Seq(Nat)] /\ fifo'["rx"] = a /\ fifo'["tx"] = b
    BY <1>1, <1>2, <1>9
  <2> QED BY Zenon, <1>6, <1>9, <2>1
<1>10. CASE S!mcxn_sai_word_tick
  <2>1. words' = words
    BY <1>10 DEF S!mcxn_sai_word_tick
  <2>2. \/ fifo' = [fifo EXCEPT !["tx"] = t, !["rx"] = r]
        \/ t # << >> /\ fifo' = [fifo EXCEPT !["tx"] = Tail(t), !["rx"] = r]
        \/ t # << >> /\ fifo' = [fifo EXCEPT !["tx"] = Tail(t), !["rx"] = Append(r, Head(t))]
    BY Zenon, <1>10 DEF S!mcxn_sai_word_tick
  <2>3. t # << >> => Tail(t) \in Seq(Nat) /\ Append(r, Head(t)) \in Seq(Nat)
    BY Zenon, <1>4 DEF Queued
  <2> QED BY Zenon, <1>1, <1>3, <1>4, <1>9, <2>1, <2>2, <2>3
<1>11. CASE S!WriteTdr
  <2>1. words' = words + 1 /\ words + 1 \in Nat
    BY SMTT(30), Z3T(30), <1>1, <1>11 DEF S!WriteTdr
  <2>2. CASE fifo' = fifo
    BY <1>1, <1>4, <1>6, <2>1, <2>2
  <2>3. CASE fifo' = [fifo EXCEPT !["tx"] = Append(t, words + 1)]
    <3>1. Append(t, words + 1) \in Seq(Nat)
      BY Zenon, <1>4 DEF Queued
    <3>2. fifo' \in [S!Dir -> Seq(Nat)] /\ fifo'["rx"] = r
          /\ fifo'["tx"] = Append(t, words + 1)
      BY <1>1, <1>2, <2>3, <3>1
    <3> QED BY Zenon, <1>4, <1>6, <2>1, <3>2
  <2> QED BY <1>11, <2>2, <2>3 DEF S!WriteTdr
<1>12. CASE S!ReadRdr
  <2>1. words' = words
    BY <1>12 DEF S!ReadRdr
  <2>2. CASE fifo' = fifo
    BY Zenon, <1>8, <2>1, <2>2
  <2>3. CASE r # << >> /\ fifo' = [fifo EXCEPT !["rx"] = Tail(r)]
    <3>1. Tail(r) \in Seq(Nat)
      BY Zenon, <1>4, <2>3 DEF Queued
    <3>2. fifo' \in [S!Dir -> Seq(Nat)] /\ fifo'["rx"] = Tail(r) /\ fifo'["tx"] = t
      BY <1>1, <1>2, <2>3, <3>1
    <3> QED BY Zenon, <1>1, <1>4, <1>6, <2>1, <2>3, <3>2
  <2> QED BY <1>12, <2>2, <2>3 DEF S!ReadRdr
<1>13. CASE \E d \in S!Dir, v \in S!CsrIn, clearFef, fifoReset \in BOOLEAN :
              S!WriteCsr(d, v, clearFef, fifoReset)
  <2>1. PICK d \in S!Dir, v \in S!CsrIn, clearFef \in BOOLEAN, fifoReset \in BOOLEAN :
          S!WriteCsr(d, v, clearFef, fifoReset)
    BY ZenonT(40), <1>13
  <2>2. words' = words /\ fifo' = [fifo EXCEPT ![d] = IF fifoReset THEN << >> ELSE fifo[d]]
    BY <2>1 DEF S!WriteCsr
  <2>3. << >> \in Seq(Nat)
    OBVIOUS
  <2>4. CASE ~fifoReset
    <3>1. fifo' = fifo
      BY Zenon, <1>1, <2>2, <2>4
    <3> QED BY <1>8, <2>2, <3>1
  <2>5. CASE fifoReset /\ d = "tx"
    <3>1. fifo' \in [S!Dir -> Seq(Nat)] /\ fifo'["rx"] = r /\ fifo'["tx"] = << >>
      BY Zenon, <1>1, <1>2, <2>2, <2>3, <2>5
    <3> QED BY Zenon, <1>1, <1>4, <1>6, <2>2, <3>1
  <2>6. CASE fifoReset /\ d = "rx"
    <3>1. fifo' \in [S!Dir -> Seq(Nat)] /\ fifo'["rx"] = << >> /\ fifo'["tx"] = t
      BY <1>1, <1>2, <2>2, <2>3, <2>6
    <3> QED BY Zenon, <1>1, <1>4, <1>6, <2>2, <3>1
  <2> QED BY <1>2, <2>4, <2>5, <2>6
<1>14. CASE UNCHANGED <<fifo, words>>
  BY Zenon, <1>8, <1>14
<1>15. CASE S!mcxn_sai_reset \/ S!mcxn_sai_post_load
  BY Zenon, <1>7, <1>15 DEF S!mcxn_sai_reset, S!mcxn_sai_post_load
<1> QED BY ZenonT(40), <1>10, <1>11, <1>12, <1>13, <1>14, <1>15
        DEF S!DriverNext, S!GuestAccess, S!WriteWatermark, S!SetBitClock

\* mcxn_sai_update_irq leaves both ends of both wires agreed, if they agreed before.
LEMMA SaiPublish ==
  ASSUME SaiLines, S!mcxn_sai_update_irq, wm' \in [S!Dir -> Nat]
  PROVE  SaiLines'
<1>1. \A d \in S!Dir : req[d] = sai_line[d]
  BY Zenon DEF SaiLines
<1>2. \A d \in S!Dir : req'[d] = S!DmaWanted(d)' /\ sai_line'[d] = S!DmaWanted(d)'
  BY ZenonT(40), <1>1 DEF S!mcxn_sai_update_irq
<1>3. sai_irq' = S!IrqWanted'
  BY ZenonT(40) DEF S!mcxn_sai_update_irq
<1> QED BY Zenon, <1>2, <1>3 DEF SaiLines, S!LinesFollowFifo

\* The lines follow the FIFOs and the enables through every step, given that the
\* watermarks are set before anything is enabled, that a reset finds no request up and
\* a migration finds the FIFOs empty.
LEMMA SaiKeepsLines ==
  ASSUME SaiOrder, SaiLines, S!DriverNext
  PROVE  SaiLines'
<1>1. /\ wm \in [S!Dir -> Nat] /\ sai_irq = S!IrqWanted
      /\ \A d \in S!Dir : sai_line[d] = S!DmaWanted(d) /\ req[d] = sai_line[d]
  BY ZenonT(40) DEF SaiLines, S!LinesFollowFifo
<1>2. CASE S!mcxn_sai_update_irq /\ wm' = wm
  BY <1>1, <1>2, SaiPublish
<1>3. CASE \E d \in S!Dir, n \in 0 .. SaiDepth - 1 : S!Quiet(d) /\ S!WriteWatermark(d, n)
  <2>1. PICK d \in S!Dir, n \in 0 .. SaiDepth - 1 : S!Quiet(d) /\ S!WriteWatermark(d, n)
    BY ZenonT(40), <1>3
  <2>2. /\ ~csr[d].frde /\ csr[d].ie = {} /\ wm' = [wm EXCEPT ![d] = n]
        /\ UNCHANGED <<csr, fifo, sai_irq, req, sai_line>>
    BY <2>1 DEF S!Quiet, S!WriteWatermark
  <2>3. wm' \in [S!Dir -> Nat]
    <3>1. n \in Nat
      BY SaiAssumption
    <3> QED BY Zenon, <1>1, <2>2, <3>1
  <2>4. \A e \in S!Dir : e # d => S!FifoRequest(e)' = S!FifoRequest(e)
    BY Zenon, <1>1, <2>2 DEF S!FifoRequest
  <2>5. \A e \in S!Dir : S!DmaWanted(e)' = S!DmaWanted(e)
    BY Zenon, <2>2, <2>4 DEF S!DmaWanted
  <2>6. \A e \in S!Dir : S!Flags(e)' \cap csr'[e].ie = S!Flags(e) \cap csr[e].ie
    BY ZenonT(40), <2>2, <2>4 DEF S!Flags
  <2>7. S!IrqWanted' = S!IrqWanted
    BY ZenonT(40), <2>6 DEF S!IrqWanted
  <2> QED BY Zenon, <1>1, <2>2, <2>3, <2>5, <2>7 DEF SaiLines, S!LinesFollowFifo
<1>4. CASE UNCHANGED <<csr, wm, fifo, sai_irq, req, sai_line>>
  BY Zenon, <1>1, <1>4 DEF SaiLines, S!LinesFollowFifo, S!IrqWanted, S!Flags, S!DmaWanted,
                    S!FifoRequest
<1>5. CASE (\A d \in S!Dir : ~req[d]) /\ S!mcxn_sai_reset
  <2>1. /\ csr' = [d \in S!Dir |-> S!ResetCsr] /\ wm' = [d \in S!Dir |-> 0]
        /\ sai_irq' = FALSE /\ sai_line' = [d \in S!Dir |-> FALSE] /\ req' = req
    BY Zenon, <1>5 DEF S!mcxn_sai_reset
  <2>2. \A d \in S!Dir : ~csr'[d].frde /\ csr'[d].ie = {}
    BY Zenon, <2>1 DEF S!ResetCsr
  <2>3. \A d \in S!Dir : S!DmaWanted(d)' = FALSE
    BY Zenon, <2>2 DEF S!DmaWanted
  <2>4. S!IrqWanted' = FALSE
    BY ZenonT(40), <2>2 DEF S!IrqWanted
  <2>5. \A d \in S!Dir : req[d] = FALSE
    BY SMTT(30), Z3T(30), <1>1, <1>5 DEF S!DmaWanted
  <2> QED BY Zenon, <2>1, <2>3, <2>4, <2>5 DEF SaiLines, S!LinesFollowFifo
<1>6. CASE (\A d \in S!Dir : fifo[d] = << >>) /\ S!mcxn_sai_post_load
  <2>1. /\ fifo' = [d \in S!Dir |-> << >>] /\ UNCHANGED <<csr, wm>>
        /\ sai_irq' = S!IrqWanted'
        /\ req' = [d \in S!Dir |-> S!DmaWanted(d)']
        /\ sai_line' = [d \in S!Dir |-> sai_line[d] \/ S!DmaWanted(d)']
    BY ZenonT(40), <1>6 DEF S!mcxn_sai_post_load
  <2>2. \A d \in S!Dir : fifo'[d] = fifo[d]
    BY ZenonT(40), <1>6, <2>1
  <2>3. \A d \in S!Dir : S!DmaWanted(d)' = S!DmaWanted(d)
    BY Zenon, <2>1, <2>2 DEF S!DmaWanted, S!FifoRequest
  <2>4. \A d \in S!Dir : S!DmaWanted(d) \in BOOLEAN
    BY DEF S!DmaWanted
  <2>5. \A d \in S!Dir : sai_line'[d] = S!DmaWanted(d)' /\ req'[d] = S!DmaWanted(d)'
    BY Zenon, <1>1, <2>1, <2>3, <2>4
  <2> QED BY Zenon, <1>1, <2>1, <2>5 DEF SaiLines, S!LinesFollowFifo
<1>7. \/ S!mcxn_sai_update_irq /\ wm' = wm
      \/ \E d \in S!Dir, n \in 0 .. SaiDepth - 1 : S!Quiet(d) /\ S!WriteWatermark(d, n)
      \/ UNCHANGED <<csr, wm, fifo, sai_irq, req, sai_line>>
      \/ (\A d \in S!Dir : ~req[d]) /\ S!mcxn_sai_reset
      \/ (\A d \in S!Dir : fifo[d] = << >>) /\ S!mcxn_sai_post_load
  BY DEF S!DriverNext, S!GuestAccess, S!WriteCsr, S!WriteTdr, S!ReadRdr,
         S!mcxn_sai_word_tick, S!SetBitClock
<1> QED BY Zenon, <1>2, <1>3, <1>4, <1>5, <1>6, <1>7

\* The reset state satisfies the invariant.
LEMMA SaiInitInv == S!Init => SaiInv
<1> SUFFICES ASSUME S!Init PROVE SaiInv
  OBVIOUS
<1>1. /\ fifo = [d \in S!Dir |-> << >>] /\ words = 0 /\ wm = [d \in S!Dir |-> 0]
      /\ csr = [d \in S!Dir |-> S!ResetCsr] /\ sai_irq = FALSE
      /\ req = [d \in S!Dir |-> FALSE] /\ sai_line = [d \in S!Dir |-> FALSE]
  BY DEF S!Init
<1>2. << >> \in Seq(Nat) /\ Len(<< >>) = 0 /\ 1 .. 0 = {}
  OBVIOUS
<1>3. Queued(<< >>, << >>, 0)
  BY Zenon, <1>2 DEF Queued, Increasing, UpTo
<1>4. SaiOrder
  <2>1. fifo \in [S!Dir -> Seq(Nat)] /\ fifo["rx"] = << >> /\ fifo["tx"] = << >>
    BY <1>1, <1>2 DEF S!Dir
  <2> QED BY Zenon, <1>1, <1>3, <2>1 DEF SaiOrder
<1>5. SaiLines
  <2>1. \A d \in S!Dir : ~csr[d].frde /\ csr[d].ie = {}
    BY Zenon, <1>1 DEF S!ResetCsr
  <2>2. (\A d \in S!Dir : S!DmaWanted(d) = FALSE) /\ S!IrqWanted = FALSE
    BY <2>1 DEF S!DmaWanted, S!IrqWanted
  <2>3. wm \in [S!Dir -> Nat]
    BY <1>1
  <2> QED BY Zenon, <1>1, <2>2, <2>3 DEF SaiLines, S!LinesFollowFifo
<1> QED BY Zenon, <1>4, <1>5 DEF SaiInv

-----------------------------------------------------------------------------
\* A step of the machine is a step of its device, and leaves the others alone.
LEMMA MachineStep ==
  ASSUME [SerialNext]_serial
  PROVE  /\ [DriverNext]_flexcomm
         /\ S!DriverNext \/ UNCHANGED sai
BY DEF SerialNext, serial

\* The SAI's invariant holds on every machine.
LEMMA SaiInvariant == SerialSpec => []SaiInv
<1>1. SerialInit => SaiInv
  BY SaiInitInv DEF SerialInit
<1>2. SaiInv /\ [SerialNext]_serial => SaiInv'
  <2> SUFFICES ASSUME SaiInv, [SerialNext]_serial PROVE SaiInv'
    OBVIOUS
  <2>1. CASE S!DriverNext
    BY <2>1, SaiKeepsOrder, SaiKeepsLines DEF SaiInv
  <2>2. CASE UNCHANGED sai
    BY Zenon, <2>2 DEF SaiInv, SaiOrder, SaiLines, sai, S!LinesFollowFifo, S!IrqWanted,
                       S!Flags,
                S!DmaWanted, S!FifoRequest
  <2> QED BY <2>1, <2>2, MachineStep
<1> QED BY <1>1, <1>2, PTL DEF SerialSpec

\* For any depth and any number of words, whatever underruns, overruns, FIFO resets and
\* migrations happen, words leave the SAI and come back over the jumper in the order
\* they were written and none twice (mcxn_sai_word_tick).
THEOREM SaiWordsInOrder == SerialSpec => []SaiInOrder
<1>1. SaiInv => SaiInOrder
  BY Zenon, QueuedTogether DEF SaiInv, SaiOrder, SaiInOrder, S!InOrder
<1> QED BY <1>1, SaiInvariant, PTL

-----------------------------------------------------------------------------
\* The ENET of EnetFrameProofs is the ENET of the machine.
EP == INSTANCE EnetFrameProofs WITH MaxFrames <- MaxEthFrames, s <- eth

\* The two instances of Enet are one device and one driver.
LEMMA SameEnet ==
  /\ EP!EnetInit <=> E!EnetInit
  /\ EP!EnetNext <=> E!EnetNext
  /\ EP!StallsLate <=> E!StallsLate
  /\ EP!FramesWhole <=> E!FramesWhole
  /\ \A f : EP!FrameKept(f) <=> E!FrameKept(f)
<1>1. EP!EnetInit <=> E!EnetInit
  BY ZenonT(40) DEF E!NoRing, EP!NoRing, E!RxSlot, EP!RxSlot, E!TxSlot, EP!TxSlot, E!Free,
                    EP!Free, E!Spent, EP!Spent, E!Regs, EP!Regs, E!EnetInit, EP!EnetInit
<1>2. /\ EP!qemu_net_queue_send <=> E!qemu_net_queue_send
      /\ \A v : EP!WriteMacConfiguration(v) <=> E!WriteMacConfiguration(v)
      /\ \A v : EP!WriteRxCtrl(v) <=> E!WriteRxCtrl(v)
      /\ EP!WriteRxTail <=> E!WriteRxTail
      /\ EP!VmStop <=> E!VmStop
  BY ZenonT(40) DEF E!NoRing, EP!NoRing, E!RxSlot, EP!RxSlot, E!Frame, EP!Frame,
                    E!IrqWanted, EP!IrqWanted, E!mcxn_enet_update_irq,
                    EP!mcxn_enet_update_irq, E!mcxn_enet_can_receive,
                    EP!mcxn_enet_can_receive, E!Owned, EP!Owned, E!Written, EP!Written,
                    E!Status, EP!Status, E!mcxn_enet_deliver, EP!mcxn_enet_deliver,
                    E!Flushed, EP!Flushed, E!qemu_net_queue_send, EP!qemu_net_queue_send,
                    E!StoreAndFlush, EP!StoreAndFlush, E!WriteMacConfiguration,
                    EP!WriteMacConfiguration, E!WriteRxCtrl, EP!WriteRxCtrl, E!WriteRxTail,
                    EP!WriteRxTail, E!VmStop, EP!VmStop
<1>3. /\ EP!WriteStatus <=> E!WriteStatus
      /\ \A v : EP!WriteIntEn(v) <=> E!WriteIntEn(v)
  BY ZenonT(40) DEF E!IrqWanted, EP!IrqWanted, E!mcxn_enet_update_irq,
                    EP!mcxn_enet_update_irq, E!WriteStatus, EP!WriteStatus, E!WriteIntEn,
                    EP!WriteIntEn
<1>4. /\ EP!SetupRx <=> E!SetupRx
      /\ EP!SetupTx <=> E!SetupTx
      /\ EP!RxTake <=> E!RxTake
      /\ EP!mcxn_enet_reset <=> E!mcxn_enet_reset
      /\ \A v : EP!WriteTxCtrl(v) <=> E!WriteTxCtrl(v)
      /\ \A v : EP!TxPut(v) <=> E!TxPut(v)
  BY ZenonT(40) DEF E!NoRing, EP!NoRing, E!RxSlot, EP!RxSlot, E!TxSlot, EP!TxSlot, E!Frame,
                    EP!Frame, E!Free, EP!Free, E!Spent, EP!Spent, E!Regs, EP!Regs,
                    E!mcxn_enet_can_receive, EP!mcxn_enet_can_receive, E!TxReady,
                    EP!TxReady, E!WriteTxCtrl, EP!WriteTxCtrl, E!mcxn_enet_reset,
                    EP!mcxn_enet_reset, E!SetupRx, EP!SetupRx, E!SetupTx, EP!SetupTx,
                    E!RxTake, EP!RxTake, E!TxPut, EP!TxPut
<1>5. EP!WriteTxTail <=> E!WriteTxTail
  <2>1. \A t : EP!TxWalk(t, RingGuard) = E!TxWalk(t, RingGuard)
    <3>1. \A t, frame : EP!mcxn_enet_deliver(t, frame) = E!mcxn_enet_deliver(t, frame)
      <4>1. \A t : EP!mcxn_enet_update_irq(t) = E!mcxn_enet_update_irq(t)
        BY Zenon DEF E!IrqWanted, EP!IrqWanted, E!mcxn_enet_update_irq,
                     EP!mcxn_enet_update_irq
      <4>2. \A t, n : EP!Owned(t, n) = E!Owned(t, n)
        BY Zenon DEF E!Owned, EP!Owned
      <4>3. \A t, frame, m : EP!Written(t, frame, m) = E!Written(t, frame, m)
        BY Zenon DEF E!RxSlot, EP!RxSlot, E!Written, EP!Written
      <4>4. \A t, whole : EP!Status(t, whole) = E!Status(t, whole)
        BY Zenon DEF E!Status, EP!Status
      <4>5. EP!NoRing = E!NoRing
        BY Zenon DEF E!NoRing, EP!NoRing
      <4>6. \A t : EP!mcxn_enet_can_receive(t) <=> E!mcxn_enet_can_receive(t)
        BY Zenon DEF E!mcxn_enet_can_receive, EP!mcxn_enet_can_receive
      <4> QED BY ZenonT(30), <4>1, <4>2, <4>3, <4>4, <4>5, <4>6
              DEF E!mcxn_enet_deliver, EP!mcxn_enet_deliver
    <3>2. \A t, frame, ioc : EP!Sent(t, frame, ioc) = E!Sent(t, frame, ioc)
      <4> TAKE t, frame, ioc
      <4>1. EP!mcxn_enet_deliver(t, frame) = E!mcxn_enet_deliver(t, frame)
        BY ZenonT(40), <3>1
      <4> QED BY ZenonT(30), <4>1 DEF E!Sent, EP!Sent
    <3>3. \A w : EP!TxTurn(w) = E!TxTurn(w)
      <4> TAKE w
      <4> DEFINE t == w.dev
                 d == t.tx[t.cur_tx]
                 before == IF d.fd THEN << >> ELSE w.frame
                 all == IF Len(before) < FrameMax THEN Append(before, d.data) ELSE before
                 wanted == (w.ioc /\ ~d.fd) \/ d.ioc
                 u == [t EXCEPT !.tx[t.cur_tx].own = FALSE, !.cur_tx = (@ + 1) % TxLen]
      <4>1. EP!Sent(u, all, wanted) = E!Sent(u, all, wanted)
        BY ZenonT(40), <3>2
      <4> QED BY ZenonT(30), <4>1 DEF E!TxTurn, EP!TxTurn
    <3> QED BY ZenonT(30), <3>3 DEF E!TxWalk, EP!TxWalk
  <2>2. \A t : EP!mcxn_enet_update_irq(t) = E!mcxn_enet_update_irq(t)
    BY Zenon DEF E!IrqWanted, EP!IrqWanted, E!mcxn_enet_update_irq, EP!mcxn_enet_update_irq
  <2>3. \A t : EP!TxReady(t) <=> E!TxReady(t)
    BY Zenon DEF E!NoRing, EP!NoRing, E!TxReady, EP!TxReady
  <2>4. \A t : EP!mcxn_enet_tx_process(t) = E!mcxn_enet_tx_process(t)
    BY ZenonT(40), <2>1, <2>2, <2>3 DEF E!mcxn_enet_tx_process, EP!mcxn_enet_tx_process
  <2> QED BY ZenonT(40), <2>4 DEF E!NoRing, EP!NoRing, E!WriteTxTail, EP!WriteTxTail
<1>6. EP!StallsLate <=> E!StallsLate
  BY ZenonT(40) DEF E!NoRing, EP!NoRing, E!TxReady, EP!TxReady, E!Stalled, EP!Stalled,
                    E!StallsLate, EP!StallsLate
<1>7. EP!EnetNext <=> E!EnetNext
  BY ZenonT(40), <1>2, <1>3, <1>4, <1>5 DEF E!EnetNext, EP!EnetNext
<1>8. EP!FramesWhole <=> E!FramesWhole
  BY ZenonT(40) DEF E!Frame, EP!Frame, E!Id, EP!Id, E!FromWire, EP!FromWire, E!FramesWhole,
                    EP!FramesWhole
<1>9. \A f : EP!FrameKept(f) <=> E!FrameKept(f)
  BY ZenonT(40) DEF E!NoRing, EP!NoRing, E!RxSlot, EP!RxSlot, E!Frame, EP!Frame,
                    E!mcxn_enet_can_receive, EP!mcxn_enet_can_receive, E!InRing, EP!InRing,
                    E!Waiting, EP!Waiting, E!Held, EP!Held, E!OutOfBuffers, EP!OutOfBuffers,
                    E!FrameKept, EP!FrameKept
<1> QED BY ZenonT(40), <1>1, <1>6, <1>7, <1>8, <1>9

\* The invariant of the ENET's machine, where the frame buffer holds a frame.
EthInv == dut = "enet" => EP!EnetInv /\ (FrameMax >= 2 => EP!FrameInv)

\* No frame from the network that waits or arrives is lost, but by an early flush.
EthKept == \A f \in 1 .. MaxEthFrames : dut = "enet" => E!FrameKept(f)

\* A step of a machine, where it has an ENET.
LEMMA EthStep ==
  ASSUME EthInv, [SerialNext]_serial
  PROVE  /\ EthInv' /\ [dut = "enet" => E!StallsLate]_enet
         /\ FrameMax >= 2 => [EthKept]_enet
<1>0. EP!Sizes /\ (FrameMax >= 2 => EP!Fits)
  BY ZenonT(40), EnetAssumption DEF EP!Sizes, EP!Fits
<1>1. CASE UNCHANGED <<dut, enet>>
  <2>1. dut' = dut /\ eth' = eth /\ netq' = netq /\ arrived' = arrived /\ drv' = drv
    BY ZenonT(40), <1>1 DEF enet
  <2>2. EP!EnetInv => EP!EnetInv'
    BY ZenonT(40), <2>1 DEF EP!EnetInv, EP!EnetType, EP!TxInv
  <2>3. EP!FrameInv => EP!FrameInv'
    BY ZenonT(40), <2>1 DEF EP!FrameInv, EP!NetGood, EP!Behind
  <2>4. EthInv'
    BY Zenon, <2>1, <2>2, <2>3 DEF EthInv
  <2> QED BY Zenon, <1>1, <2>4
<1>2. CASE dut = "enet" /\ E!EnetNext /\ dut' = dut
  <2>1. EP!EnetInv /\ (FrameMax >= 2 => EP!FrameInv) /\ EP!EnetNext
    BY ZenonT(40), <1>2, SameEnet DEF EthInv
  <2>2. EP!EnetInv' /\ EP!StallsLate
    BY ZenonT(40), <1>0, <2>1, EP!EnetStep
  <2>3. FrameMax >= 2 => EP!FrameInv'
    BY ZenonT(40), <1>0, <2>1, EP!FrameStep
  <2>4. FrameMax >= 2 => \A f \in 1 .. MaxEthFrames : EP!FrameKept(f)
    BY Zenon, <1>0, <2>1, EP!KeptStep
  <2>5. FrameMax >= 2 => EthKept
    BY Zenon, <2>4, SameEnet DEF EthKept
  <2>6. EthInv'
    BY ZenonT(40), <1>2, <2>2, <2>3 DEF EthInv
  <2>7. E!StallsLate
    BY ZenonT(40), <2>2, SameEnet
  <2> QED BY Zenon, <2>5, <2>6, <2>7
<1> QED BY ZenonT(40), <1>1, <1>2 DEF SerialNext, serial

\* A machine with an ENET never leaves the invariant.
LEMMA EthInvariant == SerialSpec => []EthInv
<1>1. SerialInit => EthInv
  <2> SUFFICES ASSUME SerialInit, dut = "enet"
               PROVE  EP!EnetInv /\ (FrameMax >= 2 => EP!FrameInv)
    BY Zenon DEF EthInv
  <2>1. EP!EnetInit
    BY ZenonT(40), SameEnet DEF SerialInit
  <2>2. EP!Sizes /\ (FrameMax >= 2 => EP!Fits)
    BY ZenonT(40), EnetAssumption DEF EP!Sizes, EP!Fits
  <2> QED BY ZenonT(40), <2>1, <2>2, EP!EnetInitInv, EP!FrameInitInv
<1> QED BY <1>1, EthStep, PTL DEF SerialSpec

\* For rings of any length, every frame the driver receives or that leaves for the network
\* is whole, in order and not twice, although a frame spans descriptors, the ring runs dry
\* within one, and doorbells, resets and ring set-ups fall between its pieces
\* (mcxn_enet_deliver, mcxn_enet_tx_process).
THEOREM FramesAreWhole ==
  ASSUME FrameMax >= 2
  PROVE  SerialSpec => []EnetFramesWhole
<1>1. EthInv => EnetFramesWhole
  <2>1. EthInv => (dut = "enet" => EP!FrameInv)
    BY Zenon DEF EthInv
  <2> QED BY ZenonT(40), <2>1, EP!WholeFromInv, SameEnet DEF EnetFramesWhole
<1> QED BY <1>1, EthInvariant, PTL

\* A frame that waits in the net layer or arrives is after the step in the ring, or held
\* back from a receiver that is off, unless the device is out of buffers or the queue was
\* emptied into a receiver that is off (qemu_flush_queued_packets, mcxn_enet_receive).
THEOREM OnlyEarlyFlush ==
  ASSUME FrameMax >= 2
  PROVE  SerialSpec => EnetOnlyEarlyFlushDrops
<1>1. EthInv /\ [SerialNext]_serial => [EthKept]_enet
  BY ZenonT(40), EthStep
<1> QED BY <1>1, EthInvariant, PTL DEF SerialSpec, EnetOnlyEarlyFlushDrops, EthKept

\* A frame is stuck in the transmit ring only when the transmitter was off as the doorbell
\* rang: mcxn_enet_tx_process walks to the tail, for rings of any length up to its guard.
THEOREM DoorbellLeavesNothing == SerialSpec => EnetOnlyLateStartStalls
<1> QED BY EthInvariant, EthStep, PTL DEF SerialSpec, EnetOnlyLateStartStalls

\* The machine's LP_FLEXCOMM is the LP_FLEXCOMM of its driver, and of any guest.
LEMMA MachineIsFlexcomm == SerialSpec => DriverSpec /\ FlexcommSpec
<1>1. SerialInit => FlexcommInit
  BY Zenon DEF SerialInit
<1>2. [SerialNext]_serial => [DriverNext]_flexcomm
  BY ZenonT(40), MachineStep
<1> QED BY <1>1, <1>2, DriverIsGuest, PTL DEF SerialSpec, DriverSpec, FlexcommSpec

\* The interrupt and request lines of all three devices are what their registers and
\* FIFOs say, across resets and migrations (mcxn_flexcomm_update_irq,
\* mcxn_sai_update_irq, mcxn_enet_update_irq).
THEOREM SerialLines == SerialSpec => []SerialLinesFollowState
<1>1. SaiInv /\ EthInv /\ LinesFollowState => SerialLinesFollowState
  <2>1. EthInv => (dut = "enet" => eth.irq = E!IrqWanted(eth))
    <3>1. EP!IrqWanted(eth) = E!IrqWanted(eth)
      BY DEF EP!IrqWanted, E!IrqWanted
    <3> QED BY ZenonT(40), <3>1 DEF EthInv, EP!EnetInv, EP!LineDrawn
  <2> QED BY ZenonT(40), <2>1 DEF SaiInv, SaiLines, SerialLinesFollowState
<1> QED BY <1>1, SaiInvariant, EthInvariant, MachineIsFlexcomm, FlexcommLines, PTL

\* What is proved of the LP_FLEXCOMM alone holds of it on the machine.
THEOREM MachineFlexcomm ==
  SerialSpec => /\ [](BytesInOrder /\ OnlyLateEnableStalls)
                /\ OnlyShrinkingOverruns
                /\ [](OneTransaction /\ AskedIsOffered)
<1> QED BY MachineIsFlexcomm, InOrderForAnyGuest, StallsOnlyAfterLateEnable,
           OverrunsOnlyAfterShrinking, CommandIsTransaction, AskedCanBeRead, PTL
=============================================================================

------------------------------- MODULE LpUart -------------------------------
(***************************************************************************)
(* The receiver of the LPUART in hw/char/mcxn_lpuart.c and the chardev       *)
(* watch that feeds it (chardev/char-io.c, chardev/char-socket.c).           *)
(*                                                                         *)
(* The peer numbers the bytes it sends.  The main loop asks how much room    *)
(* there is (offer, the backend's max_size) before it releases the big lock  *)
(* to poll, and delivers up to that much after it has taken it back: the     *)
(* guest runs in between.  An offer of 0 takes the descriptor out of the     *)
(* poll set, and only another iteration of the loop puts it back.            *)
(*                                                                         *)
(* The interrupt and request lines belong to the wrapper, module Flexcomm.   *)
(***************************************************************************)
EXTENDS Integers

CONSTANTS
  Depth,      \* MCXN_LPUART_FIFO_DEPTH
  MaxBytes    \* bound: bytes the peer sends

VARIABLES
  ctrl,       \* CTRL: RE, RIE, and TIE or TCIE
  baud,       \* BAUD: the directions whose DMA request is enabled
  rxfe,       \* FIFO[RXFE]
  water,      \* WATER[RXWATER]
  rx_fifo, rx_head, rx_count,
  stat_or,    \* STAT[OR]
  queued,     \* bytes the peer has sent
  sent,       \* bytes the backend has handed over
  gone,       \* the last byte the guest read or threw away
  offer,      \* max_size, as the last prepare recorded it
  notified,   \* qemu_notify_event is pending
  late,       \* room was made since the last prepare by a write that tells no one
  shrunk      \* room was taken away below the offer since the last prepare

uartRegs == <<ctrl, baud, rxfe, water>>
rxRing == <<rx_fifo, rx_head, rx_count>>
host == <<queued, sent, offer, notified, late, shrunk>>
uart == <<uartRegs, rxRing, stat_or, gone, host>>

CtrlReg == [re : BOOLEAN, rie : BOOLEAN, tie : BOOLEAN]
Off == [re |-> FALSE, rie |-> FALSE, tie |-> FALSE]

UartInit ==
  /\ ctrl = Off
  /\ baud = {}
  /\ rxfe = FALSE
  /\ water = 0
  /\ rx_fifo = [i \in 0 .. Depth - 1 |-> 0]
  /\ rx_head = 0
  /\ rx_count = 0
  /\ stat_or = FALSE
  /\ queued = 0
  /\ sent = 0
  /\ gone = 0
  /\ offer = 0
  /\ notified = FALSE
  /\ late = FALSE
  /\ shrunk = FALSE

-----------------------------------------------------------------------------
lpuart_rx_depth == IF rxfe THEN Depth ELSE 1

\* Negative when RXFE was cleared over a FIFO that held more than one byte.
Room == lpuart_rx_depth - rx_count

\* Mutant: the watermark is off by one.
RdrfLate == rx_count > water + 1

lpuart_rdrf == rx_count > water

\* Mutant: the whole depth is offered, whatever waits.
CanRxWhole == IF ctrl.re THEN lpuart_rx_depth ELSE 0

mcxn_lpuart_can_rx == IF ctrl.re THEN Room ELSE 0

\* io_watch_poll_prepare, once per iteration of the main loop.
Prepare ==
  /\ offer' = IF mcxn_lpuart_can_rx' > 0 THEN mcxn_lpuart_can_rx' ELSE 0
  /\ notified' = FALSE
  /\ late' = FALSE
  /\ shrunk' = FALSE

\* A guest access while the main loop polls: it may notify it, and it may enable
\* the receiver or its FIFO without doing so.
Meanwhile(notify, enable) ==
  /\ notified' = (notified \/ notify)
  /\ late' = (late \/ (enable /\ mcxn_lpuart_can_rx <= 0 /\ mcxn_lpuart_can_rx' > 0))
  /\ shrunk' = (shrunk \/ offer > Room')
  /\ UNCHANGED <<queued, sent, offer>>

-----------------------------------------------------------------------------
HostSends ==
  /\ queued < MaxBytes
  /\ queued' = queued + 1
  /\ UNCHANGED <<uartRegs, rxRing, stat_or, gone, sent, offer, notified, late, shrunk>>

\* Mutant: the ring is filled from its start, wherever its head is.
RxFromStart(n) ==
  LET stored == IF n <= Room THEN n ELSE IF Room > 0 THEN Room ELSE 0
  IN  /\ rx_fifo' = [i \in 0 .. Depth - 1 |->
           LET k == (i - rx_count) % Depth
           IN  IF k < stored THEN sent + 1 + k ELSE rx_fifo[i]]
      /\ rx_count' = rx_count + stored
      /\ stat_or' = (stat_or \/ stored < n)
      /\ sent' = sent + n
      /\ UNCHANGED <<uartRegs, rx_head, gone, queued>>

\* n bytes are pushed: those that find room are stored, the others are lost.
mcxn_lpuart_rx(n) ==
  LET stored == IF n <= Room THEN n ELSE IF Room > 0 THEN Room ELSE 0
  IN  /\ rx_fifo' = [i \in 0 .. Depth - 1 |->
           LET k == (i - rx_head - rx_count) % Depth
           IN  IF k < stored THEN sent + 1 + k ELSE rx_fifo[i]]
      /\ rx_count' = rx_count + stored
      /\ stat_or' = (stat_or \/ stored < n)
      /\ sent' = sent + n
      /\ UNCHANGED <<uartRegs, rx_head, gone, queued>>

\* The poll returns with the descriptor readable: the backend reads no more than
\* it recorded, and the next iteration prepares before the big lock is released.
tcp_chr_read(n) ==
  /\ n <= offer /\ n <= queued - sent
  /\ mcxn_lpuart_rx(n)
  /\ Prepare

\* Any other event of the main loop, among them qemu_notify_event.
Iterate ==
  /\ UNCHANGED <<uartRegs, rxRing, stat_or, gone, queued, sent>>
  /\ Prepare

-----------------------------------------------------------------------------
lpuart_rx_pop ==
  /\ gone' = rx_fifo[rx_head]
  /\ rx_head' = (rx_head + 1) % Depth
  /\ rx_count' = rx_count - 1
  /\ UNCHANGED rx_fifo

\* Mutant: the chardev is not told that there is room again.
ReadDataSilent ==
  /\ rx_count > 0
  /\ lpuart_rx_pop
  /\ UNCHANGED <<uartRegs, stat_or>>
  /\ Meanwhile(FALSE, FALSE)

\* DATA of a FIFO that holds something; an empty one only says so.
ReadData ==
  /\ rx_count > 0
  /\ lpuart_rx_pop
  /\ UNCHANGED <<uartRegs, stat_or>>
  /\ Meanwhile(TRUE, FALSE)

Flush ==
  /\ rx_head' = 0
  /\ rx_count' = 0
  /\ gone' = sent
  /\ UNCHANGED rx_fifo

\* FIFO: RXFE, and RXFLUSH which empties the FIFO.
WriteFifo(fe, flush) ==
  /\ rxfe' = fe
  /\ IF flush THEN Flush ELSE UNCHANGED <<rxRing, gone>>
  /\ UNCHANGED <<ctrl, baud, water, stat_or>>
  /\ Meanwhile(flush, ~flush)

WriteWater(n) ==
  /\ water' = n
  /\ UNCHANGED <<ctrl, baud, rxfe, rxRing, stat_or, gone>>
  /\ Meanwhile(FALSE, FALSE)

WriteBaud(v) ==
  /\ baud' = v
  /\ UNCHANGED <<ctrl, rxfe, water, rxRing, stat_or, gone>>
  /\ Meanwhile(FALSE, FALSE)

WriteCtrl(v) ==
  /\ ctrl' = v
  /\ UNCHANGED <<baud, rxfe, water, rxRing, stat_or, gone>>
  /\ Meanwhile(FALSE, TRUE)

\* GLOBAL[RST], and the LPUART's part of a system reset.
UartReset ==
  /\ ctrl' = Off
  /\ baud' = {}
  /\ rxfe' = FALSE
  /\ water' = 0
  /\ Flush
  /\ stat_or' = FALSE
  /\ Meanwhile(FALSE, FALSE)

-----------------------------------------------------------------------------
\* The bytes that wait, oldest first.
Received == [i \in 1 .. rx_count |-> rx_fifo[(rx_head + i - 1) % Depth]]

\* The guest reads the peer's bytes in order and none twice, and none is missing
\* while the overrun flag is clear: what waits in the ring are the bytes after the
\* last one that left it, up to the last one the backend handed over
\* (lpuart_rx_push, lpuart_rx_pop).
BytesInOrder ==
  /\ \A i, j \in 1 .. rx_count : i < j => Received[i] < Received[j]
  /\ \A i \in 1 .. rx_count : Received[i] \in gone + 1 .. sent
  /\ stat_or \/ rx_count = sent - gone

\* A byte is dropped only when the guest took room away after the backend had
\* asked for it: "can_receive() reports our free space, so QEMU BACKPRESSURES the
\* sender" (mcxn_lpuart.c:1258).
OnlyShrinkingOverruns == [][stat_or' /\ ~stat_or => shrunk]_uart

\* "So this path is correct and, with a chardev backend, UNREACHABLE: we never
\* lose data" (mcxn_lpuart.c:1261): the overrun flag never comes up.
NeverOverruns == ~stat_or

\* With bytes to deliver and room for them the main loop is polling, or about to,
\* unless the room was made by enabling the receiver or its FIFO: a read and a
\* flush both "tell the chardev to resume delivering buffered input, or a
\* continuous RX stream stalls after one byte" (mcxn_lpuart.c:996).
OnlyLateEnableStalls ==
  queued > sent /\ mcxn_lpuart_can_rx > 0 => offer > 0 \/ notified \/ late
=============================================================================

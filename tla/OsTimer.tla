------------------------------ MODULE OsTimer ------------------------------
(***************************************************************************)
(* The OS event timer of hw/timer/mcxn_ostimer.c: a counter that runs from    *)
(* reset and one match, which the guest writes and reads in Gray code in two   *)
(* halves.  age is the virtual clock minus base_ns, due the host timer's       *)
(* deadline minus the virtual clock.                                          *)
(***************************************************************************)
EXTENDS Integers, Bitwise

CONSTANTS
  HalfBits,   \* width of MATCH_L, 32
  HighBits,   \* width of MATCH_H, 10
  NsPerSec,   \* 10^9
  None        \* the host timer is not armed

VARIABLE s

Word == 0 .. 2^(HalfBits + HighBits) - 1

gray_to_bin[g \in Word] == IF g = 0 THEN 0 ELSE g ^^ gray_to_bin[g \div 2]

Reset == [
  gray_l |-> 2^HalfBits - 1,
  gray_h |-> 2^HighBits - 1,
  intrflag |-> FALSE, intena |-> FALSE,   \* OSEVENT_CTRL
  age |-> 0,
  due |-> None,
  freq |-> 0,                             \* clk, chosen by SYSCON OSTIMERCLKSEL
  irq |-> FALSE,
  trapped |-> FALSE,                      \* the host divided by zero
  waiting |-> FALSE]                      \* history: the event set up has not been signalled

Init == s = Reset

-----------------------------------------------------------------------------
match(c) == gray_to_bin[c.gray_h * 2^HalfBits + c.gray_l]

\* What the guest reads, in Gray code, from EVTIMER.
ostimer_count(c) == (c.age * c.freq) \div NsPerSec

ostimer_update_irq(c) == [c EXCEPT !.irq = c.intrflag /\ c.intena]

Ahead(c) == c.intena /\ match(c) > ostimer_count(c)

\* Mutant: the deadline is computed as if the counter stood at zero.
RescheduleFromZero(c) ==
  IF ~Ahead(c) THEN [c EXCEPT !.due = None]
  ELSE IF c.freq = 0 THEN [c EXCEPT !.due = None, !.trapped = TRUE]
  ELSE [c EXCEPT !.due = (match(c) * NsPerSec) \div c.freq]

\* A match at or behind the counter is not armed.
ostimer_reschedule(c) ==
  IF ~Ahead(c) THEN [c EXCEPT !.due = None]
  ELSE IF c.freq = 0 THEN [c EXCEPT !.due = None, !.trapped = TRUE]
  ELSE [c EXCEPT !.due = ((match(c) - ostimer_count(c)) * NsPerSec) \div c.freq]

Armed == s.due # None

\* The host timer's callback; QEMU removes the timer before it runs.
ostimer_tick ==
  /\ Armed /\ s.due <= 0
  /\ s' = ostimer_update_irq([s EXCEPT !.intrflag = TRUE, !.due = None, !.waiting = FALSE])

-----------------------------------------------------------------------------
\* One nanosecond of virtual time.
Pass == s' = [s EXCEPT !.age = @ + 1, !.due = IF Armed THEN @ - 1 ELSE @]

\* A new match replaces what was waited for.
Retarget(c) == ostimer_reschedule([c EXCEPT !.waiting = Ahead(c)])

WriteMatchL(v) == s' = Retarget([s EXCEPT !.gray_l = v])

WriteMatchH(v) == s' = Retarget([s EXCEPT !.gray_h = v])

WriteCtrl(clr, ena) ==
  LET c == ostimer_update_irq([s EXCEPT !.intrflag = @ /\ ~clr, !.intena = ena])
  IN  s' = ostimer_reschedule([c EXCEPT !.waiting = Ahead(c) \/ (@ /\ ena)])

\* SYSCON selects another clock: the device registered no callback for it.
SelectClock(f) == s' = [s EXCEPT !.freq = f]

\* System reset, of SYSCON's clock selection and the NVIC too.
mcxn_ostimer_reset == s' = Reset

mcxn_ostimer_post_load == s' = ostimer_update_irq(s)

-----------------------------------------------------------------------------
\* Exact time from now to the instant the counter reaches the match.
ToMatch ==
  IF s.waiting THEN (match(s) * NsPerSec + s.freq - 1) \div s.freq - s.age ELSE None
=============================================================================

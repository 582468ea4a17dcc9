------------------------------- MODULE CTimer -------------------------------
(***************************************************************************)
(* The counter/timer of hw/timer/mcxn_ctimer.c.  The counter is not stepped: *)
(* tc and pc are its values at base_ns, what the guest reads is computed from *)
(* the time that passed since, and one host timer is armed for the soonest    *)
(* match that has an action.                                                 *)
(*                                                                         *)
(* The state is one record, as in the code, and each static function of the   *)
(* file is an operator from the record it finds to the record it leaves.      *)
(* Time is relative: age is the virtual clock minus base_ns, due the host     *)
(* timer's deadline minus the virtual clock, so that a callback whose due is  *)
(* negative is late.  The clock makes freq cycles in NsPerSec nanoseconds.    *)
(* Input capture, which only copies the live counter, is left out.            *)
(***************************************************************************)
EXTENDS Integers, FiniteSets, FiniteSetsExt

CONSTANTS
  Match,      \* the match channels, 0 .. 3
  Wrap,       \* 2^32
  NsPerSec,   \* 10^9
  None        \* the host timer is not armed

VARIABLE s

Reset == [
  ir |-> {},                       \* the matches whose flag is set
  cen |-> FALSE, crst |-> FALSE,   \* TCR
  pr |-> 0,
  mcr |-> [n \in Match |-> {}],    \* the actions of each match: INT, RST, STOP
  mr |-> [n \in Match |-> 0],
  tc |-> 0, pc |-> 0, age |-> 0,
  due |-> None,
  freq |-> 0,                      \* clk, chosen by SYSCON CTIMERCLKSEL
  irq |-> FALSE,
  pulse |-> {},                    \* the matches whose output lines the last step pulsed
  trapped |-> FALSE]               \* the host divided by zero

Init == s = Reset

-----------------------------------------------------------------------------
ctimer_running(c) == c.cen /\ ~c.crst

\* Clock cycles since base_ns; the fraction of a cycle is dropped.
Elapsed(c) == (c.age * c.freq) \div NsPerSec

\* What the guest reads from TC and PC.
PeekTc(c) ==
  IF ctimer_running(c) THEN (c.tc + (c.pc + Elapsed(c)) \div (c.pr + 1)) % Wrap ELSE c.tc

PeekPc(c) ==
  IF ctimer_running(c) THEN (c.pc + Elapsed(c)) % (c.pr + 1) ELSE c.pc

ctimer_sync(c) == [c EXCEPT !.tc = PeekTc(c), !.pc = PeekPc(c), !.age = 0]

ctimer_update_irq(c) == [c EXCEPT !.irq = c.ir # {}]

Active(c) == {n \in Match : c.mcr[n] # {}}

\* How far match n is ahead of TC.
Dtc(c, n) == (c.mr[n] - c.tc) % Wrap

\* Mutant: the prescaler cycles already counted are not taken off.
ClocksFromZero(c, n) == IF Dtc(c, n) = 0 THEN 1 ELSE Dtc(c, n) * (c.pr + 1)

\* Clock cycles from base_ns to match n, at least one.
Clocks(c, n) ==
  LET clocks == Dtc(c, n) * (c.pr + 1) IN IF clocks > c.pc THEN clocks - c.pc ELSE 1

\* A clock that does not run divides by zero, which ends the host process.
ctimer_reschedule(c) ==
  IF ~ctimer_running(c) \/ Active(c) = {} THEN [c EXCEPT !.due = None]
  ELSE IF c.freq = 0 THEN [c EXCEPT !.due = None, !.trapped = TRUE]
  ELSE LET best == Min({(Clocks(c, n) * NsPerSec) \div c.freq : n \in Active(c)})
       IN  [c EXCEPT !.due = Max({1, best})]

\* The matches at the value of the one nearest ahead of the counter.
Firing(c) ==
  {n \in Active(c) : \A m \in Active(c) : Dtc(c, n) <= Dtc(c, m)}

\* What the matches in hit do when the counter is on them.
Fire(c, hit) ==
  LET doing(act) == \E n \in hit : act \in c.mcr[n]
  IN  [c EXCEPT !.tc = IF doing("RST") THEN 0 ELSE c.mr[CHOOSE n \in hit : TRUE],
                !.pc = 0,
                !.ir = @ \cup {n \in hit : "INT" \in c.mcr[n]},
                !.cen = @ /\ ~doing("STOP"),
                !.pulse = hit]

Armed == s.due # None

\* The host timer's callback: the nearest match is taken to be the one that is due.
\* The timer is only ever armed with some match active.
ctimer_tick ==
  /\ Armed /\ s.due <= 0
  /\ \E c \in {ctimer_sync(s)} :
       \E f \in {ctimer_update_irq(Fire(c, Firing(c)))} : s' = ctimer_reschedule(f)

-----------------------------------------------------------------------------
Quiet(c) == [c EXCEPT !.pulse = {}]

\* One nanosecond of virtual time; a stopped counter does not look at the clock.
Pass ==
  s' = Quiet([s EXCEPT !.age = IF ctimer_running(s) THEN @ + 1 ELSE @,
                       !.due = IF Armed THEN @ - 1 ELSE @])

WriteIr(bits) == s' = Quiet(ctimer_update_irq([s EXCEPT !.ir = @ \ bits]))

WriteTcr(en, rst) ==
  s' = LET c == [ctimer_sync(s) EXCEPT !.cen = en, !.crst = rst]
       IN  Quiet(ctimer_reschedule(IF rst THEN [c EXCEPT !.tc = 0, !.pc = 0] ELSE c))

WriteTc(v) == s' = Quiet(ctimer_reschedule([ctimer_sync(s) EXCEPT !.tc = v]))

WritePr(v) == s' = Quiet(ctimer_reschedule([ctimer_sync(s) EXCEPT !.pr = v]))

WritePc(v) == s' = Quiet(ctimer_reschedule([ctimer_sync(s) EXCEPT !.pc = v]))

WriteMcr(v) == s' = Quiet(ctimer_reschedule([ctimer_sync(s) EXCEPT !.mcr = v]))

WriteMr(n, v) == s' = Quiet(ctimer_reschedule([ctimer_sync(s) EXCEPT !.mr[n] = v]))

\* SYSCON selects another clock: the device registered no callback for it.
SelectClock(f) == s' = Quiet([s EXCEPT !.freq = f])

\* System reset, of SYSCON's clock selection and the NVIC too.
mcxn_ctimer_reset == s' = Reset

\* Migration: registers and deadline arrive, the line is driven from IR.
mcxn_ctimer_post_load == s' = Quiet(ctimer_update_irq(s))

-----------------------------------------------------------------------------
\* Exact time from now to the instant the counter reaches its nearest match.
ToMatch ==
  IF ctimer_running(s) /\ Active(s) # {}
  THEN LET cycles == Min({Dtc(s, n) * (s.pr + 1) - s.pc : n \in Active(s)})
       IN  (cycles * NsPerSec + s.freq - 1) \div s.freq - s.age
  ELSE None
=============================================================================

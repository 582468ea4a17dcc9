-------------------------------- MODULE Mrt --------------------------------
(***************************************************************************)
(* The multi-rate timer of hw/timer/mcxn_mrt.c: down-counters that share one *)
(* host timer and one interrupt line.  Each channel counts from load at its   *)
(* own base_ns; age[n] is the virtual clock minus base_ns[n], due the host    *)
(* timer's deadline minus the virtual clock.                                 *)
(***************************************************************************)
EXTENDS Integers, FiniteSets, FiniteSetsExt

CONSTANTS
  Channel,    \* 0 .. 3
  NsPerSec,   \* 10^9
  BusHz,      \* the bus clock the SCG drives out of reset
  None        \* the host timer is not armed

VARIABLE s

Reset == [
  intval |-> [n \in Channel |-> 0],
  ctrl |-> [n \in Channel |-> {}],       \* INTEN, and ONESHOT for a MODE other than repeat
  stat |-> [n \in Channel |-> {}],       \* INTFLAG, RUN
  load |-> [n \in Channel |-> 0],
  age |-> [n \in Channel |-> 0],
  due |-> None,
  freq |-> BusHz,                        \* clk
  irq |-> FALSE,
  trapped |-> FALSE]                     \* the host divided by zero

Init == s = Reset

-----------------------------------------------------------------------------
Running(c) == {n \in Channel : "RUN" \in c.stat[n]}

\* What the guest reads from TIMER.
mrt_peek(c, n) ==
  LET counts == (c.age[n] * c.freq) \div NsPerSec
  IN  IF n \notin Running(c) THEN c.load[n] ELSE Max({0, c.load[n] - counts})

mrt_update_irq(c) ==
  [c EXCEPT !.irq = \E n \in Channel : "INTFLAG" \in c.stat[n] /\ "INTEN" \in c.ctrl[n]]

mrt_reschedule(c) ==
  IF Running(c) = {} THEN [c EXCEPT !.due = None]
  ELSE IF c.freq = 0 THEN [c EXCEPT !.due = None, !.trapped = TRUE]
  ELSE LET best == Min({(mrt_peek(c, n) * NsPerSec) \div c.freq : n \in Running(c)})
       IN  [c EXCEPT !.due = Max({1, best})]

Armed == s.due # None

Expired == {n \in Running(s) : mrt_peek(s, n) = 0}

Reloads(n) == "ONESHOT" \notin s.ctrl[n] /\ s.intval[n] # 0

\* Mutant: the callback ends every channel's wait, not only those that ran out.
TickServesAll ==
  /\ Armed /\ s.due <= 0
  /\ s' = mrt_reschedule(mrt_update_irq(
            [s EXCEPT
               !.stat = [n \in Channel |->
                           IF n \notin Running(s) THEN @[n]
                           ELSE IF Reloads(n) THEN @[n] \cup {"INTFLAG"} ELSE {"INTFLAG"}],
               !.load = [n \in Channel |->
                           IF n \notin Running(s) THEN @[n]
                           ELSE IF Reloads(n) THEN s.intval[n] ELSE 0],
               !.age = [n \in Channel |-> IF n \in Running(s) THEN 0 ELSE @[n]]]))

\* The host timer's callback: every channel whose count has run out.
mrt_tick ==
  /\ Armed /\ s.due <= 0
  /\ s' = mrt_reschedule(mrt_update_irq(
            [s EXCEPT
               !.stat = [n \in Channel |->
                           IF n \notin Expired THEN @[n]
                           ELSE IF Reloads(n) THEN @[n] \cup {"INTFLAG"} ELSE {"INTFLAG"}],
               !.load = [n \in Channel |->
                           IF n \notin Expired THEN @[n]
                           ELSE IF Reloads(n) THEN s.intval[n] ELSE 0],
               !.age = [n \in Channel |-> IF n \in Expired THEN 0 ELSE @[n]]]))

-----------------------------------------------------------------------------
\* One nanosecond of virtual time.
Pass ==
  s' = [s EXCEPT !.age = [n \in Channel |-> IF n \in Running(s) THEN @[n] + 1 ELSE 0],
                 !.due = IF Armed THEN @ - 1 ELSE @]

\* INTVAL: an idle channel, or a write with LOAD, starts from the value at once.
WriteIntval(n, v, ld) ==
  LET c == [s EXCEPT !.intval[n] = v]
  IN  s' = mrt_reschedule(
             IF ld \/ n \notin Running(s)
             THEN [c EXCEPT !.load[n] = v, !.age[n] = 0,
                            !.stat[n] = IF v # 0 THEN @ \cup {"RUN"} ELSE @ \ {"RUN"}]
             ELSE c)

WriteCtrl(n, v) == s' = mrt_update_irq([s EXCEPT !.ctrl[n] = v])

\* STAT with INTFLAG set; without it only the line is driven again.
WriteStat(n) == s' = mrt_update_irq([s EXCEPT !.stat[n] = @ \ {"INTFLAG"}])

\* The SCG changes the bus clock: the device registered no callback for it.
SelectClock(f) == s' = [s EXCEPT !.freq = f]

\* System reset, of the SCG and the NVIC too.
mcxn_mrt_reset == s' = Reset

mcxn_mrt_post_load == s' = mrt_update_irq(s)

-----------------------------------------------------------------------------
\* Exact time from now to the instant channel n has counted down to zero.
ToZero(n) ==
  IF n \in Running(s)
  THEN (s.load[n] * NsPerSec + s.freq - 1) \div s.freq - s.age[n]
  ELSE None
=============================================================================

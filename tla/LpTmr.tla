------------------------------- MODULE LpTmr -------------------------------
(***************************************************************************)
(* The low-power timer of hw/timer/mcxn_lptmr.c: one 16-bit counter that      *)
(* restarts when it passes CMR, an interrupt and a trigger pulse.  age is the *)
(* virtual clock minus base_ns, due the host timer's deadline minus the        *)
(* virtual clock.                                                            *)
(***************************************************************************)
EXTENDS Integers

CONSTANTS
  Wrap,       \* 2^16
  SourceHz,   \* rate of each source PCS selects; 0 for the crystal that is not there
  NsPerSec,   \* 10^9
  None        \* the host timer is not armed

VARIABLE s

Reset == [
  ten |-> FALSE, tfc |-> FALSE, tie |-> FALSE, tcf |-> FALSE,   \* CSR
  pcs |-> 0, div |-> 2,                                         \* PSR
  cmr |-> 0,
  cnr |-> 0, age |-> 0,
  due |-> None,
  irq |-> FALSE,
  trigger |-> FALSE]   \* the last step pulsed the trigger line

Init == s = Reset

-----------------------------------------------------------------------------
lptmr_freq(c) == SourceHz[c.pcs] \div c.div

\* What the guest reads from CNR.
lptmr_peek(c) ==
  IF c.ten THEN (c.cnr + (c.age * lptmr_freq(c)) \div NsPerSec) % Wrap ELSE c.cnr

lptmr_update_irq(c) == [c EXCEPT !.irq = c.tcf /\ c.tie]

\* Mutant: the period is CMR counts.
RemainShort(c) == IF lptmr_peek(c) <= c.cmr THEN c.cmr - lptmr_peek(c) ELSE 1

\* Counts until the counter has passed CMR; one, when it already has.
Remain(c) == IF lptmr_peek(c) <= c.cmr THEN c.cmr - lptmr_peek(c) + 1 ELSE 1

lptmr_reschedule(c) ==
  [c EXCEPT !.due = IF c.ten /\ lptmr_freq(c) # 0
                    THEN (Remain(c) * NsPerSec) \div lptmr_freq(c) ELSE None]

Armed == s.due # None

\* The host timer's callback.
lptmr_tick ==
  /\ Armed /\ s.due <= 0
  /\ s' = lptmr_reschedule(lptmr_update_irq(
            [s EXCEPT !.tcf = TRUE,
                      !.cnr = IF s.tfc THEN lptmr_peek(s) ELSE 0,
                      !.age = 0,
                      !.trigger = TRUE]))

-----------------------------------------------------------------------------
Quiet(c) == [c EXCEPT !.trigger = FALSE]

\* One nanosecond of virtual time; a disabled counter does not look at the clock.
Pass ==
  s' = Quiet([s EXCEPT !.age = IF s.ten THEN @ + 1 ELSE 0,
                       !.due = IF Armed THEN @ - 1 ELSE @])

\* CSR: TCF is cleared by writing one, enabling restarts the counter.
WriteCsr(clr, ten, tfc, tie) ==
  LET c == [s EXCEPT !.tcf = @ /\ ~clr, !.ten = ten, !.tfc = tfc, !.tie = tie,
                     !.cnr = IF ten /\ s.ten THEN @ ELSE 0,
                     !.age = IF ten /\ ~s.ten THEN 0 ELSE @]
  IN  s' = Quiet(lptmr_reschedule(lptmr_update_irq(c)))

\* PSR and CMR do not commit what was counted.
WritePsr(pcs, div) == s' = Quiet(lptmr_reschedule([s EXCEPT !.pcs = pcs, !.div = div]))

WriteCmr(v) == s' = Quiet(lptmr_reschedule([s EXCEPT !.cmr = v]))

\* System reset, of the NVIC too.
mcxn_lptmr_reset == s' = Reset

mcxn_lptmr_post_load == s' = Quiet(lptmr_update_irq(s))

-----------------------------------------------------------------------------
\* Exact time from now to the instant the counter passes CMR and restarts.
ToCompare ==
  IF s.ten /\ lptmr_freq(s) # 0
  THEN ((s.cmr - s.cnr + 1) * NsPerSec + lptmr_freq(s) - 1) \div lptmr_freq(s) - s.age
  ELSE None
=============================================================================

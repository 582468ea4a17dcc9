------------------------------- MODULE Timers -------------------------------
(***************************************************************************)
(* The four timers of hw/timer/ under the firmware that the repository's      *)
(* tests and the SDK drivers show: it selects a clock before it starts a      *)
(* timer, configures a timer only while it is stopped, and acknowledges an    *)
(* expiry once.  A host callback may run up to MaxLate nanoseconds after its  *)
(* deadline, anywhere between two accesses of the guest.                      *)
(*                                                                         *)
(* The timers share nothing, so a behaviour exercises the one in dut.         *)
(***************************************************************************)
EXTENDS Integers, FiniteSets

CONSTANTS
  NsPerSec, None,
  MaxLate,    \* bound: how late a callback runs
  MaxAge,     \* bound: how long a counter with nothing to wait for is followed
  Match, CtWrap, FreqIn, PrIn, MrIn, McrIn,
  Channel, BusHz, BusHzIn, IntvalIn,
  HalfBits, HighBits,
  LptWrap, SourceHz, DivIn, CmrIn

VARIABLES dut, ct, mrt, ost, lpt

vars == <<dut, ct, mrt, ost, lpt>>

C == INSTANCE CTimer WITH s <- ct, Wrap <- CtWrap
M == INSTANCE Mrt WITH s <- mrt
O == INSTANCE OsTimer WITH s <- ost
L == INSTANCE LpTmr WITH s <- lpt, Wrap <- LptWrap

Init ==
  /\ dut \in {"ctimer", "mrt", "ostimer", "lptmr"}
  /\ C!Init /\ M!Init /\ O!Init /\ L!Init

-----------------------------------------------------------------------------
\* The CTIMER driver starts the counter with a clock, PC below the prescaler, and off the
\* matches.
CtReady ==
  /\ ~C!ctimer_running(ct)
  /\ ct.freq # 0 /\ ct.pc <= ct.pr
  /\ C!Active(ct) # {}
  /\ \A n \in C!Active(ct) : ct.mr[n] \notin {0, ct.tc}

\* All active matches are at one value and one of them resets or stops the counter.
CtPeriodOrStop ==
  /\ \E n \in C!Active(ct) : ct.mcr[n] \cap {"RST", "STOP"} # {}
  /\ \A m, n \in C!Active(ct) : ct.mr[m] = ct.mr[n]

CtConfigure ==
  /\ ~C!ctimer_running(ct)
  /\ \/ \E f \in FreqIn : C!SelectClock(f)
     \/ \E v \in PrIn : C!WritePr(v)
     \/ \E v \in McrIn : C!WriteMcr(v)
     \/ \E n \in Match, v \in MrIn : C!WriteMr(n, v)
     \/ \E v \in MrIn : C!WriteTc(v)
     \/ C!WritePc(0)
     \/ C!WriteTcr(FALSE, TRUE)

CtStart == CtReady /\ CtPeriodOrStop /\ C!WriteTcr(TRUE, FALSE)

CtStop == C!ctimer_running(ct) /\ C!WriteTcr(FALSE, FALSE)

CtAck == ct.ir # {} /\ C!WriteIr(ct.ir)

CtDriver ==
  /\ dut = "ctimer"
  /\ CtConfigure \/ CtStart \/ CtStop \/ CtAck \/ C!mcxn_ctimer_reset \/ C!mcxn_ctimer_post_load
  /\ UNCHANGED <<dut, mrt, ost, lpt>>

\* The MRT driver: channels are started, given their next interval, switched, stopped and
\* acknowledged, one while the other counts; to restart one it is stopped first.  INTVAL is
\* not written while the callback is overdue, because every write arms it anew.
MrtDriver ==
  /\ dut = "mrt"
  /\ \/ /\ mrt.due # None => mrt.due > 0
        /\ \E n \in Channel : M!WriteIntval(n, 0, TRUE)
                              \/ \E v \in IntvalIn : M!WriteIntval(n, v, FALSE)
     \/ \E n \in Channel, v \in {{}, {"INTEN"}, {"INTEN", "ONESHOT"}} : M!WriteCtrl(n, v)
     \/ \E n \in Channel : M!WriteStat(n)
     \/ \E f \in BusHzIn : M!Running(mrt) = {} /\ M!SelectClock(f)
     \/ M!mcxn_mrt_reset
     \/ M!mcxn_mrt_post_load
  /\ UNCHANGED <<dut, ct, ost, lpt>>

\* The OSTIMER driver sets a match with the event disabled, and leaves OSEVENT_CTRL alone
\* from enabling the event until it is signalled.
OstDriver ==
  /\ dut = "ostimer"
  /\ \/ ~ost.intena /\ \E v \in 0 .. 2^HalfBits - 1 : O!WriteMatchL(v)
     \/ ~ost.intena /\ \E v \in 0 .. 2^HighBits - 1 : O!WriteMatchH(v)
     \/ ost.freq # 0 /\ ~ost.waiting /\ \E ena \in BOOLEAN : O!WriteCtrl(TRUE, ena)
     \/ \E f \in FreqIn : ost.age = 0 /\ ~ost.intena /\ O!SelectClock(f)
     \/ O!mcxn_ostimer_reset
     \/ O!mcxn_ostimer_post_load
  /\ UNCHANGED <<dut, ct, mrt, lpt>>

\* The LPTMR driver: time-counter mode, and one write of CSR for each compare.
LptDriver ==
  /\ dut = "lptmr"
  /\ \/ ~lpt.ten /\ \E p \in DOMAIN SourceHz, d \in DivIn : L!WritePsr(p, d)
     \/ ~lpt.ten /\ \E v \in CmrIn : L!WriteCmr(v)
     \/ ~lpt.ten /\ \E ten, tie \in BOOLEAN : L!WriteCsr(TRUE, ten, FALSE, tie)
     \/ lpt.ten /\ lpt.tcf /\ L!WriteCsr(TRUE, TRUE, FALSE, lpt.tie)
     \/ lpt.ten /\ L!WriteCsr(FALSE, FALSE, FALSE, FALSE)
     \/ L!mcxn_lptmr_reset
     \/ L!mcxn_lptmr_post_load
  /\ UNCHANGED <<dut, ct, mrt, ost>>

-----------------------------------------------------------------------------
InTime(due) == due # None => due > -MaxLate

\* A nanosecond passes, unless a callback is as late as it may be.
Time ==
  \/ dut = "ctimer" /\ InTime(ct.due) /\ C!Pass /\ UNCHANGED <<dut, mrt, ost, lpt>>
  \/ dut = "mrt" /\ InTime(mrt.due) /\ M!Pass /\ UNCHANGED <<dut, ct, ost, lpt>>
  \/ /\ dut = "ostimer" /\ InTime(ost.due) /\ (ost.waiting \/ ost.age < MaxAge)
     /\ O!Pass /\ UNCHANGED <<dut, ct, mrt, lpt>>
  \/ /\ dut = "lptmr" /\ InTime(lpt.due) /\ (L!Armed \/ lpt.age < MaxAge)
     /\ L!Pass /\ UNCHANGED <<dut, ct, mrt, ost>>

Tick ==
  \/ dut = "ctimer" /\ C!ctimer_tick /\ UNCHANGED <<dut, mrt, ost, lpt>>
  \/ dut = "mrt" /\ M!mrt_tick /\ UNCHANGED <<dut, ct, ost, lpt>>
  \/ dut = "ostimer" /\ O!ostimer_tick /\ UNCHANGED <<dut, ct, mrt, lpt>>
  \/ dut = "lptmr" /\ L!lptmr_tick /\ UNCHANGED <<dut, ct, mrt, ost>>

Next == CtDriver \/ MrtDriver \/ OstDriver \/ LptDriver \/ Time \/ Tick

Spec == Init /\ [][Next]_vars

\* Firmware that also lets the counter run on past a match, as an output compare does.
CtCompare ==
  dut = "ctimer" /\ CtReady /\ C!WriteTcr(TRUE, FALSE) /\ UNCHANGED <<dut, mrt, ost, lpt>>

CompareSpec == Init /\ dut = "ctimer" /\ [][Next \/ CtCompare]_vars

-----------------------------------------------------------------------------
\* A deadline is computed in whole nanoseconds, rounded down.
Rounding == 1

\* A count in nanoseconds at the slowest clock, rounded up: what rescheduling drops of it.
CountNs == NsPerSec

CtAlarm == INSTANCE Alarm WITH
  left <- C!ToMatch, flag <- ct.pulse # {}, Early <- Rounding, Late <- MaxLate
MrtAlarm(n) == INSTANCE Alarm WITH
  left <- M!ToZero(n), flag <- "INTFLAG" \in mrt.stat[n],
  Early <- 0, Late <- MaxLate + CountNs
OstAlarm == INSTANCE Alarm WITH
  left <- O!ToMatch, flag <- ost.intrflag, Early <- Rounding, Late <- MaxLate + CountNs - 1
LptAlarm == INSTANCE Alarm WITH
  left <- L!ToCompare, flag <- lpt.trigger,
  Early <- Rounding, Late <- MaxLate + CountNs + MaxLate

\* The CTIMER fires a match within a nanosecond before and MaxLate after the instant at
\* which TC reaches it, once each time TC reaches it, and its pulse (the interrupt flag,
\* the eDMA request, the trigger) is never lost: ctimer_reschedule's deadline and
\* ctimer_tick's choice of the match agree with what ctimer_peek shows the guest.
CtimerKeepsTime == CtAlarm!Spec

\* One match, one pulse: ctimer_tick fires a match only when TC has moved onto it, not
\* while TC is still where the last callback put it.
OneMatchOnePulse == [][\A n \in ct'.pulse : ct.tc # ct.mr[n]]_vars

\* Each MRT channel raises INTFLAG exactly once for each interval it counts down, never
\* early, although all of them share one host timer that every write re-arms.
MrtKeepsTime ==
  /\ \A n \in Channel : MrtAlarm(n)!Init
  /\ [][\A n \in Channel : [MrtAlarm(n)!Next]_(MrtAlarm(n)!vars)]_vars

\* The OSTIMER raises INTRFLAG once for a match that was ahead when it was enabled,
\* whatever order its Gray-coded halves were written in.
OstimerKeepsTime == OstAlarm!Spec

\* The LPTMR triggers once each time its counter passes CMR, although the write of CSR
\* that acknowledges one compare re-arms the next.
LptmrKeepsTime == LptAlarm!Spec
=============================================================================

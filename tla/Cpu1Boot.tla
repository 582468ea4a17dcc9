------------------------------ MODULE Cpu1Boot ------------------------------
(***************************************************************************)
(* How cpu0 releases and stops the second core: SYSCON CPUCTRL and CPBOOT of *)
(* hw/misc/mcxn_syscon.c.  A release is deferred to a one-shot bottom half.   *)
(* Pending bottom halves run one at a time, with guest writes between them;   *)
(* QEMU runs those that are pending together, so the model has more           *)
(* behaviours than the code.                                                 *)
(*                                                                         *)
(* cpu1 is the state of the core: on, its power state; exec, its thread is    *)
(* inside the execution loop of accel/tcg; vtor, the vector table it was      *)
(* reset with.  A stop marks the core as halted and kicks no thread, and the  *)
(* loop looks at the mark only when it is entered: the core goes on until     *)
(* something else makes it leave.  A reset of a core that still executes is   *)
(* a data race: the core restarts, or the registers its thread writes back    *)
(* undo the reset.                                                           *)
(***************************************************************************)
EXTENDS Naturals

CONSTANTS
  Vtor,      \* vector-table addresses
  NoVtor,    \* CPBOOT after a reset, and a core that never ran
  MaxBhs     \* bound: pending bottom halves

VARIABLES
  cpuctrl, cpboot, cpu1_running, bhs, cpu1,
  hasty,     \* history: SYSCON was written or reset while a start was pending
  lost       \* history: a migration dropped a pending start

boot == <<cpuctrl, cpboot, cpu1_running, bhs, cpu1, hasty, lost>>

Off == [on |-> FALSE, exec |-> FALSE, vtor |-> NoVtor]

Init ==
  /\ cpuctrl = [clken |-> TRUE, rsten |-> TRUE]
  /\ cpboot = NoVtor
  /\ cpu1_running = FALSE
  /\ bhs = 0
  /\ cpu1 = Off
  /\ hasty = FALSE /\ lost = FALSE

WantRun(ctrl) == ctrl.clken /\ ~ctrl.rsten

-----------------------------------------------------------------------------
\* Mutant: the core is powered on and left halted.
BhLeavesHalted(restarts) ==
  /\ bhs > 0
  /\ restarts
  /\ bhs' = bhs - 1
  /\ cpu1' = [on |-> TRUE, exec |-> FALSE, vtor |-> cpboot]
  /\ cpu1_running' = TRUE
  /\ UNCHANGED <<cpuctrl, cpboot, hasty, lost>>

\* The bottom half: it boots the core without looking at CPUCTRL again.
mcxn_syscon_start_cpu1_bh(restarts) ==
  /\ bhs > 0
  /\ restarts \/ cpu1.exec
  /\ bhs' = bhs - 1
  /\ cpu1' = [on |-> TRUE, exec |-> TRUE, vtor |-> IF restarts THEN cpboot ELSE cpu1.vtor]
  /\ cpu1_running' = TRUE
  /\ UNCHANGED <<cpuctrl, cpboot, hasty, lost>>

\* A core that was stopped leaves its execution loop.
LeaveLoop ==
  /\ cpu1.exec /\ ~cpu1.on
  /\ cpu1' = [cpu1 EXCEPT !.exec = FALSE]
  /\ UNCHANGED <<cpuctrl, cpboot, cpu1_running, bhs, hasty, lost>>

\* Mutant: a stopped core is only marked as stopped in SYSCON.
UpdateKeepsCore(ctrl) ==
  IF WantRun(ctrl) /\ ~cpu1_running
  THEN bhs' = bhs + 1 /\ UNCHANGED <<cpu1_running, cpu1>>
  ELSE /\ cpu1_running' = (cpu1_running /\ WantRun(ctrl))
       /\ UNCHANGED <<bhs, cpu1>>

\* Mutant: a core that has booted once is never scheduled again.
UpdateOnlyFirst(ctrl) ==
  IF WantRun(ctrl) /\ ~cpu1_running
  THEN bhs' = (IF cpu1 = Off THEN bhs + 1 ELSE bhs) /\ UNCHANGED <<cpu1_running, cpu1>>
  ELSE IF ~WantRun(ctrl) /\ cpu1_running
  THEN cpu1_running' = FALSE /\ cpu1' = [cpu1 EXCEPT !.on = FALSE] /\ UNCHANGED bhs
  ELSE UNCHANGED <<bhs, cpu1_running, cpu1>>

\* Mutant: a running core is scheduled again.
UpdateEveryTime(ctrl) ==
  IF WantRun(ctrl)
  THEN bhs' = bhs + 1 /\ UNCHANGED <<cpu1_running, cpu1>>
  ELSE cpu1_running' = FALSE /\ cpu1' = [cpu1 EXCEPT !.on = FALSE] /\ UNCHANGED bhs

\* CPUCTRL has been stored.  A stop looks at cpu1_running, not at a pending start.
mcxn_syscon_update_cpu1(ctrl) ==
  IF WantRun(ctrl) /\ ~cpu1_running
  THEN bhs' = bhs + 1 /\ UNCHANGED <<cpu1_running, cpu1>>
  ELSE IF ~WantRun(ctrl) /\ cpu1_running
  THEN cpu1_running' = FALSE /\ cpu1' = [cpu1 EXCEPT !.on = FALSE] /\ UNCHANGED bhs
  ELSE UNCHANGED <<bhs, cpu1_running, cpu1>>

Hasten == hasty' = (hasty \/ bhs > 0)

WriteCpuctrl(v) ==
  /\ bhs < MaxBhs
  /\ cpuctrl' = v
  /\ mcxn_syscon_update_cpu1(v)
  /\ Hasten
  /\ UNCHANGED <<cpboot, lost>>

WriteCpboot(a) ==
  /\ cpboot' = a
  /\ Hasten
  /\ UNCHANGED <<cpuctrl, cpu1_running, bhs, cpu1, lost>>

\* System reset, with the cores paused: the core is powered off by its own reset
\* ("start-powered-off"); a pending bottom half stays pending.
mcxn_syscon_reset ==
  /\ cpuctrl' = [clken |-> TRUE, rsten |-> TRUE]
  /\ cpboot' = NoVtor
  /\ cpu1_running' = FALSE
  /\ cpu1' = Off
  /\ Hasten
  /\ UNCHANGED <<bhs, lost>>

\* SYSCON and the stopped cores are saved and loaded; a bottom half is not.
Migrate ==
  /\ bhs' = 0
  /\ cpu1' = [cpu1 EXCEPT !.exec = cpu1.on]
  /\ lost' = (lost \/ bhs > 0)
  /\ UNCHANGED <<cpuctrl, cpboot, cpu1_running, hasty>>

-----------------------------------------------------------------------------
\* When the boot core waits for CPSTAT to show each release before it goes on, the
\* second core is on only while CPUCTRL clocks it and does not hold it in reset, and
\* CPSTAT, which reports cpu1_running, is always true of the core's power state.
RunsOnlyWhenReleased ==
  /\ cpu1.on /\ ~hasty => WantRun(cpuctrl)
  /\ cpu1_running = cpu1.on

\* When the boot core waits for its releases, no core is booted twice: at most one
\* start is pending, and only for a core that is off.
NoSecondBoot == bhs > 0 /\ ~hasty => bhs = 1 /\ ~cpu1.on

\* A core that stays released comes up, unless a migration dropped its start.
ReleaseBoots == []<>(WantRun(cpuctrl) /\ ~lost => cpu1.on)
=============================================================================

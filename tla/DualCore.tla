------------------------------ MODULE DualCore ------------------------------
(***************************************************************************)
(* The two cores together: cpu0 releases and stops the second core through   *)
(* SYSCON (Cpu1Boot) while both use the mailbox, its mutex and a gate         *)
(* (InterCore).  The second core's firmware acts only while it executes.  A   *)
(* boot restarts it from its vector table; the devices, and its own NVIC,     *)
(* keep what the stop left in them: cpu_reset does not reset the NVIC, so a   *)
(* mailbox vector that was active when the core was stopped in its handler    *)
(* stays active, and no interrupt of that priority is taken again.           *)
(***************************************************************************)
EXTENDS InterCore

CONSTANTS
  Cpu1,      \* the second core
  Vtor, NoVtor, MaxBhs,
  CtrlIn,    \* the values cpu0 writes to CPUCTRL
  Program    \* firmware: the messages it posts, and whether it stops the second core

ASSUME Cpu1Assumption ==
  /\ Cpu1 \in Core
  /\ NoVtor \notin Vtor
  /\ MaxBhs \in Nat \ {0}
  /\ CtrlIn \subseteq [clken : BOOLEAN, rsten : BOOLEAN]
  /\ Program \subseteq [msgs : SUBSET Msg, stops : BOOLEAN]

VARIABLES
  cpuctrl, cpboot, cpu1_running, bhs, cpu1, hasty, lost,   \* Cpu1Boot
  wedged,    \* the second core's NVIC has the mailbox vector active for ever
  program    \* what this machine runs

B == INSTANCE Cpu1Boot

boot == <<cpuctrl, cpboot, cpu1_running, bhs, cpu1, hasty, lost>>
machine == <<vars, boot, wedged>>

DualInit == Init /\ B!Init /\ wedged = FALSE /\ program \in Program

-----------------------------------------------------------------------------
\* What the firmware of core c does next.
Step(c) ==
  \/ \E d \in Core, m \in program.msgs : Post(c, d, m)
  \/ HandlerClear(c)
  \/ TakeMutex(c) \/ ReleaseMutex(c)
  \/ TryGate(c) \/ ReadGate(c) \/ ReleaseGate(c)

Executes(c) == c = Cpu1 => cpu1.exec

Interrupt(c) ==
  /\ Executes(c) /\ (c = Cpu1 => ~wedged)
  /\ HandlerRead(c)
  /\ UNCHANGED <<boot, wedged>>

Firmware(c) == Executes(c) /\ Step(c) /\ UNCHANGED <<boot, wedged>>

\* cpu0's stores to SYSCON; the second core leaving its loop.
Control ==
  /\ \/ \E v \in CtrlIn : (program.stops \/ B!WantRun(v)) /\ B!WriteCpuctrl(v)
     \/ \E a \in Vtor : B!WriteCpboot(a)
     \/ B!LeaveLoop
  /\ UNCHANGED <<vars, wedged>>

\* A boot, with what the reset of the core loses; it touches none of the shared devices.
Boot ==
  \/ /\ B!mcxn_syscon_start_cpu1_bh(TRUE)
     /\ pc' = [pc EXCEPT ![Cpu1] = "main"]
     /\ isr' = [isr EXCEPT ![Cpu1] = "idle"]
     /\ seen' = [seen EXCEPT ![Cpu1] = {}]
     /\ wedged' = (wedged \/ isr[Cpu1] = "read")
     /\ UNCHANGED <<device, posted>>
  \/ B!mcxn_syscon_start_cpu1_bh(FALSE) /\ UNCHANGED <<vars, wedged>>

DualReset == SystemReset /\ B!mcxn_syscon_reset /\ wedged' = FALSE

DualMigrate ==
  mcxn_mailbox_post_load /\ UNCHANGED firmware /\ B!Migrate /\ UNCHANGED wedged

DualNext ==
  \/ \E c \in Core : Firmware(c) \/ Interrupt(c)
  \/ Control \/ Boot \/ DualReset \/ DualMigrate

\* The main loop runs pending bottom halves; a core that executes takes an interrupt
\* that stays pending, and its handler returns.
DualFairness ==
  /\ WF_machine(Boot)
  /\ \A c \in Core :
       /\ WF_machine(Interrupt(c))
       /\ WF_machine(Executes(c) /\ HandlerClear(c) /\ UNCHANGED <<boot, wedged>>)

DualSpec == DualInit /\ [][DualNext /\ UNCHANGED program]_<<machine, program>>
FairDualSpec == DualSpec /\ DualFairness

-----------------------------------------------------------------------------
\* With a boot core that waits for CPSTAT after each release, the second core is on only
\* while CPUCTRL releases it, and CPSTAT is true of it (mcxn_syscon.c's start and stop).
RunsOnlyWhenReleased == B!RunsOnlyWhenReleased

\* With such a boot core at most one start is pending, and only for a core that is off
\* (mcxn_syscon_start_cpu1_bh).
NoSecondBoot == B!NoSecondBoot

\* A core that stays released comes up, unless a migration dropped its start.
ReleaseBoots == B!ReleaseBoots

Stopped(c) == c = Cpu1 /\ (~B!WantRun(cpuctrl) \/ wedged \/ lost)

\* Every message is acted on, also one posted to the second core while it was off or
\* booting, if that core stays released: "Each CPU's IRQ word, when non-zero, drives
\* that CPU's mailbox NVIC line" (mcxn_mailbox.c:40), which outlives the core's reset.
\* Not so for a core that was once stopped inside its handler.
HandedOver ==
  \A c \in Core, m \in Msg : m \in posted[c] ~> (m \notin posted[c] \/ Stopped(c))
=============================================================================

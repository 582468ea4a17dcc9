--------------------------- MODULE DualCoreProofs ---------------------------
(***************************************************************************)
(* Proofs about InterCore and DualCore, for any cores, messages, vector      *)
(* tables, CPUCTRL values and programs.  First, of cores that always run:    *)
(* mutual exclusion through the mutex and through the gate, and that no      *)
(* message is lost, from the inductive invariant Inv.  Then: this survives a *)
(* second core that is stopped and booted at any point, and a boot core that *)
(* waits for its releases boots it once per release.                         *)
(***************************************************************************)
EXTENDS DualCore, TLAPS

Inv == TypeOK /\ LineFollowsWord /\ LockInv /\ NothingLost

\* Any store to a core's word leaves the types and the lines right, the locks alone.
LEMMA WriteIrqFacts ==
  ASSUME TypeOK, NEW c \in Core, NEW bits \in SUBSET Msg, WriteIrq(c, bits)
  PROVE  /\ word' \in [Core -> SUBSET Msg]
         /\ word'[c] = bits
         /\ \A d \in Core : d # c => word'[d] = word[d]
         /\ out' \in [Core -> BOOLEAN]
         /\ LineFollowsWord'
         /\ mutex' = mutex /\ gate' = gate
BY DEF TypeOK, WriteIrq, mcxn_mailbox_update_irq, LineFollowsWord

\* The reset state satisfies the invariant.
LEMMA InitInv == Init => Inv
<1> SUFFICES ASSUME Init PROVE Inv
  OBVIOUS
<1>1. TypeOK
  BY DEF Init, TypeOK, Pc
<1>2. LineFollowsWord
  BY ZenonT(40) DEF Init, LineFollowsWord
<1>3. LockInv
  BY DEF Init, LockInv
<1>4. NothingLost
  BY ZenonT(40) DEF Init, NothingLost
<1> QED
  BY <1>1, <1>2, <1>3, <1>4 DEF Inv

\* Every step of either core, a system reset and a migration keep the invariant.
LEMMA NextInv == Inv /\ [Next]_vars => Inv'
<1> SUFFICES ASSUME Inv, [Next]_vars PROVE Inv'
  OBVIOUS
<1> USE DEF Inv
<1>1. ASSUME NEW c \in Core, NEW d \in Core, NEW m \in Msg, Post(c, d, m)
      PROVE  Inv'
  <2>1. WriteIrq(d, word[d] \cup {m}) /\ word[d] \cup {m} \in SUBSET Msg
    BY <1>1 DEF Post, WriteIrqSet, TypeOK
  <2>2. /\ word' \in [Core -> SUBSET Msg]
        /\ word'[d] = word[d] \cup {m}
        /\ \A e \in Core : e # d => word'[e] = word[e]
        /\ out' \in [Core -> BOOLEAN]
        /\ LineFollowsWord'
        /\ mutex' = mutex /\ gate' = gate
    BY <2>1, WriteIrqFacts
  <2>3. TypeOK'
    BY ZenonT(40), <1>1, <2>2 DEF Post, TypeOK
  <2>4. LockInv'
    BY <1>1, <2>2 DEF Post, LockInv
  <2>5. NothingLost'
    BY ZenonT(40), <1>1, <2>2 DEF Post, NothingLost, TypeOK
  <2> QED BY <2>2, <2>3, <2>4, <2>5
<1>2. ASSUME NEW c \in Core, HandlerRead(c)
      PROVE  Inv'
  <2>1. TypeOK'
    BY <1>2 DEF HandlerRead, TypeOK, device
  <2>2. LineFollowsWord' /\ LockInv'
    BY <1>2 DEF HandlerRead, LineFollowsWord, LockInv, device
  <2>3. NothingLost'
    BY <1>2 DEF HandlerRead, NothingLost, TypeOK, device
  <2> QED BY <2>1, <2>2, <2>3
<1>3. ASSUME NEW c \in Core, HandlerClear(c)
      PROVE  Inv'
  <2>1. WriteIrq(c, word[c] \ seen[c]) /\ word[c] \ seen[c] \in SUBSET Msg
    BY <1>3 DEF HandlerClear, WriteIrqClr, TypeOK
  <2>2. /\ word' \in [Core -> SUBSET Msg]
        /\ word'[c] = word[c] \ seen[c]
        /\ \A e \in Core : e # c => word'[e] = word[e]
        /\ out' \in [Core -> BOOLEAN]
        /\ LineFollowsWord'
        /\ mutex' = mutex /\ gate' = gate
    BY <2>1, WriteIrqFacts
  <2>3. TypeOK'
    BY ZenonT(40), <1>3, <2>2 DEF HandlerClear, TypeOK
  <2>4. LockInv'
    BY <1>3, <2>2 DEF HandlerClear, LockInv
  <2>5. NothingLost'
    BY ZenonT(40), <1>3, <2>2 DEF HandlerClear, NothingLost, TypeOK
  <2> QED BY <2>2, <2>3, <2>4, <2>5
<1>4. ASSUME NEW c \in Core, TakeMutex(c) \/ ReleaseMutex(c)
      PROVE  Inv'
  <2>1. TypeOK'
    BY ZenonT(40), <1>4 DEF TakeMutex, ReleaseMutex, ReadMutex, WriteMutex, TypeOK, Pc
  <2>2. LineFollowsWord' /\ NothingLost'
    BY <1>4 DEF TakeMutex, ReleaseMutex, ReadMutex, WriteMutex,
                LineFollowsWord, NothingLost
  <2>3. LockInv'
    BY <1>4 DEF TakeMutex, ReleaseMutex, ReadMutex, WriteMutex, LockInv, TypeOK
  <2> QED BY <2>1, <2>2, <2>3
<1>5. ASSUME NEW c \in Core, TryGate(c) \/ ReadGate(c) \/ ReleaseGate(c)
      PROVE  Inv'
  <2>1. TypeOK'
    BY <1>5 DEF TryGate, ReadGate, ReleaseGate, WriteGate, TypeOK, Pc, device
  <2>2. LineFollowsWord' /\ NothingLost'
    BY <1>5 DEF TryGate, ReadGate, ReleaseGate, WriteGate,
                LineFollowsWord, NothingLost, device
  <2>3. LockInv'
    BY <1>5, ConstAssumption
       DEF TryGate, ReadGate, ReleaseGate, WriteGate, LockInv, TypeOK, device
  <2> QED BY <2>1, <2>2, <2>3
<1>6. CASE SystemReset
  BY ZenonT(40), <1>6 DEF SystemReset, mcxn_mailbox_reset, mcxn_sema42_reset,
              TypeOK, Pc, LineFollowsWord, LockInv, NothingLost
<1>7. CASE mcxn_mailbox_post_load /\ UNCHANGED firmware
  BY <1>7 DEF mcxn_mailbox_post_load, mcxn_mailbox_update_irq, firmware,
              TypeOK, LineFollowsWord, LockInv, NothingLost
<1>8. CASE UNCHANGED vars
  BY <1>8 DEF vars, device, firmware, TypeOK, LineFollowsWord, LockInv, NothingLost
<1> QED BY <1>1, <1>2, <1>3, <1>4, <1>5, <1>6, <1>7, <1>8 DEF Next

\* A core in the mutex is alone there, and the gate has one owner.
LEMMA LockExcludes == LockInv => MutualExclusion
BY DEF LockInv, MutualExclusion

\* The invariant holds in every reachable state.
LEMMA Invariant == Spec => []Inv
BY InitInv, NextInv, PTL DEF Spec

\* Types of the state, for any cores and messages.
THEOREM TypeCorrect == Spec => []TypeOK
<1>1. Inv => TypeOK
  BY DEF Inv
<1> QED BY <1>1, Invariant, PTL

\* Reading 1 from MUTEX, or one's own domain from the gate, excludes every other
\* core, for any number of cores (mcxn_mailbox_read, mcxn_sema42_write).
THEOREM Exclusion == Spec => []MutualExclusion
<1>1. Inv => MutualExclusion
  BY LockExcludes DEF Inv
<1> QED BY <1>1, Invariant, PTL

\* No message is cleared before the handler has seen it, for any number of cores and
\* message bits (mcxn_mailbox_write's IRQSET and IRQCLR).
THEOREM NoMessageLost == Spec => []NothingLost
<1>1. Inv => NothingLost
  BY DEF Inv
<1> QED BY <1>1, Invariant, PTL

\* Any accesses by any core leave each line equal to its word being non-empty.
THEOREM LineCorrect == DeviceSpec => [](TypeOK /\ LineFollowsWord)
<1>1. Init => TypeOK /\ LineFollowsWord
  BY InitInv DEF Inv
<1>2. TypeOK /\ LineFollowsWord /\ [DeviceNext]_vars => (TypeOK /\ LineFollowsWord)'
  <2> SUFFICES ASSUME TypeOK, LineFollowsWord, [DeviceNext]_vars
               PROVE  (TypeOK /\ LineFollowsWord)'
    OBVIOUS
  <2>1. ASSUME NEW c \in Core, NEW bits \in SUBSET Msg, UNCHANGED firmware,
               WriteIrq(c, bits) \/ WriteIrqSet(c, bits) \/ WriteIrqClr(c, bits)
        PROVE  (TypeOK /\ LineFollowsWord)'
    <3>1. PICK b \in SUBSET Msg : WriteIrq(c, b)
      BY <2>1 DEF WriteIrqSet, WriteIrqClr, TypeOK
    <3>2. /\ word' \in [Core -> SUBSET Msg]
          /\ out' \in [Core -> BOOLEAN]
          /\ LineFollowsWord'
          /\ mutex' = mutex /\ gate' = gate
      BY <3>1, WriteIrqFacts
    <3> QED BY <2>1, <3>2 DEF TypeOK, firmware
  <2>2. CASE UNCHANGED firmware /\ (ReadMutex \/ WriteMutex \/ mcxn_mailbox_post_load)
    BY ZenonT(40), <2>2 DEF ReadMutex, WriteMutex, mcxn_mailbox_post_load, firmware,
                mcxn_mailbox_update_irq, TypeOK, LineFollowsWord
  <2>3. CASE UNCHANGED firmware /\ \E d \in Core \cup {NoOwner} : WriteGate(d)
    BY <2>3 DEF WriteGate, firmware, TypeOK, LineFollowsWord
  <2>4. CASE UNCHANGED firmware /\ mcxn_mailbox_reset /\ mcxn_sema42_reset
    BY ZenonT(40), <2>4 DEF mcxn_mailbox_reset, mcxn_sema42_reset, firmware, TypeOK,
                            LineFollowsWord
  <2>5. CASE UNCHANGED vars
    BY <2>5 DEF vars, device, firmware, TypeOK, LineFollowsWord
  <2> QED BY <2>1, <2>2, <2>3, <2>4, <2>5 DEF DeviceNext
<1> QED BY <1>1, <1>2, PTL DEF DeviceSpec

-----------------------------------------------------------------------------
\* A pending start was asked for by a CPUCTRL that still releases the core, unless the
\* boot core was hasty.
BootInv ==
  /\ bhs \in Nat /\ hasty \in BOOLEAN /\ cpu1_running \in BOOLEAN
  /\ cpboot \in Vtor \cup {NoVtor}
  /\ cpu1 \in [on : BOOLEAN, exec : BOOLEAN, vtor : Vtor \cup {NoVtor}]
  /\ RunsOnlyWhenReleased
  /\ NoSecondBoot
  /\ bhs > 0 /\ ~hasty => B!WantRun(cpuctrl)

DualInv == Inv /\ BootInv /\ program \in Program

-----------------------------------------------------------------------------
\* The reset state satisfies the invariant.
LEMMA DualInitInv == DualInit => DualInv
<1> SUFFICES ASSUME DualInit PROVE DualInv
  OBVIOUS
<1>1. BootInv
  <2>1. B!Off \in [on : BOOLEAN, exec : BOOLEAN, vtor : Vtor \cup {NoVtor}] 
    BY DEF B!Off
  <2>2. B!Off.on = FALSE
    BY DEF B!Off
  <2>3. bhs \in Nat /\ ~(bhs > 0)
    BY DEF DualInit, B!Init
  <2>4. /\ hasty = FALSE /\ cpu1_running = FALSE
        /\ cpboot \in Vtor \cup {NoVtor} /\ cpu1 = B!Off
    BY DEF DualInit, B!Init
  <2> QED BY ZenonT(40), <2>1, <2>2, <2>3, <2>4 DEF BootInv, RunsOnlyWhenReleased, NoSecondBoot,
         B!RunsOnlyWhenReleased, B!NoSecondBoot
<1> QED BY <1>1, InitInv DEF DualInit, DualInv

\* A boot restarts the second core's firmware and leaves the devices alone.
LEMMA BootKeeps ==
  ASSUME Inv, Boot
  PROVE  Inv'
<1>1. CASE UNCHANGED vars
  BY <1>1, NextInv
<1>2. CASE /\ pc' = [pc EXCEPT ![Cpu1] = "main"]
           /\ isr' = [isr EXCEPT ![Cpu1] = "idle"]
           /\ seen' = [seen EXCEPT ![Cpu1] = {}]
           /\ UNCHANGED <<device, posted>>
  <2>1. TypeOK'
    BY <1>2, Cpu1Assumption DEF Inv, TypeOK, Pc, device
  <2>2. LineFollowsWord'
    BY <1>2 DEF Inv, LineFollowsWord, device
  <2>3. LockInv'
    BY <1>2, Cpu1Assumption DEF Inv, LockInv, TypeOK, device
  <2>4. NothingLost'
    BY <1>2, Cpu1Assumption DEF Inv, NothingLost, TypeOK, device
  <2> QED BY <2>1, <2>2, <2>3, <2>4 DEF Inv
<1> QED BY ZenonT(40), <1>1, <1>2 DEF Boot

\* Every other step is a step of the protocol of InterCore, or none of it.
LEMMA DualKeeps ==
  ASSUME Inv, program \in Program, [DualNext /\ UNCHANGED program]_<<machine, program>>
  PROVE  Inv'
<1>1. ASSUME NEW c \in Core, Firmware(c)
      PROVE  Inv'
  <2>1. program.msgs \subseteq Msg
    BY Zenon, Cpu1Assumption
  <2>2. Next
    BY <1>1, <2>1 DEF Firmware, Step, Next
  <2> QED BY <2>2, NextInv
<1>2. ASSUME NEW c \in Core, Interrupt(c)
      PROVE  Inv'
  <2>1. Next
    BY <1>2 DEF Interrupt, Next
  <2> QED BY <2>1, NextInv
<1>3. CASE Control
  BY <1>3, NextInv DEF Control
<1>4. CASE Boot
  BY <1>4, BootKeeps
<1>5. CASE DualReset
  <2>1. Next
    BY <1>5 DEF DualReset, Next
  <2> QED BY <2>1, NextInv
<1>6. CASE DualMigrate
  <2>1. Next
    BY <1>6 DEF DualMigrate, Next
  <2> QED BY <2>1, NextInv
<1>7. CASE UNCHANGED <<machine, program>>
  BY Zenon, <1>7, NextInv DEF machine
<1> QED BY <1>1, <1>2, <1>3, <1>4, <1>5, <1>6, <1>7 DEF DualNext

\* What each step does to SYSCON and the core's power state.
LEMMA BootInvKept ==
  ASSUME BootInv, [DualNext /\ UNCHANGED program]_<<machine, program>>
  PROVE  BootInv'
<1> USE DEF BootInv, RunsOnlyWhenReleased, NoSecondBoot, B!RunsOnlyWhenReleased,
            B!NoSecondBoot
<1>1. CASE UNCHANGED boot
  BY Zenon, <1>1 DEF boot, B!WantRun
<1>2. ASSUME NEW v \in CtrlIn, B!WriteCpuctrl(v)
      PROVE  BootInv'
  <2>1. CASE B!WantRun(v) /\ ~cpu1_running
    <3>1. /\ cpuctrl' = v /\ B!WantRun(cpuctrl)' /\ bhs' = bhs + 1
          /\ hasty' = (hasty \/ bhs > 0)
          /\ UNCHANGED <<cpu1_running, cpu1, cpboot>>
      BY <1>2, <2>1 DEF B!WriteCpuctrl, B!mcxn_syscon_update_cpu1, B!Hasten, B!WantRun
    <3>2. bhs' \in Nat /\ (~hasty' => bhs = 0 /\ bhs' = 1)
      <4>1. bhs' \in Nat /\ (~(bhs > 0) => bhs = 0 /\ bhs' = 1)
        BY <3>1
      <4>2. ~hasty' => ~(bhs > 0)
        BY ZenonT(40), <3>1
      <4> QED BY <4>1, <4>2
    <3>3. cpu1.on = FALSE /\ cpu1'.on = FALSE /\ cpu1_running' = cpu1'.on
      BY <2>1, <3>1
    <3>4. hasty' \in BOOLEAN
      BY <3>1
    <3> QED BY <3>1, <3>2, <3>3, <3>4
  <2>2. CASE ~B!WantRun(v) /\ cpu1_running
    BY ZenonT(40), <1>2, <2>2 DEF B!WriteCpuctrl, B!mcxn_syscon_update_cpu1, B!Hasten, B!WantRun
  <2>3. CASE ~(B!WantRun(v) /\ ~cpu1_running) /\ ~(~B!WantRun(v) /\ cpu1_running)
    BY ZenonT(40), <1>2, <2>3 DEF B!WriteCpuctrl, B!mcxn_syscon_update_cpu1, B!Hasten, B!WantRun
  <2> QED BY <2>1, <2>2, <2>3
<1>3. ASSUME NEW a \in Vtor, B!WriteCpboot(a)
      PROVE  BootInv'
  BY <1>3 DEF B!WriteCpboot, B!Hasten, B!WantRun
<1>4. CASE B!LeaveLoop
  BY ZenonT(40), <1>4 DEF B!LeaveLoop, B!WantRun
<1>5. ASSUME NEW restarts \in BOOLEAN, B!mcxn_syscon_start_cpu1_bh(restarts)
      PROVE  BootInv'
  BY <1>5 DEF B!mcxn_syscon_start_cpu1_bh, B!WantRun
<1>6. CASE B!mcxn_syscon_reset
  BY ZenonT(40), <1>6 DEF B!mcxn_syscon_reset, B!Hasten, B!Off, B!WantRun
<1>7. CASE B!Migrate
  BY <1>7 DEF B!Migrate, B!WantRun
<1> QED BY ZenonT(40), <1>1, <1>2, <1>3, <1>4, <1>5, <1>6, <1>7
    DEF DualNext, Firmware, Interrupt, Control, Boot, DualReset, DualMigrate, machine

\* The invariant holds in every reachable state.
LEMMA DualInvariant == DualSpec => []DualInv
<1>1. DualInv /\ [DualNext /\ UNCHANGED program]_<<machine, program>> => DualInv'
  BY DualKeeps, BootInvKept DEF DualInv
<1> QED BY DualInitInv, <1>1, PTL DEF DualSpec

\* Stopping and booting the second core at any point, inside the mutex or the gate
\* included, lets no two cores in (mcxn_mailbox_read, mcxn_sema42_write,
\* mcxn_syscon_start_cpu1_bh).
THEOREM DualExclusion == DualSpec => []MutualExclusion
<1>1. DualInv => MutualExclusion
  BY LockExcludes DEF DualInv, Inv
<1> QED BY <1>1, DualInvariant, PTL

\* Stopping and booting the second core at any point, in its handler included, clears no
\* message that was not acted on, and leaves every line equal to its word being
\* non-empty (mcxn_mailbox_write, mcxn_syscon_start_cpu1_bh).
THEOREM DualDelivery == DualSpec => [](NothingLost /\ LineFollowsWord)
<1>1. DualInv => NothingLost /\ LineFollowsWord
  BY DEF DualInv, Inv
<1> QED BY <1>1, DualInvariant, PTL

\* For a boot core that waits for its releases the second core is on only while it is
\* released, and CPSTAT is true of it (mcxn_syscon_update_cpu1).
THEOREM OnlyWhenReleased == DualSpec => []RunsOnlyWhenReleased
<1>1. DualInv => RunsOnlyWhenReleased
  BY DEF DualInv, BootInv
<1> QED BY <1>1, DualInvariant, PTL

\* For such a boot core at most one start is pending, for a core that is off
\* (mcxn_syscon_start_cpu1_bh).
THEOREM BootsOnce == DualSpec => []NoSecondBoot
<1>1. DualInv => NoSecondBoot
  BY DEF DualInv, BootInv
<1> QED BY <1>1, DualInvariant, PTL
=============================================================================

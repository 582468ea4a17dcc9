------------------------------ MODULE InterCore ------------------------------
(***************************************************************************)
(* What the two cores coordinate with: the mailbox of hw/misc/mcxn_mailbox.c *)
(* (an interrupt word per core and one test-and-set mutex) and the gates of  *)
(* hw/misc/mcxn_sema42.c.  One gate is modelled; the gates are independent.  *)
(*                                                                         *)
(* Two guests are given.  DeviceNext: any core makes any access.  Next: a     *)
(* firmware that follows the protocols the two devices document.  Its handler *)
(* reads its word and clears what it read, as the handlers of                 *)
(* tests/mcxn-mailbox do; unlike them it acts on every bit it read, where     *)
(* they act only on a word equal to one message.  No test of the repository   *)
(* uses the mutex or a gate: those steps are the protocol of the comments at  *)
(* mcxn_mailbox.c:64 and mcxn_sema42.c:9, and suppose that only the holder    *)
(* releases, which neither device enforces.                                   *)
(***************************************************************************)
EXTENDS Naturals

CONSTANTS Core, Msg, NoOwner

ASSUME ConstAssumption == NoOwner \notin Core

VARIABLES
  word,    \* MBOXIRQ[c].IRQ: the message bits pending for core c
  out,     \* the mailbox line of each core's NVIC
  mutex,   \* MUTEX[EX]
  gate,    \* the gate's owner
  pc,      \* firmware: what each core is doing with mutex and gate
  isr,     \* firmware: "idle", or the handler has read its word
  seen,    \* firmware: what the handler read
  posted   \* messages sent to each core and not yet acted on

device == <<word, out, mutex, gate>>
firmware == <<pc, isr, seen, posted>>
vars == <<device, firmware>>

Pc == {"main", "inMutex", "tryGate", "inGate"}

\* Types of all the state.
TypeOK ==
  /\ word \in [Core -> SUBSET Msg]
  /\ out \in [Core -> BOOLEAN]
  /\ mutex \in BOOLEAN
  /\ gate \in Core \cup {NoOwner}
  /\ pc \in [Core -> Pc]
  /\ isr \in [Core -> {"idle", "read"}]
  /\ seen \in [Core -> SUBSET Msg]
  /\ posted \in [Core -> SUBSET Msg]

Init ==
  /\ word = [c \in Core |-> {}]
  /\ out = [c \in Core |-> FALSE]
  /\ mutex = TRUE
  /\ gate = NoOwner
  /\ pc = [c \in Core |-> "main"]
  /\ isr = [c \in Core |-> "idle"]
  /\ seen = [c \in Core |-> {}]
  /\ posted = [c \in Core |-> {}]

-----------------------------------------------------------------------------

mcxn_mailbox_update_irq == out' = [c \in Core |-> word'[c] # {}]

\* The IRQ, IRQSET and IRQCLR registers of core c.
WriteIrq(c, bits) ==
  /\ word' = [word EXCEPT ![c] = bits]
  /\ mcxn_mailbox_update_irq
  /\ UNCHANGED <<mutex, gate>>

WriteIrqSet(c, bits) == WriteIrq(c, word[c] \cup bits)

\* Mutant: a clear empties the word.
ClearEverything(c, bits) == WriteIrq(c, {})

WriteIrqClr(c, bits) == WriteIrq(c, word[c] \ bits)

\* Mutant: the read leaves EX as it was.
ReadMutexNoClear == UNCHANGED device

\* A read returns mutex and clears it; any write makes it available.
ReadMutex == mutex' = FALSE /\ UNCHANGED <<word, out, gate>>
WriteMutex == mutex' = TRUE /\ UNCHANGED <<word, out, gate>>

\* d is a core's domain, or NoOwner for the value 0.
WriteGate(d) ==
  /\ gate' = IF d = NoOwner \/ gate \in {NoOwner, d} THEN d ELSE gate
  /\ UNCHANGED <<word, out, mutex>>

\* Reset of both blocks, together with the cores and their NVICs.
mcxn_mailbox_reset ==
  /\ word' = [c \in Core |-> {}]
  /\ out' = [c \in Core |-> FALSE]
  /\ mutex' = TRUE
mcxn_sema42_reset == gate' = NoOwner

\* Migration restores every register and drives the lines from them.
mcxn_mailbox_post_load ==
  /\ UNCHANGED <<word, mutex, gate>>
  /\ mcxn_mailbox_update_irq

DeviceNext ==
  /\ UNCHANGED firmware
  /\ \/ \E c \in Core, bits \in SUBSET Msg :
          WriteIrq(c, bits) \/ WriteIrqSet(c, bits) \/ WriteIrqClr(c, bits)
     \/ ReadMutex
     \/ WriteMutex
     \/ \E d \in Core \cup {NoOwner} : WriteGate(d)
     \/ mcxn_mailbox_reset /\ mcxn_sema42_reset
     \/ mcxn_mailbox_post_load

-----------------------------------------------------------------------------
\* Core c posts message m to core d: never one that is still on its way.
Post(c, d, m) ==
  /\ c # d
  /\ m \notin posted[d]
  /\ posted' = [posted EXCEPT ![d] = @ \cup {m}]
  /\ WriteIrqSet(d, {m})
  /\ UNCHANGED <<pc, isr, seen>>

\* The mailbox interrupt is taken and the handler reads its word.
HandlerRead(c) ==
  /\ out[c] /\ isr[c] = "idle"
  /\ isr' = [isr EXCEPT ![c] = "read"]
  /\ seen' = [seen EXCEPT ![c] = word[c]]
  /\ UNCHANGED <<device, pc, posted>>

\* It clears what it read, acts on it and returns.
HandlerClear(c) ==
  /\ isr[c] = "read"
  /\ isr' = [isr EXCEPT ![c] = "idle"]
  /\ WriteIrqClr(c, seen[c])
  /\ posted' = [posted EXCEPT ![c] = @ \ seen[c]]
  /\ seen' = [seen EXCEPT ![c] = {}]
  /\ UNCHANGED pc

\* The core that reads 1 has the mutex.
TakeMutex(c) ==
  /\ pc[c] = "main"
  /\ pc' = [pc EXCEPT ![c] = IF mutex THEN "inMutex" ELSE "main"]
  /\ ReadMutex
  /\ UNCHANGED <<isr, seen, posted>>

ReleaseMutex(c) ==
  /\ pc[c] = "inMutex"
  /\ pc' = [pc EXCEPT ![c] = "main"]
  /\ WriteMutex
  /\ UNCHANGED <<isr, seen, posted>>

\* The gate is written, then read back: it is ours if it shows our domain.
TryGate(c) ==
  /\ pc[c] = "main"
  /\ pc' = [pc EXCEPT ![c] = "tryGate"]
  /\ WriteGate(c)
  /\ UNCHANGED <<isr, seen, posted>>

ReadGate(c) ==
  /\ pc[c] = "tryGate"
  /\ pc' = [pc EXCEPT ![c] = IF gate = c THEN "inGate" ELSE "main"]
  /\ UNCHANGED <<device, isr, seen, posted>>

ReleaseGate(c) ==
  /\ pc[c] = "inGate"
  /\ pc' = [pc EXCEPT ![c] = "main"]
  /\ WriteGate(NoOwner)
  /\ UNCHANGED <<isr, seen, posted>>

\* A system reset restarts the firmware too.
SystemReset ==
  /\ mcxn_mailbox_reset
  /\ mcxn_sema42_reset
  /\ pc' = [c \in Core |-> "main"]
  /\ isr' = [c \in Core |-> "idle"]
  /\ seen' = [c \in Core |-> {}]
  /\ posted' = [c \in Core |-> {}]

Next ==
  \/ \E c, d \in Core, m \in Msg : Post(c, d, m)
  \/ \E c \in Core :
       \/ HandlerRead(c) \/ HandlerClear(c)
       \/ TakeMutex(c) \/ ReleaseMutex(c)
       \/ TryGate(c) \/ ReadGate(c) \/ ReleaseGate(c)
  \/ SystemReset
  \/ mcxn_mailbox_post_load /\ UNCHANGED firmware

Spec == Init /\ [][Next]_vars
DeviceSpec == Init /\ [][DeviceNext]_vars

-----------------------------------------------------------------------------
\* A core's line is up exactly while its word is not empty, whatever the guest
\* writes: "Each CPU's IRQ word, when non-zero, drives that CPU's mailbox NVIC
\* line" (mcxn_mailbox.c:40).
LineFollowsWord == \A c \in Core : out[c] = (word[c] # {})

\* At most one core is between reading 1 from MUTEX and writing it, and at most one
\* between reading its domain from the gate and writing 0: "the reader that sees 1
\* has acquired the lock" (mcxn_mailbox.c:66), "the lock attempt fails; the gate
\* keeps its current owner" (mcxn_sema42.c:13).
MutualExclusion ==
  \A c, d \in Core : pc[c] = pc[d] /\ pc[c] \in {"inMutex", "inGate"} => c = d

\* What mutual exclusion rests on: a core in the mutex has left it cleared, and no
\* other is in it; a core in the gate is the gate's owner.
LockInv ==
  /\ \A c \in Core : pc[c] = "inMutex" => ~mutex
  /\ \A c, d \in Core : pc[c] = "inMutex" /\ pc[d] = "inMutex" => c = d
  /\ \A c \in Core : pc[c] = "inGate" => gate = c

\* A message is on its way until it is acted on: posted while the receiver's handler
\* is between its read and its clear, it is not cleared with the others.
NothingLost ==
  \A c \in Core : posted[c] = word[c] /\ seen[c] \subseteq word[c]
=============================================================================

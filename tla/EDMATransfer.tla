---------------------------- MODULE EDMATransfer ----------------------------
(***************************************************************************)
(* The data side of edma_minor_loop in hw/dma/mcxn_edma.c: the validation of *)
(* a TCD, the loop that reads in SSIZE beats and writes in DSIZE beats, and  *)
(* the address arithmetic with its circular buffers, over the minor loops of *)
(* one major loop.  Addresses wrap at Space (2^32 in the code).  A byte is   *)
(* named by the address it was read from, so a write beat records where its  *)
(* bytes came from; source and destination do not overlap.                   *)
(***************************************************************************)
EXTENDS Integers, Sequences

CONSTANTS
  Space,    \* size of the address space
  MaxXfer,  \* MCXN_EDMA_MAX_XFER, the size of buf
  Loops,    \* CITER at the start
  TcdIn     \* the TCDs the guest programs

VARIABLES
  tcd,           \* the TCD; saddr and daddr are stored back after a minor loop
  citer,
  pc,            \* "start", "read", "write", "done" or "refused"
  b, k,          \* the loop counters
  saddr, daddr,  \* the working addresses
  buf,           \* the bytes of the current chunk
  beats          \* the bus writes of the minor loop: address and bytes

vars == <<tcd, citer, pc, b, k, saddr, daddr, buf, beats>>

Tcd == [saddr : 0 .. Space - 1, daddr : 0 .. Space - 1, soff : Int, doff : Int,
        ssize : Nat \ {0}, dsize : Nat \ {0}, smod : Nat, dmod : Nat, nbytes : Nat]

\* The size of the block an address stays in.
Ring(mod) == IF mod = 0 THEN Space ELSE 2^mod

Nested(m, n) == m % n = 0 \/ n % m = 0

\* "Both sizes are powers of two" (mcxn_edma.c:358), and so are the rings and the
\* address space, none larger than it: of any two the smaller divides the larger.
PowersOfTwo(t) ==
  /\ Ring(t.smod) \in Nat \ {0} /\ Ring(t.dmod) \in Nat \ {0}
  /\ \A n \in {t.ssize, t.dsize, Ring(t.smod), Ring(t.dmod)} : Space % n = 0
  /\ Nested(t.ssize, t.dsize)
  /\ Nested(t.ssize, Ring(t.smod)) /\ Nested(t.dsize, Ring(t.dmod))

ASSUME TransferAssumption ==
  /\ Space \in Nat \ {0} /\ MaxXfer \in Nat \ {0} /\ Loops \in Nat \ {0}
  /\ TcdIn \subseteq Tcd
  /\ \A t \in TcdIn : PowersOfTwo(t)

\* Types of all the state; in particular a chunk fits in buf.
TypeOK ==
  /\ tcd \in Tcd
  /\ citer \in 0 .. Loops
  /\ pc \in {"start", "read", "write", "done", "refused"}
  /\ b \in 0 .. tcd.nbytes
  /\ k \in 0 .. MaxXfer
  /\ saddr \in 0 .. Space - 1
  /\ daddr \in 0 .. Space - 1
  /\ Len(buf) <= MaxXfer

Init ==
  /\ tcd \in TcdIn
  /\ citer = Loops
  /\ pc = "start"
  /\ b = 0 /\ k = 0
  /\ saddr = tcd.saddr /\ daddr = tcd.daddr
  /\ buf = << >> /\ beats = << >>

-----------------------------------------------------------------------------

\* With a modulo the address wraps inside its own 2^mod-aligned block.
edma_advance(addr, off, mod) ==
  IF mod = 0 THEN (addr + off) % Space
  ELSE (addr - (addr % 2^mod)) + ((addr + off) % 2^mod)

\* Mutant: a burst wider than buf is let through.
InvalidNoBurst(t) ==
  \/ t.nbytes = 0
  \/ t.saddr % t.ssize # 0 \/ t.soff % t.ssize # 0
  \/ t.daddr % t.dsize # 0 \/ t.doff % t.dsize # 0
  \/ t.nbytes % t.ssize # 0 \/ t.nbytes % t.dsize # 0

\* Mutant: the offsets are not validated.
InvalidNoOffset(t) ==
  \/ t.nbytes = 0
  \/ t.saddr % t.ssize # 0 \/ t.daddr % t.dsize # 0
  \/ t.nbytes % t.ssize # 0 \/ t.nbytes % t.dsize # 0
  \/ t.ssize > MaxXfer \/ t.dsize > MaxXfer

\* Some bit of CH_ES is set before anything moves: NCE, SAE, SOE, DAE, DOE.
Invalid(t) ==
  \/ t.nbytes = 0
  \/ t.saddr % t.ssize # 0 \/ t.soff % t.ssize # 0
  \/ t.daddr % t.dsize # 0 \/ t.doff % t.dsize # 0
  \/ t.nbytes % t.ssize # 0 \/ t.nbytes % t.dsize # 0
  \/ t.ssize > MaxXfer \/ t.dsize > MaxXfer

chunk == IF tcd.ssize > tcd.dsize THEN tcd.ssize ELSE tcd.dsize

Start ==
  /\ pc = "start"
  /\ citer > 0
  /\ pc' = IF Invalid(tcd) THEN "refused" ELSE "read"
  /\ saddr' = tcd.saddr /\ daddr' = tcd.daddr
  /\ b' = 0 /\ k' = 0
  /\ buf' = << >> /\ beats' = << >>
  /\ UNCHANGED <<tcd, citer>>

ReadBeat ==
  /\ pc = "read"
  /\ buf' = buf \o [i \in 1 .. tcd.ssize |-> (saddr + i - 1) % Space]
  /\ saddr' = edma_advance(saddr, tcd.soff, tcd.smod)
  /\ IF k + tcd.ssize < chunk THEN k' = k + tcd.ssize /\ UNCHANGED pc
     ELSE k' = 0 /\ pc' = "write"
  /\ UNCHANGED <<tcd, citer, b, daddr, beats>>

\* After the last beat of a chunk: the next chunk, or the end of the minor loop.
NextChunk ==
  /\ k' = 0
  /\ b' = b + chunk
  /\ buf' = << >>
  /\ pc' = IF b + chunk < tcd.nbytes THEN "read" ELSE "done"

\* Mutant: the write uses the source width.
WriteBeatSourceWide ==
  /\ pc = "write"
  /\ beats' = Append(beats, [addr |-> daddr, bytes |-> SubSeq(buf, k + 1, k + tcd.ssize)])
  /\ daddr' = edma_advance(daddr, tcd.doff, tcd.dmod)
  /\ IF k + tcd.ssize < chunk
     THEN k' = k + tcd.ssize /\ UNCHANGED <<b, buf, pc>>
     ELSE NextChunk
  /\ UNCHANGED <<tcd, citer, saddr>>

WriteBeat ==
  /\ pc = "write"
  /\ beats' = Append(beats, [addr |-> daddr, bytes |-> SubSeq(buf, k + 1, k + tcd.dsize)])
  /\ daddr' = edma_advance(daddr, tcd.doff, tcd.dmod)
  /\ IF k + tcd.dsize < chunk
     THEN k' = k + tcd.dsize /\ UNCHANGED <<b, buf, pc>>
     ELSE NextChunk
  /\ UNCHANGED <<tcd, citer, saddr>>

\* The addresses go back to the TCD and CITER counts down.
EndMinor ==
  /\ pc = "done"
  /\ tcd' = [tcd EXCEPT !.saddr = saddr, !.daddr = daddr]
  /\ citer' = citer - 1
  /\ pc' = "start"
  /\ UNCHANGED <<b, k, saddr, daddr, buf, beats>>

Next == Start \/ ReadBeat \/ WriteBeat \/ EndMinor

Spec == Init /\ [][Next]_vars

-----------------------------------------------------------------------------
\* Address i of a walk, in closed form.
Walk(addr, off, mod, i) ==
  IF mod = 0 THEN (addr + i * off) % Space
  ELSE (addr \div 2^mod) * 2^mod + ((addr + i * off) % 2^mod)

\* Byte j (from 0) of the stream the source side reads.
SourceByte(j) ==
  (Walk(tcd.saddr, tcd.soff, tcd.smod, j \div tcd.ssize) + (j % tcd.ssize)) % Space

\* A minor loop moves NBYTES: "READS happen in SSIZE chunks ... WRITES in DSIZE chunks
\* ... two independent strides" (mcxn_edma.c:356): NBYTES/DSIZE writes of DSIZE bytes
\* each, at the destination's own stride, carrying the source's bytes in order,
\* whatever the two widths.
MovesTheStream ==
  pc = "done" =>
    beats = [i \in 1 .. tcd.nbytes \div tcd.dsize |->
               [addr |-> Walk(tcd.daddr, tcd.doff, tcd.dmod, i - 1),
                bytes |-> [j \in 1 .. tcd.dsize |->
                             SourceByte((i - 1) * tcd.dsize + j - 1)]]]

\* A TCD that passed validation passes it again at each of its minor loops: what the
\* walk stores back is aligned.  EDMA relies on it: CountDown keeps the verdict.
NeverRefusedMidway == pc = "refused" => citer = Loops
=============================================================================

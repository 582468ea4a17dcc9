------------------------- MODULE EDMATransferProofs -------------------------
(***************************************************************************)
(* Proofs about EDMATransfer for any address space, buffer size, major loop  *)
(* and set of TCDs whose widths, rings and address space are powers of two:  *)
(* every minor loop moves the source's bytes in order at the destination's   *)
(* stride, and a TCD that passed validation once is never refused later.     *)
(***************************************************************************)
EXTENDS EDMATransfer, SequenceTheorems, TLAPS

Pos == Nat \ {0}

-----------------------------------------------------------------------------
\* Division with remainder.
LEMMA DivMod ==
  ASSUME NEW x \in Int, NEW n \in Pos
  PROVE  /\ x \div n \in Int /\ x % n \in 0 .. n - 1
         /\ x = n * (x \div n) + (x % n)
BY DEF Pos

\* Quotient and remainder are unique.
LEMMA Unique ==
  ASSUME NEW n \in Pos, NEW q \in Int, NEW r \in 0 .. n - 1
  PROVE  (n * q + r) % n = r /\ (n * q + r) \div n = q
<1> DEFINE x == n * q + r
           d == x \div n
           m == x % n
<1>1. x \in Int /\ d \in Int /\ m \in 0 .. n - 1 /\ x = n * d + m
  BY SMTT(30), Z3T(30), DivMod DEF Pos
<1> HIDE DEF d, m
<1>2. n * (q - d) = m - r
  BY <1>1 DEF Pos
<1>3. CASE q - d >= 1
  <2>1. n * (q - d) >= n
    BY <1>1, <1>3 DEF Pos
  <2> QED BY <1>1, <1>2, <2>1 DEF Pos
<1>4. CASE q - d <= -1
  <2>1. n * (q - d) <= -n
    BY <1>1, <1>4 DEF Pos
  <2> QED BY <1>1, <1>2, <2>1 DEF Pos
<1>5. CASE q - d = 0
  <2>1. q = d /\ m = r
    BY <1>1, <1>2, <1>5 DEF Pos
  <2> QED BY <2>1 DEF d, m
<1> QED BY <1>1, <1>3, <1>4, <1>5

\* A multiple has no remainder.
LEMMA MultMod ==
  ASSUME NEW n \in Pos, NEW z \in Int
  PROVE  (n * z) % n = 0 /\ (n * z) \div n = z
<1>1. 0 \in 0 .. n - 1 /\ n * z = n * z + 0
  BY DEF Pos
<1> QED BY <1>1, Unique

\* A number without remainder is a multiple.
LEMMA Multiple ==
  ASSUME NEW n \in Pos, NEW x \in Int, x % n = 0
  PROVE  x \div n \in Int /\ x = n * (x \div n)
BY DivMod DEF Pos

\* A remainder may be taken before an addition.
LEMMA ModAdd ==
  ASSUME NEW x \in Int, NEW y \in Int, NEW n \in Pos
  PROVE  ((x % n) + y) % n = (x + y) % n
<1> DEFINE q == x \div n
           r == x % n
           u == (r + y) \div n
           v == (r + y) % n
<1>1. q \in Int /\ r \in 0 .. n - 1 /\ x = n * q + r
  BY DivMod
<1> HIDE DEF q, r
<1>2. r + y \in Int
  BY <1>1
<1>3. u \in Int /\ v \in 0 .. n - 1 /\ r + y = n * u + v
  BY <1>2, DivMod
<1> HIDE DEF u, v
<1>4. x + y = n * (q + u) + v /\ q + u \in Int
  BY <1>1, <1>3 DEF Pos
<1>5. (n * (q + u) + v) % n = v
  BY <1>3, <1>4, Unique
<1>6. (x + y) % n = v
  BY <1>4, <1>5
<1> QED BY <1>6 DEF v, r

\* Adding a multiple does not change a remainder.
LEMMA ModShift ==
  ASSUME NEW n \in Pos, NEW q \in Int, NEW y \in Int
  PROVE  (n * q + y) % n = y % n
<1>1. n * q \in Int /\ (n * q) % n = 0
  BY MultMod DEF Pos
<1>2. (((n * q) % n) + y) % n = (n * q + y) % n
  BY <1>1, ModAdd
<1> QED BY <1>1, <1>2

\* What two numbers are a multiple of, their sum is.
LEMMA SumMultiple ==
  ASSUME NEW n \in Pos, NEW x \in Int, NEW y \in Int, x % n = 0, y % n = 0
  PROVE  (x + y) % n = 0
<1> DEFINE q == x \div n
<1>1. q \in Int /\ x = n * q
  BY Multiple
<1> HIDE DEF q
<1> QED BY <1>1, ModShift

\* What divides a modulus and a number divides the number's remainder.
LEMMA RemainderMultiple ==
  ASSUME NEW n \in Pos, NEW m \in Pos, NEW x \in Int, m % n = 0, x % n = 0
  PROVE  (x % m) % n = 0
<1> DEFINE c == m \div n
           e == x \div n
           u == x \div m
<1>1. c \in Int /\ e \in Int /\ m = n * c /\ x = n * e
  BY Multiple DEF Pos
<1>2. u \in Int /\ x = m * u + (x % m) /\ x % m \in Int
  BY DivMod DEF Pos
<1> HIDE DEF c, e, u
<1>3. x % m = n * (e - c * u) /\ e - c * u \in Int
  <2>1. m * u = n * (c * u)
    BY <1>1, <1>2 DEF Pos
  <2> QED BY <1>1, <1>2, <2>1 DEF Pos
<1> QED BY <1>3, MultMod

\* What divides a divisor divides the multiples of that divisor.
LEMMA DivisorOfDivisor ==
  ASSUME NEW n \in Pos, NEW m \in Pos, NEW x \in Int, m % n = 0, x % m = 0
  PROVE  x % n = 0
<1> DEFINE c == m \div n
           e == x \div m
<1>1. c \in Int /\ e \in Int /\ m = n * c /\ x = m * e
  BY Multiple DEF Pos
<1> HIDE DEF c, e
<1>2. x = n * (c * e) /\ c * e \in Int
  BY <1>1 DEF Pos
<1> QED BY <1>2, MultMod

\* A multiple below another is at least one step below it.
LEMMA NextMultiple ==
  ASSUME NEW n \in Pos, NEW x \in Int, NEW y \in Int, x % n = 0, y % n = 0, x < y
  PROVE  x + n <= y
<1> DEFINE q == x \div n
           u == y \div n
<1>1. q \in Int /\ u \in Int /\ x = n * q /\ y = n * u
  BY Multiple
<1> HIDE DEF q, u
<1>2. n * (u - q) = y - x
  BY <1>1 DEF Pos
<1>3. u - q >= 1
  <2> SUFFICES ASSUME u - q <= 0 PROVE FALSE
    BY <1>1
  <2>1. n * (u - q) <= 0
    BY <1>1 DEF Pos
  <2> QED BY <1>1, <1>2, <2>1
<1>4. n * (u - q) >= n
  BY <1>1, <1>3 DEF Pos
<1> QED BY <1>2, <1>4 DEF Pos

-----------------------------------------------------------------------------
Address == 0 .. Space - 1

\* An address in its block: the block's base and the offset in it.
LEMMA Block ==
  ASSUME NEW a \in Address, NEW R \in Pos, Space % R = 0, NEW m \in 0 .. R - 1
  PROVE  /\ (a \div R) \in Int
         /\ R * (a \div R) + m \in Address
         /\ (R * (a \div R) + m) % R = m
<1> DEFINE q == a \div R
           r == a % R
           p == Space \div R
<1>1. Space \in Int /\ a \in Int
  BY TransferAssumption DEF Address
<1>2. q \in Int /\ r \in 0 .. R - 1 /\ a = R * q + r
  BY <1>1, DivMod
<1>3. p \in Int /\ Space = R * p
  BY <1>1, Multiple
<1> HIDE DEF q, r, p
<1>4. (R * q + m) % R = m
  BY <1>2, Unique
<1>5. q >= 0
  <2> SUFFICES ASSUME q <= -1 PROVE FALSE
    BY <1>2
  <2>1. R * q <= -R
    BY <1>2 DEF Pos
  <2> QED BY <1>2, <2>1 DEF Address, Pos
<1>6. q + 1 <= p
  <2> SUFFICES ASSUME p <= q PROVE FALSE
    BY <1>2, <1>3
  <2>1. R * p <= R * q
    BY <1>2, <1>3 DEF Pos
  <2> QED BY <1>1, <1>2, <1>3, <2>1 DEF Address, Pos
<1>7. R * (q + 1) <= R * p /\ R * (q + 1) = R * q + R
  BY <1>2, <1>3, <1>6 DEF Pos
<1>8. R * q >= 0
  BY <1>2, <1>5 DEF Pos
<1>9. R * q + m \in Address
  BY <1>1, <1>2, <1>3, <1>7, <1>8 DEF Address, Pos
<1> QED BY <1>2, <1>4, <1>9 DEF q

\* A plain walk is a walk in the ring of the whole address space.
LEMMA RingForm ==
  ASSUME NEW a \in Address, NEW off \in Int, NEW mod \in Nat, NEW i \in Nat,
         Ring(mod) \in Pos
  PROVE  /\ edma_advance(a, off, mod) = (a - (a % Ring(mod))) + ((a + off) % Ring(mod))
         /\ Walk(a, off, mod, i)
              = Ring(mod) * (a \div Ring(mod)) + ((a + i * off) % Ring(mod))
<1>1. CASE mod = 0
  <2>1. Ring(mod) = Space
    BY <1>1 DEF Ring
  <2>2. Space \in Pos /\ a \in 0 .. Space - 1 /\ 0 \in Int /\ a = Space * 0 + a
    BY TransferAssumption DEF Address, Pos
  <2>3. (Space * 0 + a) % Space = a /\ (Space * 0 + a) \div Space = 0
    BY <2>2, Unique
  <2>4. a % Space = a /\ a \div Space = 0
    BY <2>2, <2>3
  <2>5. edma_advance(a, off, mod) = (a + off) % Space
    BY <1>1 DEF edma_advance
  <2>6. Walk(a, off, mod, i) = (a + i * off) % Space
    BY <1>1 DEF Walk
  <2>7. (a + off) % Space \in Int /\ (a + i * off) % Space \in Int
    BY <2>2 DEF Pos
  <2> QED BY <2>1, <2>2, <2>4, <2>5, <2>6, <2>7 DEF Pos
<1>2. CASE mod # 0
  <2>1. Ring(mod) = 2^mod
    BY <1>2 DEF Ring
  <2>2. edma_advance(a, off, mod) = (a - (a % 2^mod)) + ((a + off) % 2^mod)
    BY <1>2 DEF edma_advance
  <2>3. Walk(a, off, mod, i) = (a \div 2^mod) * 2^mod + ((a + i * off) % 2^mod)
    BY <1>2 DEF Walk
  <2> DEFINE R == Ring(mod)
  <2>4. edma_advance(a, off, mod) = (a - (a % R)) + ((a + off) % R)
    BY <2>1, <2>2, Zenon
  <2>5. Walk(a, off, mod, i) = (a \div R) * R + ((a + i * off) % R)
    BY <2>1, <2>3, Zenon
  <2>6. R \in Pos
    OBVIOUS
  <2> HIDE DEF R
  <2>7. (a \div R) * R = R * (a \div R)
    BY <2>6 DEF Pos, Address
  <2>8. Walk(a, off, mod, i) = R * (a \div R) + ((a + i * off) % R)
    BY <2>5, <2>7
  <2> QED BY <2>4, <2>8 DEF R
<1> QED BY <1>1, <1>2

\* Address 0 of a walk is its start, and edma_advance leads from each to the next.
LEMMA WalkStep ==
  ASSUME NEW a \in Address, NEW off \in Int, NEW mod \in Nat, NEW i \in Nat,
         Ring(mod) \in Pos, Space % Ring(mod) = 0
  PROVE  /\ Walk(a, off, mod, 0) = a
         /\ Walk(a, off, mod, i) \in Address
         /\ edma_advance(Walk(a, off, mod, i), off, mod) = Walk(a, off, mod, i + 1)
<1> DEFINE R == Ring(mod)
           q == a \div R
           m == (a + i * off) % R
           w == R * q + m
<1>1. a \in Int /\ a + i * off \in Int /\ R \in Pos
  BY TransferAssumption DEF Address
<1>2. q \in Int /\ a = R * q + (a % R) /\ m \in 0 .. R - 1
  BY <1>1, DivMod
<1>3. w \in Address /\ w % R = m
  BY <1>1, <1>2, Block
<1>4. Walk(a, off, mod, i) = w
  BY RingForm
<1>5. Walk(a, off, mod, 0) = a
  <2>1. Walk(a, off, mod, 0) = R * q + ((a + 0 * off) % R)
    BY RingForm
  <2>2. a + 0 * off = a
    BY <1>1
  <2> QED BY <1>2, <2>1, <2>2
<1>6. edma_advance(w, off, mod) = (w - (w % R)) + ((w + off) % R)
  BY <1>3, RingForm
<1>7. Walk(a, off, mod, i + 1) = R * q + ((a + (i + 1) * off) % R)
  <2> DEFINE j == i + 1
  <2>1. j \in Nat
    OBVIOUS
  <2> HIDE DEF j
  <2>2. Walk(a, off, mod, j) = R * q + ((a + j * off) % R)
    BY <2>1, RingForm
  <2> QED BY <2>2 DEF j
<1>8. (w + off) % R = (a + (i + 1) * off) % R
  <2>1. ((a + i * off) + off) = (a + (i + 1) * off)
    BY <1>1
  <2>2. (m + off) % R = ((a + i * off) + off) % R
    BY <1>1, ModAdd
  <2> HIDE DEF m, q, R
  <2>3. w + off = R * q + (m + off) /\ m + off \in Int
    BY <1>1, <1>2 DEF Pos
  <2>4. (R * q + (m + off)) % R = (m + off) % R
    BY <1>1, <1>2, <2>3, ModShift
  <2> QED BY <2>1, <2>2, <2>3, <2>4
<1>9. w - m = R * q
  <2> HIDE DEF m, q, R
  <2> QED BY <1>1, <1>2 DEF Pos
<1> QED BY <1>3, <1>4, <1>5, <1>6, <1>7, <1>8, <1>9

\* WalkStep, quantified.
LEMMA WalkNext ==
  \A a \in Address, off \in Int, mod \in Nat, i \in Nat :
    Ring(mod) \in Pos /\ Space % Ring(mod) = 0 =>
      edma_advance(Walk(a, off, mod, i), off, mod) = Walk(a, off, mod, i + 1)
<1> TAKE a \in Address, off \in Int, mod \in Nat, i \in Nat
<1> HAVE Ring(mod) \in Pos /\ Space % Ring(mod) = 0
<1>1. Ring(mod) \in Pos
  OBVIOUS
<1>2. Space % Ring(mod) = 0
  OBVIOUS
<1> QED BY ZenonT(60), <1>1, <1>2, WalkStep

\* edma_advance keeps an address in the address space and aligned to its width, if the
\* offset is aligned and the width and the ring are powers of two.
LEMMA AdvanceAligned ==
  ASSUME NEW a \in Address, NEW off \in Int, NEW mod \in Nat, NEW size \in Pos,
         Ring(mod) \in Pos, Space % Ring(mod) = 0, Nested(size, Ring(mod)),
         a % size = 0, off % size = 0
  PROVE  edma_advance(a, off, mod) \in Address /\ edma_advance(a, off, mod) % size = 0
<1> DEFINE R == Ring(mod)
           q == a \div R
           m == (a + off) % R
<1>1. a \in Int /\ a + off \in Int /\ R \in Pos
  BY TransferAssumption DEF Address
<1>2. q \in Int /\ a % R \in 0 .. R - 1 /\ a = R * q + (a % R) /\ m \in 0 .. R - 1
  BY <1>1, DivMod
<1>3. edma_advance(a, off, mod) = (a - (a % R)) + m
  BY RingForm
<1>4. a - (a % R) = R * q
  <2> HIDE DEF q, R
  <2> QED BY <1>1, <1>2 DEF Pos
<1>5. R * q + m \in Address
  BY <1>1, <1>2, Block
<1>6. (a + off) % size = 0
  BY <1>1, SumMultiple
<1>7. CASE R % size = 0
  <2>1. m % size = 0
    BY <1>1, <1>6, <1>7, RemainderMultiple
  <2>2. (R * q) % R = 0 /\ R * q \in Int
    <3> HIDE DEF q, R
    <3>1. (R * q) % R = 0
      BY <1>1, <1>2, MultMod
    <3>2. R * q \in Int
      BY <1>1, <1>2 DEF Pos
    <3> QED BY <3>1, <3>2
  <2>3. (R * q) % size = 0
    BY <1>1, <1>7, <2>2, DivisorOfDivisor
  <2>4. (R * q + m) % size = 0
    BY <1>2, <2>1, <2>2, <2>3, SumMultiple
  <2> QED BY <1>3, <1>4, <1>5, <2>4
<1>8. CASE size % R = 0
  <2>1. a % R = 0 /\ m = 0
    BY <1>1, <1>6, <1>8, DivisorOfDivisor
  <2>2. (a - (a % R)) + m = a
    BY <1>1, <2>1
  <2> QED BY <1>3, <2>2
<1> QED BY <1>7, <1>8 DEF Nested

-----------------------------------------------------------------------------
\* Write beat i of the minor loop, from 1.
Beat(i) ==
  [addr |-> Walk(tcd.daddr, tcd.doff, tcd.dmod, i - 1),
   bytes |-> [j \in 1 .. tcd.dsize |-> SourceByte((i - 1) * tcd.dsize + j - 1)]]

Byte == 0 .. Space - 1
BeatType == [addr : Address, bytes : Seq(Byte)]

\* The TCD keeps its shape, and stays valid once its first minor loop was let through.
TcdInv ==
  /\ tcd \in Tcd /\ PowersOfTwo(tcd)
  /\ citer \in 0 .. Loops
  /\ pc \in {"start", "read", "write", "done", "refused"}
  /\ b \in 0 .. tcd.nbytes /\ k \in 0 .. MaxXfer
  /\ saddr \in Address /\ daddr \in Address
  /\ buf \in Seq(Byte) /\ Len(buf) <= MaxXfer
  /\ beats \in Seq(BeatType)
  /\ pc \in {"read", "write", "done"} => ~Invalid(tcd) /\ citer > 0
  /\ pc = "start" /\ citer < Loops => ~Invalid(tcd)
  /\ pc = "refused" => citer = Loops

\* Inside a minor loop the two counters are on the borders of chunks and of beats.
CounterInv ==
  /\ pc \in {"read", "write", "done"} => b % chunk = 0
  /\ pc \in {"read", "write"} => b < tcd.nbytes /\ k < chunk
  /\ pc = "read" => k % tcd.ssize = 0 /\ Len(buf) = k
  /\ pc = "write" => k % tcd.dsize = 0 /\ Len(buf) = chunk
  /\ pc = "done" => b = tcd.nbytes /\ Len(buf) = 0 /\ k = 0

\* What was read and written so far is what the two walks say: saddr has made as many
\* steps as SSIZE fits in the bytes read, daddr as many as there are write beats.
StreamInv ==
  pc \in {"read", "write", "done"} =>
    /\ saddr = Walk(tcd.saddr, tcd.soff, tcd.smod, (b + Len(buf)) \div tcd.ssize)
    /\ saddr % tcd.ssize = 0 /\ daddr % tcd.dsize = 0
    /\ daddr = Walk(tcd.daddr, tcd.doff, tcd.dmod, Len(beats))
    /\ Len(beats) * tcd.dsize = b + (IF pc = "write" THEN k ELSE 0)
    /\ \A j \in 1 .. Len(buf) : buf[j] = SourceByte(b + j - 1)
    /\ \A i \in 1 .. Len(beats) : beats[i] = Beat(i)

Inv == TcdInv /\ CounterInv /\ StreamInv

-----------------------------------------------------------------------------
\* The fields of a TCD, and what its widths and rings being powers of two gives:
\* a chunk is a whole number of reads and of writes.
LEMMA Shape ==
  ASSUME TcdInv
  PROVE  /\ tcd.saddr \in Address /\ tcd.daddr \in Address
         /\ tcd.soff \in Int /\ tcd.doff \in Int /\ tcd.smod \in Nat /\ tcd.dmod \in Nat
         /\ tcd.ssize \in Pos /\ tcd.dsize \in Pos /\ tcd.nbytes \in Nat
         /\ Ring(tcd.smod) \in Pos /\ Space % Ring(tcd.smod) = 0
         /\ Ring(tcd.dmod) \in Pos /\ Space % Ring(tcd.dmod) = 0
         /\ Nested(tcd.ssize, Ring(tcd.smod)) /\ Nested(tcd.dsize, Ring(tcd.dmod))
         /\ chunk \in Pos /\ chunk % tcd.ssize = 0 /\ chunk % tcd.dsize = 0
         /\ chunk \in {tcd.ssize, tcd.dsize}
<1>1. /\ tcd.saddr \in Address /\ tcd.daddr \in Address
      /\ tcd.soff \in Int /\ tcd.doff \in Int /\ tcd.smod \in Nat /\ tcd.dmod \in Nat
      /\ tcd.ssize \in Pos /\ tcd.dsize \in Pos /\ tcd.nbytes \in Nat
  BY DEF TcdInv, Tcd, Address, Pos
<1>2. /\ Ring(tcd.smod) \in Pos /\ Space % Ring(tcd.smod) = 0
      /\ Ring(tcd.dmod) \in Pos /\ Space % Ring(tcd.dmod) = 0
      /\ Nested(tcd.ssize, Ring(tcd.smod)) /\ Nested(tcd.dsize, Ring(tcd.dmod))
  BY DEF TcdInv, PowersOfTwo, Pos
<1>3. \A n \in Pos : n % n = 0
  <2> SUFFICES ASSUME NEW n \in Pos PROVE n % n = 0
    OBVIOUS
  <2>1. (n * 1) % n = 0 /\ n * 1 = n
    BY MultMod DEF Pos
  <2> QED BY <2>1
<1>4. \A m, n \in Pos : m < n => m % n = m
  <2> SUFFICES ASSUME NEW m \in Pos, NEW n \in Pos, m < n PROVE m % n = m
    OBVIOUS
  <2>1. m \in 0 .. n - 1 /\ n * 0 + m = m
    BY DEF Pos
  <2>2. (n * 0 + m) % n = m
    BY <2>1, Unique
  <2> QED BY <2>1, <2>2
<1>5. tcd.ssize % tcd.dsize = 0 \/ tcd.dsize % tcd.ssize = 0
  BY DEF TcdInv, PowersOfTwo, Nested
<1>6. chunk \in Pos /\ chunk % tcd.ssize = 0 /\ chunk % tcd.dsize = 0
      /\ chunk \in {tcd.ssize, tcd.dsize}
  <2>1. CASE tcd.ssize > tcd.dsize
    <3>1. chunk = tcd.ssize
      BY <2>1 DEF chunk
    <3>2. tcd.dsize % tcd.ssize # 0
      BY <1>1, <1>4, <2>1 DEF Pos
    <3> QED BY <1>1, <1>3, <1>5, <3>1, <3>2
  <2>2. CASE ~(tcd.ssize > tcd.dsize)
    <3>1. chunk = tcd.dsize
      BY <2>2 DEF chunk
    <3>2. CASE tcd.ssize = tcd.dsize
      BY <1>1, <1>3, <3>1, <3>2
    <3>3. CASE tcd.ssize < tcd.dsize
      <4>1. tcd.ssize % tcd.dsize # 0
        BY Zenon, <1>1, <1>4, <3>3 DEF Pos
      <4> QED BY <1>1, <1>3, <1>5, <3>1, <4>1
    <3> QED BY <1>1, <2>2, <3>2, <3>3 DEF Pos
  <2> QED BY <2>1, <2>2
<1> QED BY <1>1, <1>2, <1>6

\* What the validation let through.
LEMMA Validated ==
  ASSUME TcdInv, ~Invalid(tcd)
  PROVE  /\ tcd.nbytes > 0 /\ tcd.nbytes % chunk = 0 /\ chunk <= MaxXfer
         /\ tcd.saddr % tcd.ssize = 0 /\ tcd.soff % tcd.ssize = 0
         /\ tcd.daddr % tcd.dsize = 0 /\ tcd.doff % tcd.dsize = 0
         /\ tcd.nbytes % tcd.ssize = 0 /\ tcd.nbytes % tcd.dsize = 0
         /\ tcd.ssize <= MaxXfer /\ tcd.dsize <= MaxXfer
<1>1. /\ tcd.nbytes > 0
      /\ tcd.saddr % tcd.ssize = 0 /\ tcd.soff % tcd.ssize = 0
      /\ tcd.daddr % tcd.dsize = 0 /\ tcd.doff % tcd.dsize = 0
      /\ tcd.nbytes % tcd.ssize = 0 /\ tcd.nbytes % tcd.dsize = 0
      /\ tcd.ssize <= MaxXfer /\ tcd.dsize <= MaxXfer
  BY Shape, TransferAssumption DEF Invalid, Pos
<1> QED BY Zenon, <1>1, Shape

\* Byte r of read beat q of the source's stream.
LEMMA SourceAt ==
  ASSUME TcdInv, NEW q \in Nat, NEW r \in 0 .. tcd.ssize - 1
  PROVE  SourceByte(tcd.ssize * q + r)
           = (Walk(tcd.saddr, tcd.soff, tcd.smod, q) + r) % Space
<1>1. tcd.ssize \in Pos /\ q \in Int
  BY Shape
<1>2. (tcd.ssize * q + r) % tcd.ssize = r /\ (tcd.ssize * q + r) \div tcd.ssize = q
  BY <1>1, Unique
<1> QED BY <1>2 DEF SourceByte

\* Start lets a TCD through or refuses it, and refuses none that was let through.
LEMMA StartInv ==
  ASSUME Inv, Start
  PROVE  Inv'
<1>1. TcdInv /\ tcd' = tcd /\ citer' = citer /\ chunk' = chunk
  BY DEF Inv, Start, chunk
<1>2. /\ saddr' = tcd.saddr /\ daddr' = tcd.daddr /\ b' = 0 /\ k' = 0
      /\ buf' = << >> /\ beats' = << >> /\ citer > 0 /\ pc = "start"
      /\ pc' = IF Invalid(tcd) THEN "refused" ELSE "read"
  BY DEF Start
<1>3. TcdInv'
  <2>1. << >> \in Seq(Byte) /\ << >> \in Seq(BeatType) /\ Len(<< >>) = 0
    OBVIOUS
  <2>2. tcd.nbytes \in Nat /\ MaxXfer \in Nat /\ saddr' \in Address /\ daddr' \in Address
    BY <1>1, <1>2, Shape, TransferAssumption
  <2>3. 0 \in 0 .. tcd.nbytes /\ 0 \in 0 .. MaxXfer /\ 0 <= MaxXfer
    BY <2>2
  <2>4. pc' = "refused" => citer' = Loops
    BY <1>1, <1>2, TransferAssumption DEF TcdInv
  <2>5. pc' \in {"read", "refused"} /\ (pc' = "read" => ~Invalid(tcd'))
    BY <1>1, <1>2
  <2> QED BY <1>1, <1>2, <2>1, <2>2, <2>3, <2>4, <2>5 DEF TcdInv
<1>4. ASSUME pc' = "read" PROVE CounterInv' /\ StreamInv'
  <2>1. ~Invalid(tcd)
    BY <1>2, <1>4
  <2>2. tcd.nbytes > 0 /\ tcd.ssize \in Pos /\ tcd.dsize \in Pos /\ chunk \in Pos
        /\ tcd.saddr % tcd.ssize = 0 /\ tcd.daddr % tcd.dsize = 0
    BY <1>1, <2>1, Shape, Validated
  <2>3. \A n \in Pos : 0 % n = 0 /\ 0 \div n = 0
    <3> SUFFICES ASSUME NEW n \in Pos PROVE 0 % n = 0 /\ 0 \div n = 0
      OBVIOUS
    <3>1. n * 0 = 0
      BY DEF Pos
    <3>2. (n * 0) % n = 0 /\ (n * 0) \div n = 0
      BY MultMod
    <3> QED BY <3>1, <3>2
  <2>4. CounterInv'
    BY SMTT(30), Z3T(30), <1>1, <1>2, <1>4, <2>2, <2>3 DEF CounterInv, Pos
  <2>5. /\ Walk(tcd.saddr, tcd.soff, tcd.smod, 0) = tcd.saddr
        /\ Walk(tcd.daddr, tcd.doff, tcd.dmod, 0) = tcd.daddr
    BY ZenonT(40), <1>1, Shape, WalkStep
  <2>6. (0 + Len(<< >>)) \div tcd.ssize = 0 /\ 0 * tcd.dsize = 0 + 0
    BY <2>2, <2>3 DEF Pos
  <2>7. StreamInv'
    BY <1>1, <1>2, <1>4, <2>2, <2>5, <2>6 DEF StreamInv
  <2> QED BY <2>4, <2>7
<1>5. ASSUME pc' = "refused" PROVE CounterInv' /\ StreamInv'
  BY <1>5 DEF CounterInv, StreamInv
<1> QED BY <1>2, <1>3, <1>4, <1>5 DEF Inv

\* Where the minor loop is, in whole read beats: used by both beats.
LEMMA Position ==
  ASSUME Inv, pc \in {"read", "write"}
  PROVE  /\ b \in Nat /\ k \in Nat /\ b % tcd.ssize = 0 /\ b % tcd.dsize = 0
         /\ b + chunk <= tcd.nbytes /\ (b + chunk) % chunk = 0
<1>1. /\ chunk \in Pos /\ chunk % tcd.ssize = 0 /\ chunk % tcd.dsize = 0
      /\ tcd.ssize \in Pos /\ tcd.dsize \in Pos /\ tcd.nbytes \in Nat
  BY Shape DEF Inv
<1>2. b \in Nat /\ k \in Nat /\ b % chunk = 0 /\ b < tcd.nbytes
  BY <1>1, TransferAssumption DEF Inv, TcdInv, CounterInv
<1>3. b % tcd.ssize = 0 /\ b % tcd.dsize = 0
  BY <1>1, <1>2, DivisorOfDivisor
<1>4. tcd.nbytes % chunk = 0
  BY Validated DEF Inv, TcdInv
<1>5. b + chunk <= tcd.nbytes
  BY <1>1, <1>2, <1>4, NextMultiple
<1>6. chunk % chunk = 0
  <2>1. (chunk * 1) % chunk = 0 /\ chunk * 1 = chunk
    BY <1>1, MultMod DEF Pos
  <2> QED BY <2>1
<1>7. (b + chunk) % chunk = 0
  BY <1>1, <1>2, <1>6, SumMultiple DEF Pos
<1> QED BY <1>2, <1>3, <1>5, <1>7

\* A read beat appends the next SSIZE bytes of the source's stream to buf.
LEMMA ReadInv ==
  ASSUME Inv, ReadBeat
  PROVE  Inv'
<1> DEFINE S == tcd.ssize
           f == [i \in 1 .. S |-> (saddr + i - 1) % Space]
           q == (b + k) \div S
<1>1. /\ pc = "read" /\ tcd' = tcd /\ citer' = citer /\ b' = b /\ daddr' = daddr
      /\ beats' = beats /\ chunk' = chunk /\ buf' = buf \o f
      /\ saddr' = edma_advance(saddr, tcd.soff, tcd.smod)
      /\ \/ k + S < chunk /\ k' = k + S /\ pc' = "read"
         \/ ~(k + S < chunk) /\ k' = 0 /\ pc' = "write"
  BY DEF ReadBeat, chunk
<1>2. TcdInv /\ ~Invalid(tcd) /\ citer > 0 /\ buf \in Seq(Byte) /\ Len(buf) = k
      /\ k % S = 0 /\ k < chunk /\ b < tcd.nbytes /\ b % chunk = 0
  BY <1>1 DEF Inv, TcdInv, CounterInv
<1>3. S \in Pos /\ chunk \in Pos /\ chunk % S = 0 /\ tcd.nbytes \in Nat
  BY <1>2, Shape
<1>4. b \in Nat /\ k \in Nat /\ b % S = 0
  BY <1>1, Position
<1>5. k + S <= chunk /\ chunk <= MaxXfer
  <2>1. k + S <= chunk
    BY <1>2, <1>3, <1>4, NextMultiple DEF Pos
  <2> QED BY <2>1, <1>2, Validated
<1>6. q \in Nat /\ b + k = S * q
  <2>1. (b + k) % S = 0
    <3>1. b \in Int /\ k \in Int /\ b % S = 0 /\ k % S = 0 /\ S \in Pos
      BY <1>2, <1>3, <1>4
    <3> HIDE DEF S
    <3> QED BY <3>1, SumMultiple
  <2>2. q \in Int /\ b + k = S * q
    BY <1>3, <1>4, <2>1, Multiple
  <2> HIDE DEF q, S
  <2>3. q >= 0
    <3> SUFFICES ASSUME q <= -1 PROVE FALSE
      BY <2>2
    <3>1. S * q <= -S
      BY SMTT(30), Z3T(30), <1>3, <2>2 DEF Pos
    <3> QED BY <1>3, <1>4, <2>2, <3>1 DEF Pos
  <2> QED BY <2>2, <2>3
<1>7. saddr = Walk(tcd.saddr, tcd.soff, tcd.smod, q) /\ saddr \in Address
  BY <1>1, <1>2 DEF Inv, StreamInv, TcdInv
<1>8. saddr' = Walk(tcd.saddr, tcd.soff, tcd.smod, q + 1)
  <2>1. /\ tcd.saddr \in Address /\ tcd.soff \in Int /\ tcd.smod \in Nat
        /\ Ring(tcd.smod) \in Pos /\ Space % Ring(tcd.smod) = 0 /\ q \in Nat
    BY <1>2, <1>6, Shape
  <2> HIDE DEF q
  <2>2. edma_advance(Walk(tcd.saddr, tcd.soff, tcd.smod, q), tcd.soff, tcd.smod)
          = Walk(tcd.saddr, tcd.soff, tcd.smod, q + 1)
    BY ZenonT(40), <2>1, WalkNext
  <2> QED BY Zenon, <1>1, <1>7, <2>2
<1>9. saddr' \in Address /\ saddr' % S = 0
  <2>1. saddr % S = 0 /\ tcd.soff % S = 0
    BY <1>1, <1>2, Validated DEF Inv, StreamInv
  <2> QED BY ZenonT(40), <1>1, <1>2, <1>7, <2>1, Shape, AdvanceAligned
<1>10. f \in Seq(Byte) /\ Len(f) = S /\ \A i \in 1 .. S : f[i] = (saddr + i - 1) % Space
  <2>1. \A i \in 1 .. S : (saddr + i - 1) % Space \in Byte
    BY <1>3, <1>7, TransferAssumption DEF Address, Byte, Pos
  <2>2. S \in Nat
    BY <1>3 DEF Pos
  <2> HIDE DEF S
  <2>3. f \in [1 .. S -> Byte]
    BY <2>1
  <2> QED BY <2>2, <2>3, LenProperties, SeqDef
<1> HIDE DEF f
<1>11. /\ buf' \in Seq(Byte) /\ Len(buf') = k + S
       /\ \A j \in 1 .. k : buf'[j] = buf[j]
       /\ \A i \in 1 .. S : buf'[k + i] = f[i]
  <2> HIDE DEF S
  <2>1. Len(buf \o f) = k + S /\ buf \o f \in Seq(Byte)
    BY ZenonT(40), <1>2, <1>10, ConcatProperties
  <2>2. \A j \in 1 .. k + S : (buf \o f)[j] = IF j <= k THEN buf[j] ELSE f[j - k]
    BY <1>2, <1>10, ConcatProperties
  <2>3. \A i \in 1 .. S : (buf \o f)[k + i] = f[i]
    <3> SUFFICES ASSUME NEW i \in 1 .. S PROVE (buf \o f)[k + i] = f[i]
      OBVIOUS
    <3>1. k + i \in 1 .. k + S /\ ~(k + i <= k) /\ (k + i) - k = i
      BY <1>3, <1>4 DEF Pos
    <3> QED BY ZenonT(40), <2>2, <3>1
  <2>4. \A j \in 1 .. k : (buf \o f)[j] = buf[j]
    <3> SUFFICES ASSUME NEW j \in 1 .. k PROVE (buf \o f)[j] = buf[j]
      OBVIOUS
    <3>1. j \in 1 .. k + S /\ j <= k
      BY <1>3, <1>4 DEF Pos
    <3> QED BY ZenonT(40), <2>2, <3>1
  <2> QED BY ZenonT(40), <1>1, <2>1, <2>3, <2>4
<1>12. \A j \in 1 .. Len(buf') : buf'[j] = SourceByte(b + j - 1)
  <2> SUFFICES ASSUME NEW j \in 1 .. k + S PROVE buf'[j] = SourceByte(b + j - 1)
    BY <1>11
  <2>1. CASE j <= k
    <3>1. buf[j] = SourceByte(b + j - 1)
      BY <1>1, <1>2, <1>4, <2>1 DEF Inv, StreamInv
    <3> QED BY SMTT(30), Z3T(30), <1>4, <1>11, <2>1, <3>1
  <2>2. CASE j > k
    <3> DEFINE i == j - k
               r == i - 1
    <3>1. i \in 1 .. S /\ r \in 0 .. S - 1 /\ j = k + i
      BY <1>3, <1>4, <2>2 DEF Pos
    <3>2. buf'[j] = (saddr + i - 1) % Space
      BY <1>10, <1>11, <3>1
    <3>3. SourceByte(S * q + r) = (saddr + r) % Space
      BY <1>2, <1>6, <1>7, <3>1, SourceAt
    <3>4. b + j - 1 = S * q + r /\ saddr + i - 1 = saddr + r
      <4> HIDE DEF q, S
      <4> QED BY <1>3, <1>4, <1>6, <1>7, <3>1 DEF Address, Pos
    <3> QED BY <3>2, <3>3, <3>4
  <2> QED BY <1>3, <1>4, <2>1, <2>2 DEF Pos
<1>13. (b + Len(buf')) \div S = q + 1
  <2> HIDE DEF q, S
  <2>1. b + (k + S) = S * (q + 1) /\ q + 1 \in Int
    BY <1>3, <1>4, <1>6 DEF Pos
  <2>2. (S * (q + 1)) \div S = q + 1
    BY Zenon, <1>3, <2>1, MultMod
  <2> QED BY <1>11, <2>1, <2>2
<1>14. \A i : Beat(i)' = Beat(i) /\ SourceByte(i)' = SourceByte(i)
  BY <1>1 DEF Beat, SourceByte
<1>15. /\ daddr % tcd.dsize = 0 /\ Len(beats) * tcd.dsize = b
       /\ daddr = Walk(tcd.daddr, tcd.doff, tcd.dmod, Len(beats))
       /\ \A i \in 1 .. Len(beats) : beats[i] = Beat(i)
  <2>1. Len(beats) * tcd.dsize = b + 0
    BY <1>1 DEF Inv, StreamInv
  <2> QED BY SMTT(30), Z3T(30), <1>1, <1>4, <2>1 DEF Inv, StreamInv
<1>16. (pc' = "write" => k' = 0) /\ pc' \in {"read", "write"}
  BY <1>1
<1>17. Len(beats') * tcd.dsize = b + (IF pc' = "write" THEN k' ELSE 0)
  BY SMTT(30), Z3T(30), <1>1, <1>4, <1>15, <1>16
<1>18. StreamInv'
  BY <1>1, <1>8, <1>9, <1>12, <1>13, <1>14, <1>15, <1>17 DEF StreamInv
<1>19. CounterInv' /\ k' \in 0 .. MaxXfer
  <2>1. CASE k + S < chunk
    <3>1. k' = k + S /\ pc' = "read" /\ k + S \in Nat
      BY <1>1, <1>3, <1>4, <2>1 DEF Pos
    <3>2. S % S = 0
      <4>1. (S * 1) % S = 0 /\ S * 1 = S
        BY <1>3, MultMod DEF Pos
      <4> QED BY <4>1
    <3>3. (k + S) % S = 0
      BY SMTT(30), Z3T(30), <1>2, <1>3, <1>4, <3>2, SumMultiple DEF Pos
    <3>4. k + S \in 0 .. MaxXfer
      BY <1>3, <1>5, <3>1, TransferAssumption DEF Pos
    <3> QED BY <1>1, <1>2, <1>11, <2>1, <3>1, <3>3, <3>4 DEF CounterInv
  <2>2. CASE ~(k + S < chunk)
    <3>1. k' = 0 /\ pc' = "write" /\ k + S = chunk
      BY SMTT(30), Z3T(30), <1>1, <1>3, <1>4, <1>5, <2>2 DEF Pos
    <3>2. 0 % tcd.dsize = 0 /\ 0 < chunk /\ 0 \in 0 .. MaxXfer
      <4>1. tcd.dsize \in Pos
        BY <1>2, Shape
      <4>2. (tcd.dsize * 0) % tcd.dsize = 0 /\ tcd.dsize * 0 = 0
        BY <4>1, MultMod DEF Pos
      <4> QED BY <1>3, <4>2, TransferAssumption DEF Pos
    <3> QED BY <1>1, <1>2, <1>11, <3>1, <3>2 DEF CounterInv
  <2> QED BY Zenon, <2>1, <2>2
<1>20. Len(buf') <= MaxXfer
  BY SMTT(30), Z3T(30), <1>3, <1>4, <1>5, <1>11, TransferAssumption DEF Pos
<1>21. TcdInv'
  BY <1>1, <1>2, <1>9, <1>11, <1>16, <1>19, <1>20 DEF TcdInv
<1> QED BY <1>18, <1>19, <1>21 DEF Inv

\* A write beat carries the next DSIZE bytes of the source's stream; the last one of a
\* chunk makes room for the next.
LEMMA WriteInv ==
  ASSUME Inv, WriteBeat
  PROVE  Inv'
<1> DEFINE D == tcd.dsize
           n == Len(beats)
           s == SubSeq(buf, k + 1, k + D)
           new == [addr |-> daddr, bytes |-> s]
<1>1. /\ pc = "write" /\ tcd' = tcd /\ citer' = citer /\ saddr' = saddr /\ chunk' = chunk
      /\ beats' = Append(beats, new)
      /\ daddr' = edma_advance(daddr, tcd.doff, tcd.dmod)
      /\ \/ /\ k + D < chunk
            /\ k' = k + D /\ b' = b /\ buf' = buf /\ pc' = "write"
         \/ /\ ~(k + D < chunk)
            /\ k' = 0 /\ b' = b + chunk /\ buf' = << >>
            /\ pc' = IF b + chunk < tcd.nbytes THEN "read" ELSE "done"
  BY DEF WriteBeat, NextChunk, chunk
<1>2. TcdInv /\ ~Invalid(tcd) /\ citer > 0 /\ buf \in Seq(Byte) /\ Len(buf) = chunk
      /\ k % D = 0 /\ k < chunk /\ b < tcd.nbytes /\ b % chunk = 0
      /\ beats \in Seq(BeatType)
  BY <1>1 DEF Inv, TcdInv, CounterInv
<1>3. D \in Pos /\ chunk \in Pos /\ chunk % D = 0 /\ tcd.nbytes \in Nat
      /\ tcd.ssize \in Pos /\ chunk <= MaxXfer
  BY <1>2, Shape, Validated
<1>4. b \in Nat /\ k \in Nat /\ b + chunk <= tcd.nbytes /\ (b + chunk) % chunk = 0
  BY <1>1, Position
<1>5. k + D <= chunk
  BY SMTT(30), Z3T(30), <1>2, <1>3, <1>4, NextMultiple DEF Pos
<1>6. /\ daddr = Walk(tcd.daddr, tcd.doff, tcd.dmod, n) /\ daddr \in Address
      /\ daddr % D = 0 /\ saddr % tcd.ssize = 0 /\ saddr \in Address
      /\ saddr = Walk(tcd.saddr, tcd.soff, tcd.smod, (b + chunk) \div tcd.ssize)
      /\ n * D = b + k /\ n \in Nat
      /\ \A j \in 1 .. chunk : buf[j] = SourceByte(b + j - 1)
      /\ \A i \in 1 .. n : beats[i] = Beat(i)
  <2>1. n * D = b + (IF pc = "write" THEN k ELSE 0)
    BY <1>1 DEF Inv, StreamInv
  <2>2. n \in Nat
    BY Zenon, <1>2, LenProperties
  <2> QED BY ZenonT(40), <1>1, <1>2, <2>1, <2>2 DEF Inv, StreamInv, TcdInv
<1>7. daddr' = Walk(tcd.daddr, tcd.doff, tcd.dmod, n + 1)
  <2>1. /\ tcd.daddr \in Address /\ tcd.doff \in Int /\ tcd.dmod \in Nat
        /\ Ring(tcd.dmod) \in Pos /\ Space % Ring(tcd.dmod) = 0 /\ n \in Nat
    BY <1>2, <1>6, Shape
  <2> HIDE DEF n
  <2>2. edma_advance(Walk(tcd.daddr, tcd.doff, tcd.dmod, n), tcd.doff, tcd.dmod)
          = Walk(tcd.daddr, tcd.doff, tcd.dmod, n + 1)
    BY ZenonT(40), <2>1, WalkNext
  <2> QED BY Zenon, <1>1, <1>6, <2>2
<1>8. daddr' \in Address /\ daddr' % D = 0
  <2>1. tcd.doff % D = 0
    BY <1>2, Validated
  <2>2. /\ tcd.doff \in Int /\ tcd.dmod \in Nat /\ Ring(tcd.dmod) \in Pos
        /\ Space % Ring(tcd.dmod) = 0 /\ Nested(D, Ring(tcd.dmod))
    BY <1>2, Shape
  <2> HIDE DEF D
  <2>3. edma_advance(daddr, tcd.doff, tcd.dmod) \in Address
        /\ edma_advance(daddr, tcd.doff, tcd.dmod) % D = 0
    BY ZenonT(40), <1>3, <1>6, <2>1, <2>2, AdvanceAligned
  <2> QED BY Zenon, <1>1, <2>3
<1>9. s \in Seq(Byte) /\ Len(s) = D /\ \A j \in 1 .. D : s[j] = buf[k + j]
  <2> HIDE DEF D
  <2> DEFINE lo == k + 1
             hi == k + D
  <2>1. lo \in Int /\ hi \in Int /\ lo <= hi /\ hi - lo + 1 = D
    BY <1>3, <1>4 DEF Pos
  <2>2. \A i \in lo .. hi : buf[i] \in Byte
    <3>1. \A i \in lo .. hi : i \in 1 .. Len(buf)
      BY <1>2, <1>3, <1>4, <1>5 DEF Pos
    <3> QED BY <1>2, <3>1, ElementOfSeq
  <2>3. s = SubSeq(buf, lo, hi)
    OBVIOUS
  <2>4. \A i \in 1 .. D : lo + i - 1 = k + i
    BY <1>3, <1>4 DEF Pos
  <2> HIDE DEF lo, hi, s
  <2>5. /\ SubSeq(buf, lo, hi) \in Seq(Byte)
        /\ Len(SubSeq(buf, lo, hi)) = IF lo <= hi THEN hi - lo + 1 ELSE 0
        /\ \A i \in 1 .. hi - lo + 1 : SubSeq(buf, lo, hi)[i] = buf[lo + i - 1]
    BY <2>1, <2>2, SubSeqProperties
  <2> QED BY <2>1, <2>3, <2>4, <2>5
<1> HIDE DEF s
<1>10. new \in BeatType
  BY Zenon, <1>6, <1>9 DEF BeatType
<1>11. new = Beat(n + 1)
  <2> DEFINE g == [j \in 1 .. D |-> SourceByte(((n + 1) - 1) * D + j - 1)]
  <2>1. (n + 1) - 1 = n
    BY SMTT(30), Z3T(30), <1>6
  <2>2. ASSUME NEW j \in 1 .. D
        PROVE  s[j] = g[j]
    <3>1. k + j \in 1 .. chunk
      BY SMTT(30), Z3T(30), <1>3, <1>4, <1>5 DEF Pos
    <3>2. s[j] = SourceByte(b + (k + j) - 1)
      BY Zenon, <1>6, <1>9, <3>1
    <3>3. b + (k + j) - 1 = n * D + j - 1
      <4> HIDE DEF n, D
      <4> QED BY <1>3, <1>4, <1>6 DEF Pos
    <3>4. g[j] = SourceByte(n * D + j - 1)
      BY <2>1
    <3> QED BY <3>2, <3>3, <3>4
  <2>3. s = g
    <3>1. s \in [1 .. D -> Byte]
      BY <1>9, LenProperties
    <3> HIDE DEF D
    <3> QED BY <2>2, <3>1
  <2>4. Beat(n + 1) = [addr |-> Walk(tcd.daddr, tcd.doff, tcd.dmod, (n + 1) - 1), bytes |-> g]
    BY Zenon DEF Beat
  <2> QED BY Zenon, <1>6, <2>1, <2>3, <2>4
<1> HIDE DEF new
<1>12. /\ beats' \in Seq(BeatType) /\ Len(beats') = n + 1
       /\ \A i \in 1 .. n + 1 : beats'[i] = Beat(i)
  <2>1. /\ Append(beats, new) \in Seq(BeatType) /\ Len(Append(beats, new)) = n + 1
        /\ \A i \in 1 .. n : Append(beats, new)[i] = beats[i]
        /\ Append(beats, new)[n + 1] = new
    BY <1>2, <1>10, AppendProperties
  <2>2. \A i \in 1 .. n + 1 : i \in 1 .. n \/ i = n + 1
    BY SMTT(30), Z3T(30), <1>6
  <2> HIDE DEF n
  <2> QED BY Zenon, <1>1, <1>6, <1>11, <2>1, <2>2
<1>13. \A i : Beat(i)' = Beat(i) /\ SourceByte(i)' = SourceByte(i)
  BY Zenon, <1>1 DEF Beat, SourceByte
<1>14. (n + 1) * D = b + (k + D)
  <2> DEFINE m == n * D
  <2>1. m = b + k
    BY Zenon, <1>6
  <2> HIDE DEF n, D
  <2>2. (n + 1) * D = m + D /\ D \in Int
    BY <1>3, <1>6 DEF Pos
  <2> HIDE DEF m
  <2> QED BY <1>4, <2>1, <2>2
<1>15. CASE k + D < chunk
  <2>1. k' = k + D /\ b' = b /\ buf' = buf /\ pc' = "write"
    BY <1>1, <1>15
  <2>2. (k + D) % D = 0 /\ k + D \in 0 .. MaxXfer
    <3>1. (D * 1) % D = 0 /\ D * 1 = D
      BY <1>3, MultMod DEF Pos
    <3>2. (k + D) % D = 0
      <4>1. k \in Int /\ D \in Int /\ D \in Pos /\ k % D = 0 /\ D % D = 0
        BY <1>2, <1>3, <1>4, <3>1 DEF Pos
      <4> HIDE DEF D
      <4> QED BY ZenonT(40), <4>1, SumMultiple
    <3> QED BY <1>3, <1>4, <1>5, <3>2, TransferAssumption DEF Pos
  <2>3. TcdInv'
    BY Zenon, <1>1, <1>2, <1>8, <1>12, <2>1, <2>2 DEF TcdInv
  <2>4. CounterInv'
    BY <1>1, <1>2, <1>15, <2>1, <2>2 DEF CounterInv
  <2>5. Len(beats') * D = b' + (IF pc' = "write" THEN k' ELSE 0)
    BY Zenon, <1>12, <1>14, <2>1
  <2>6. StreamInv'
    BY ZenonT(40), <1>1, <1>2, <1>6, <1>7, <1>8, <1>12, <1>13, <2>1, <2>5 DEF StreamInv
  <2> QED BY <2>3, <2>4, <2>6 DEF Inv
<1>16. CASE ~(k + D < chunk)
  <2>1. /\ k' = 0 /\ b' = b + chunk /\ buf' = << >>
        /\ pc' = IF b + chunk < tcd.nbytes THEN "read" ELSE "done"
    BY <1>1, <1>16
  <2>2. k + D = chunk /\ b + chunk \in 0 .. tcd.nbytes
    BY <1>3, <1>4, <1>5, <1>16 DEF Pos
  <2>3. Len(buf') = 0 /\ buf' \in Seq(Byte) /\ 0 \in 0 .. MaxXfer /\ 0 <= MaxXfer
    BY <2>1, TransferAssumption
  <2>4. pc' \in {"read", "done"}
    BY Zenon, <2>1
  <2>5. TcdInv'
    BY Zenon, <1>1, <1>2, <1>8, <1>12, <2>1, <2>2, <2>3, <2>4 DEF TcdInv
  <2>6. 0 % tcd.ssize = 0 /\ 0 < chunk
    <3>1. (tcd.ssize * 0) % tcd.ssize = 0 /\ tcd.ssize * 0 = 0
      BY <1>3, MultMod DEF Pos
    <3> QED BY <1>3, <3>1 DEF Pos
  <2>7. pc' = "done" => b' = tcd.nbytes
    BY SMTT(30), Z3T(30), <1>3, <1>4, <2>1, <2>2 DEF Pos
  <2>8. pc' = "read" => b' < tcd.nbytes
    BY <2>1
  <2>9. CounterInv'
    BY <1>1, <1>4, <2>1, <2>3, <2>4, <2>6, <2>7, <2>8 DEF CounterInv
  <2>10. (b' + Len(buf')) = b + chunk
    BY <1>3, <1>4, <2>1, <2>3 DEF Pos
  <2>11. Len(beats') * D = b' + (IF pc' = "write" THEN k' ELSE 0)
    <3>1. b' + 0 = b + (k + D)
      BY SMTT(30), Z3T(30), <1>3, <1>4, <2>1, <2>2 DEF Pos
    <3> QED BY <1>12, <1>14, <2>4, <3>1
  <2>12. saddr' = Walk(tcd.saddr, tcd.soff, tcd.smod, (b' + Len(buf')) \div tcd.ssize)
    BY <1>1, <1>6, <2>10
  <2>13. \A j \in 1 .. Len(buf') : buf'[j] = SourceByte(b' + j - 1)
    BY SMTT(30), Z3T(30), <2>3
  <2>14. StreamInv'
    BY ZenonT(40), <1>1, <1>6, <1>7, <1>8, <1>12, <1>13, <2>11, <2>12, <2>13 DEF StreamInv
  <2> QED BY <2>5, <2>9, <2>14 DEF Inv
<1> QED BY Zenon, <1>15, <1>16

\* The end of a minor loop stores the addresses back: aligned, so the TCD stays valid.
LEMMA EndInv ==
  ASSUME Inv, EndMinor
  PROVE  Inv'
<1>1. /\ pc = "done" /\ pc' = "start" /\ citer' = citer - 1
      /\ tcd' = [tcd EXCEPT !.saddr = saddr, !.daddr = daddr]
      /\ b' = b /\ k' = k /\ saddr' = saddr /\ daddr' = daddr /\ buf' = buf /\ beats' = beats
  BY DEF EndMinor
<1>2. TcdInv /\ ~Invalid(tcd) /\ citer > 0 /\ citer \in 0 .. Loops
      /\ saddr \in Address /\ daddr \in Address
      /\ saddr % tcd.ssize = 0 /\ daddr % tcd.dsize = 0
  BY <1>1 DEF Inv, TcdInv, StreamInv
<1>3. tcd' \in Tcd
      /\ tcd'.soff = tcd.soff /\ tcd'.doff = tcd.doff /\ tcd'.ssize = tcd.ssize
      /\ tcd'.dsize = tcd.dsize /\ tcd'.smod = tcd.smod /\ tcd'.dmod = tcd.dmod
      /\ tcd'.nbytes = tcd.nbytes /\ tcd'.saddr = saddr /\ tcd'.daddr = daddr
  BY ZenonT(40), <1>1, <1>2 DEF TcdInv, Tcd, Address
<1>4. PowersOfTwo(tcd')
  BY <1>2, <1>3 DEF TcdInv, PowersOfTwo
<1>5. ~Invalid(tcd')
  BY <1>2, <1>3 DEF Invalid
<1>6. citer - 1 \in 0 .. Loops
  BY <1>2, TransferAssumption
<1>7. TcdInv'
  BY <1>1, <1>2, <1>3, <1>4, <1>5, <1>6 DEF TcdInv
<1> QED BY <1>1, <1>7 DEF Inv, CounterInv, StreamInv

\* The invariant of the transfer.
LEMMA Invariant == Spec => []Inv
<1>1. Init => Inv
  <2> SUFFICES ASSUME Init PROVE Inv
    OBVIOUS
  <2>1. tcd \in Tcd /\ PowersOfTwo(tcd) /\ citer = Loops /\ Loops \in Nat /\ MaxXfer \in Nat
    BY TransferAssumption DEF Init
  <2>2. tcd.saddr \in Address /\ tcd.daddr \in Address /\ tcd.nbytes \in Nat
    BY <2>1 DEF Tcd, Address
  <2>3. citer \in 0 .. Loops /\ ~(citer < Loops) /\ 0 \in 0 .. tcd.nbytes
        /\ 0 \in 0 .. MaxXfer /\ 0 <= MaxXfer
    BY <2>1, <2>2
  <2>4. << >> \in Seq(Byte) /\ << >> \in Seq(BeatType) /\ Len(<< >>) = 0
    OBVIOUS
  <2>5. TcdInv
    BY <2>1, <2>2, <2>3, <2>4 DEF Init, TcdInv
  <2> QED BY <2>5 DEF Init, Inv, CounterInv, StreamInv
<1>2. Inv /\ [Next]_vars => Inv'
  <2> SUFFICES ASSUME Inv, [Next]_vars PROVE Inv'
    OBVIOUS
  <2>1. CASE UNCHANGED vars
    BY SMTT(30), Z3T(30), <2>1 DEF vars, Inv, TcdInv, CounterInv, StreamInv, Beat, SourceByte,
                                   chunk
  <2> QED BY <2>1, StartInv, ReadInv, WriteInv, EndInv DEF Next
<1> QED BY <1>1, <1>2, PTL DEF Spec

\* For any address space, buffer and TCDs the counters, addresses and buffers of
\* edma_minor_loop keep their ranges: in particular a chunk fits in buf[MAX_XFER].
THEOREM TransferType == Spec => []TypeOK
<1>1. Inv => TypeOK
  BY DEF Inv, TcdInv, TypeOK, Address
<1> QED BY <1>1, Invariant, PTL

\* For any TCD whose widths and rings are powers of two, a minor loop of edma_minor_loop
\* makes NBYTES/DSIZE writes, at the destination's stride, that carry the source's bytes
\* in order, whatever the two widths, offsets and rings.
THEOREM StreamMoved == Spec => []MovesTheStream
<1>1. Inv => MovesTheStream
  <2> SUFFICES ASSUME Inv, pc = "done"
               PROVE  beats = [i \in 1 .. tcd.nbytes \div tcd.dsize |-> Beat(i)]
    BY DEF MovesTheStream, Beat
  <2> DEFINE n == Len(beats)
  <2>1. n * tcd.dsize = tcd.nbytes /\ beats \in Seq(BeatType) /\ n \in Nat
        /\ \A i \in 1 .. n : beats[i] = Beat(i)
    <3>1. n * tcd.dsize = b + 0 /\ b = tcd.nbytes
      BY DEF Inv, StreamInv, CounterInv
    <3>2. tcd.nbytes \in Nat
      BY Shape DEF Inv
    <3>3. beats \in Seq(BeatType) /\ \A i \in 1 .. n : beats[i] = Beat(i)
      BY DEF Inv, StreamInv, TcdInv
    <3> QED BY <3>1, <3>2, <3>3, LenProperties
  <2>2. tcd.nbytes \div tcd.dsize = n
    <3>1. tcd.dsize \in Pos /\ n \in Int
      BY <2>1, Shape DEF Inv
    <3> HIDE DEF n
    <3>2. tcd.nbytes = tcd.dsize * n
      BY <2>1, <3>1 DEF Pos
    <3>3. (tcd.dsize * n) \div tcd.dsize = n
      BY <3>1, MultMod
    <3> QED BY Zenon, <3>2, <3>3
  <2>3. beats \in [1 .. n -> BeatType]
    BY <2>1, LenProperties
  <2> HIDE DEF n
  <2>4. beats = [i \in 1 .. n |-> Beat(i)]
    BY <2>1, <2>3
  <2> QED BY <2>2, <2>4
<1> QED BY <1>1, Invariant, PTL

\* For any such TCD the validation of edma_minor_loop gives one verdict for the whole
\* major loop: what the walk stores back is aligned, so no later minor loop is refused.
THEOREM OneVerdict == Spec => []NeverRefusedMidway
<1>1. Inv => NeverRefusedMidway
  BY DEF Inv, TcdInv, NeverRefusedMidway
<1> QED BY <1>1, Invariant, PTL
=============================================================================

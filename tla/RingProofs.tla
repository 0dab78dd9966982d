----------------------------- MODULE RingProofs -----------------------------
(***************************************************************************)
(* The buffer for ints of any width, any block sizes and any length: when    *)
(* the callback can throw, that with one block size it takes the buffer      *)
(* block after block, and how many of the microphone's reads read anything.  *)
(***************************************************************************)
EXTENDS SampleRing, FiniteSetTheorems, TLAPS

\* The types this needs.
RingTypes ==
    /\ made \in Blocks /\ block \in Blocks
    /\ performed \in Nat
    /\ jx \in Int
    /\ thrown \in BOOLEAN

\* The strengthening: below the width of an int, jx is the number of callbacks.
Counted == performed < Half => jx = performed

RingInv == RingTypes /\ Counted /\ ThrowsOnlyAtOverflow

\* A number that fits an int is kept.
LEMMA WrapKeeps == ASSUME NEW x \in 0..Half - 1 PROVE Wrap(x) = x
<1>1. Half \in Nat /\ Half > 0
  BY RingAssumption, SMT
<1>2. x + Half \in Nat /\ x + Half < 2 * Half
  BY <1>1, SMT
<1>3. (x + Half) % (2 * Half) = x + Half
  BY <1>1, <1>2, SMT
<1> QED BY <1>1, <1>3, SMT DEF Wrap

\* Int arithmetic gives an int.
LEMMA WrapInt == ASSUME NEW x \in Int PROVE Wrap(x) \in Int
<1>1. Half \in Nat /\ Half > 0
  BY RingAssumption, SMT
<1> QED BY <1>1, SMT DEF Wrap

LEMMA BlockRange == ASSUME NEW b \in Blocks PROVE b \in Nat /\ 1 <= b /\ b <= MaxBlock
<1>1. MaxBlock \in Nat /\ b \in 1..MaxBlock
  BY RingAssumption
<1> QED BY <1>1, SMT

\* A remainder is a slot.
LEMMA RemainderInRange ==
    ASSUME NEW x \in Nat, NEW n \in Nat \ {0} PROVE Rem(x, n) \in 0..n - 1
BY SMT DEF Rem

LEMMA LengthPositive == ASSUME RingTypes PROVE Length \in Nat \ {0}
<1>1. made \in Nat /\ 1 <= made
  BY BlockRange DEF RingTypes
<1>2. BufferBlocks \in Nat \ {0} /\ DataShorts \in Nat \ {0}
  BY RingAssumption
<1>3. BufferBlocks * made \in Nat \ {0}
  BY <1>1, <1>2, SMT
<1>4. CeilDiv(DataShorts, made) \in Nat \ {0}
  <2> DEFINE q == (DataShorts + made - 1) \div made
  <2>1. DataShorts + made - 1 >= made
    BY <1>1, <1>2, SMT
  <2>2. q \in Int /\ made * q <= DataShorts + made - 1 /\ DataShorts + made - 1 < made * (q + 1)
    BY <1>1, <1>2, SMT
  <2>3. q >= 1
    <3>1. SUFFICES ASSUME q <= 0 PROVE FALSE
      BY <2>2, SMT
    <3>2. made * (q + 1) <= made
      <4>1. q + 1 <= 1 /\ q + 1 \in Int
        BY <2>2, <3>1, SMT
      <4> HIDE DEF q
      <4> QED BY <1>1, <4>1, SMT
    <3> QED BY <1>1, <1>2, <2>1, <2>2, <3>2, SMT
  <2> QED BY <2>2, <2>3, SMT DEF CeilDiv
<1>5. CeilDiv(DataShorts, made) * made \in Nat \ {0}
  BY <1>1, <1>4, SMT
<1> QED BY <1>3, <1>5 DEF Length

\* While the samples counted in the largest block fit an int, every index is a slot.
LEMMA IndexInSlots ==
    ASSUME RingTypes, Counted, (performed + 1) * MaxBlock <= Half
    PROVE  \A i \in 0..block - 1 : Index(i) \in BufferSlots
<1> SUFFICES ASSUME NEW i \in 0..block - 1 PROVE Index(i) \in BufferSlots
  OBVIOUS
<1>1. block \in Nat /\ 1 <= block /\ block <= MaxBlock /\ MaxBlock \in Nat /\ performed \in Nat
      /\ Half \in Nat
  BY BlockRange, RingAssumption DEF RingTypes
<1>2. performed * MaxBlock + MaxBlock <= Half
  BY <1>1, SMT
<1>3. performed * block <= performed * MaxBlock /\ performed <= performed * MaxBlock
  BY <1>1, SMT
<1>4. jx = performed
  BY <1>1, <1>2, <1>3, SMT DEF Counted
<1>5. jx * block + i \in 0..Half - 1
  <2>1. performed * block \in Nat /\ i \in Nat /\ i < block
    BY <1>1, SMT
  <2> QED BY <1>1, <1>2, <1>3, <1>4, <2>1, SMT
<1>6. Index(i) = Rem(jx * block + i, Length) /\ jx * block + i \in Nat
  BY <1>5, WrapKeeps, SMT DEF Index
<1> QED BY <1>6, LengthPositive, RemainderInRange DEF BufferSlots

LEMMA RingInvInit == RingInit => RingInv
<1> SUFFICES ASSUME RingInit PROVE RingInv
  OBVIOUS
<1>1. performed = 0 /\ jx = 0 /\ ~thrown /\ thrown \in BOOLEAN /\ made \in Blocks /\ block \in Blocks
  BY Zenon DEF RingInit
<1>2. 0 \in Nat /\ 0 \in Int
  BY SMT
<1> QED BY <1>1, <1>2, Zenon DEF RingInv, RingTypes, Counted, ThrowsOnlyAtOverflow

LEMMA RingInvStep == RingInv /\ [RingNext]_ringVars => RingInv'
<1> SUFFICES ASSUME RingInv, [RingNext]_ringVars PROVE RingInv'
  OBVIOUS
<1>1. CASE UNCHANGED ringVars
  BY <1>1, Zenon DEF RingInv, RingTypes, Counted, ThrowsOnlyAtOverflow, ringVars
<1>2. CASE Read
  BY <1>2, Zenon DEF RingInv, RingTypes, Counted, ThrowsOnlyAtOverflow, Read
<1>3. CASE Resize
  <2>1. block' \in Blocks
    BY <1>3 DEF Resize
  <2> QED BY <1>3, <2>1, Zenon DEF RingInv, RingTypes, Counted, ThrowsOnlyAtOverflow, Resize
<1>4. CASE Perform
  <2>1. ~thrown /\ UNCHANGED <<made, block>>
    BY <1>4 DEF Perform
  <2>2. CASE \A i \in 0..block - 1 : Index(i) \in BufferSlots
    <3>1. jx' = Wrap(jx + 1) /\ performed' = performed + 1 /\ thrown' = thrown
      BY <1>4, <2>2 DEF Perform, NextBlock
    <3>2. performed' \in Nat /\ jx' \in Int
      BY <3>1, WrapInt, SMT DEF RingInv, RingTypes
    <3>3. Counted'
      <4>1. CASE performed + 1 < Half
        <5>1. jx = performed /\ performed + 1 \in 0..Half - 1
          BY <4>1, RingAssumption, SMT DEF RingInv, RingTypes, Counted
        <5>2. jx' = performed + 1
          BY <3>1, <5>1, WrapKeeps
        <5> QED BY <3>1, <5>2 DEF Counted
      <4>2. CASE ~(performed + 1 < Half)
        BY <3>1, <4>2 DEF Counted
      <4> QED BY <4>1, <4>2
    <3> QED BY <2>1, <3>1, <3>2, <3>3 DEF RingInv, RingTypes, ThrowsOnlyAtOverflow
  <2>3. CASE ~(\A i \in 0..block - 1 : Index(i) \in BufferSlots)
    <3>1. thrown' = TRUE /\ UNCHANGED <<jx, performed>>
      BY <1>4, <2>3 DEF Perform
    <3>2. ~((performed + 1) * MaxBlock <= Half)
      BY <2>3, IndexInSlots DEF RingInv
    <3>3. (performed + 1) * MaxBlock > Half
      <4>1. Half \in Nat /\ MaxBlock \in Nat /\ performed \in Nat
        BY RingAssumption DEF RingInv, RingTypes
      <4>2. (performed + 1) * MaxBlock \in Nat
        BY <4>1, SMT
      <4> QED BY <3>2, <4>1, <4>2, SMT
    <3> QED BY <2>1, <3>1, <3>3, Zenon DEF RingInv, RingTypes, Counted, ThrowsOnlyAtOverflow
  <2> QED BY <2>2, <2>3
<1> QED BY <1>1, <1>2, <1>3, <1>4 DEF RingNext

\* ThrowsOnlyAtOverflow: as long as the callbacks counted in the largest block size
\* stay within an int, DspPerformCallback.run() has no index out of its buffer,
\* however often the block size changes under it.
THEOREM ThrowsOnlyAtOverflowHolds == RingSpec => []ThrowsOnlyAtOverflow
<1>1. RingInv => ThrowsOnlyAtOverflow
  BY DEF RingInv
<1> QED BY <1>1, RingInvInit, RingInvStep, PTL DEF RingSpec

-----------------------------------------------------------------------------
(* Quotients and remainders *)

LEMMA Division ==
    ASSUME NEW x \in Nat, NEW n \in Nat \ {0}
    PROVE  /\ x \div n \in Nat /\ x % n \in 0..n - 1
           /\ x = n * (x \div n) + (x % n)
<1>1. x \div n \in Nat
  BY SMT
<1>2. x % n \in 0..n - 1
  BY SMT
<1>3. x % n = x - n * (x \div n) /\ n * (x \div n) \in Nat
  BY SMT
<1> DEFINE q == n * (x \div n)
           r == x % n
<1>4. r = x - q /\ q \in Nat
  BY <1>3
<1> HIDE DEF q, r
<1>5. x = q + r
  BY <1>4, SMT
<1> QED BY <1>1, <1>2, <1>5, Zenon DEF q, r

\* There is one way to divide.
LEMMA DivisionUnique ==
    ASSUME NEW n \in Nat \ {0}, NEW q \in Nat, NEW r \in 0..n - 1
    PROVE  (n * q + r) \div n = q /\ (n * q + r) % n = r
<1> DEFINE x == n * q + r
           d == x \div n
           m == x % n
<1>1. n * q \in Nat /\ x \in Nat
  BY SMT
<1>2. d \in Nat /\ m \in 0..n - 1 /\ x = n * d + m
  BY <1>1, Division
<1> HIDE DEF d, m
<1>3. q = d
  <2>1. CASE q >= d + 1
    <3>1. n * q >= n * (d + 1)
      BY <1>2, <2>1, SMT
    <3>2. n * (d + 1) = n * d + n
      BY <1>2, SMT
    <3> QED BY <1>1, <1>2, <3>1, <3>2, SMT
  <2>2. CASE d >= q + 1
    <3>1. n * d >= n * (q + 1)
      BY <1>2, <2>2, SMT
    <3>2. n * (q + 1) = n * q + n
      BY SMT
    <3> QED BY <1>1, <1>2, <3>1, <3>2, SMT
  <2> QED BY <1>2, <2>1, <2>2, SMT
<1>4. r = m
  BY <1>1, <1>2, <1>3, SMT
<1> QED BY <1>3, <1>4 DEF d, m

\* k further, within the present round or to the beginning of the next.
LEMMA Advance ==
    ASSUME NEW x \in Nat, NEW n \in Nat \ {0}, NEW k \in Nat \ {0}, (x % n) + k <= n
    PROVE  /\ (x % n) + k < n => (x + k) \div n = x \div n /\ (x + k) % n = (x % n) + k
           /\ (x % n) + k = n => (x + k) \div n = (x \div n) + 1 /\ (x + k) % n = 0
<1> DEFINE d == x \div n
           m == x % n
<1>1. d \in Nat /\ m \in 0..n - 1 /\ x = n * d + m
  BY Division
<1>2. m + k <= n
  OBVIOUS
<1> SUFFICES /\ m + k < n => (x + k) \div n = d /\ (x + k) % n = m + k
             /\ m + k = n => (x + k) \div n = d + 1 /\ (x + k) % n = 0
  BY DEF d, m
<1> HIDE DEF d, m
<1>3. CASE m + k < n
  <2>1. m + k \in 0..n - 1
    BY <1>1, <1>3, SMT
  <2>2. x + k = n * d + (m + k)
    BY <1>1, SMT
  <2> QED BY <1>1, <1>3, <2>1, <2>2, DivisionUnique, SMT
<1>4. CASE m + k = n
  <2>1. x + k = n * (d + 1) + 0
    BY <1>1, <1>4, SMT
  <2>2. d + 1 \in Nat /\ 0 \in 0..n - 1
    BY <1>1, SMT
  <2>3. (n * (d + 1) + 0) \div n = d + 1 /\ (n * (d + 1) + 0) % n = 0
    BY <2>2, DivisionUnique
  <2> QED BY <1>1, <1>4, <2>1, <2>3, SMT
<1> QED BY <1>2, <1>3, <1>4

\* One further, within the round or to the beginning of the next.
LEMMA AdvanceOne ==
    ASSUME NEW x \in Nat, NEW n \in Nat \ {0}
    PROVE  /\ (x % n) + 1 < n => (x + 1) \div n = x \div n /\ (x + 1) % n = (x % n) + 1
           /\ (x % n) + 1 = n => (x + 1) \div n = (x \div n) + 1 /\ (x + 1) % n = 0
           /\ (x % n) + 1 <= n
<1> DEFINE k == 1
<1>1. k \in Nat \ {0}
  OBVIOUS
<1>2. (x % n) + k <= n
  BY Division, SMT
<1> HIDE DEF k
<1>3. /\ (x % n) + k < n => (x + k) \div n = x \div n /\ (x + k) % n = (x % n) + k
      /\ (x % n) + k = n => (x + k) \div n = (x \div n) + 1 /\ (x + k) % n = 0
  BY <1>1, <1>2, Advance, Zenon
<1> QED BY <1>2, <1>3 DEF k

\* In a buffer of k blocks a whole number of blocks is at the beginning of a block.
LEMMA WholeBlocks ==
    ASSUME NEW b \in Nat \ {0}, NEW k \in Nat \ {0}, NEW x \in Nat
    PROVE  k * b \in Nat \ {0} /\ ((x * b) % (k * b)) + b <= k * b
<1>1. k * b \in Nat \ {0} /\ x * b \in Nat
  BY SMT
<1> DEFINE n == k * b
           d == (x * b) \div n
           m == (x * b) % n
<1>2. d \in Nat /\ m \in 0..n - 1 /\ x * b = n * d + m
  BY <1>1, Division
<1> HIDE DEF d, m
<1> DEFINE y == x - k * d
<1>3. k * d \in Nat /\ y \in Int
  BY <1>2, SMT
<1>4. m = y * b
  <2>1. n * d = (k * d) * b
    BY <1>2, SMT
  <2>2. (x - k * d) * b = x * b - (k * d) * b
    BY <1>3, SMT
  <2> QED BY <1>1, <1>2, <1>3, <2>1, <2>2, SMT
<1> HIDE DEF y
<1>5. y <= k - 1
  <2> SUFFICES ASSUME y >= k PROVE FALSE
    BY <1>3, SMT
  <2>1. y * b >= k * b
    BY <1>3, SMT
  <2> QED BY <1>1, <1>2, <1>4, <2>1, SMT
<1>6. y * b <= (k - 1) * b
  BY <1>3, <1>5, SMT
<1>7. (k - 1) * b = k * b - b
  BY SMT
<1> QED BY <1>1, <1>2, <1>4, <1>6, <1>7, SMT DEF m, n

-----------------------------------------------------------------------------
(* Block after block *)

\* What the histories are.
HistoryTypes ==
    /\ source \in {"MIC", "WAV"}
    /\ resizes \in Nat /\ refused \in BOOLEAN
    /\ passes \in [BufferSlots -> Nat]

\* Half blocks, and one more, are more than an int counts.
Overflown == performed \in {Half, Half + 1} => jx = performed - 2 * Half

\* The block the callback is at begins in the buffer; only blocks of one sample can
\* come to the overflow and go on, and those only one further, unless the buffer is
\* that one sample.
Reached ==
    \/ performed * block <= Half
    \/ Length = 1
    \/ block = 1 /\ performed = Half + 1 /\ Half % Length = 0

\* The strengthening of RoundAfterRound and RefusedOnlyResized.
RoundInv ==
    /\ HistoryTypes
    /\ Overflown
    /\ RoundAfterRound
    /\ resizes = 0 => block = made /\ ~refused /\ Reached

\* Where the block the callback is at begins.
Present == (performed * block) % Length

\* The buffer is made of whole blocks of the size it was made for.
LEMMA LengthInBlocks == ASSUME RingTypes PROVE \E k \in Nat \ {0} : Length = k * made
<1>1. made \in Nat /\ 1 <= made
  BY BlockRange DEF RingTypes
<1>2. CASE source = "MIC"
  BY <1>2, RingAssumption DEF Length
<1>3. CASE source # "MIC"
  <2>1. Length = CeilDiv(DataShorts, made) * made
    BY <1>3 DEF Length
  <2>2. CeilDiv(DataShorts, made) \in Int
    BY <1>1, RingAssumption, SMT DEF CeilDiv
  <2>3. Length > 0
    BY LengthPositive, SMT
  <2>4. CeilDiv(DataShorts, made) > 0
    <3> DEFINE k == CeilDiv(DataShorts, made)
    <3> SUFFICES ASSUME k <= 0 PROVE FALSE
      BY <2>2, SMT
    <3>1. k \in Int /\ k <= 0
      BY <2>2
    <3>2. k * made <= 0
      <4> HIDE DEF k
      <4> QED BY <1>1, <3>1, SMT
    <3> QED BY <2>1, <2>3, <3>2, SMT
  <2> QED BY <2>1, <2>2, <2>4, SMT
<1> QED BY <1>2, <1>3

\* Every present block lies in the buffer as a whole.
LEMMA PresentFits ==
    ASSUME RingTypes, block = made
    PROVE  /\ block \in Nat \ {0} /\ performed * block \in Nat /\ Length \in Nat \ {0}
           /\ Present \in Nat /\ Present + block <= Length
           /\ Length = 1 => block = 1
<1>1. block \in Nat \ {0} /\ performed \in Nat
  BY BlockRange, SMT DEF RingTypes
<1>2. PICK k \in Nat \ {0} : Length = k * block
  BY LengthInBlocks
<1>3. Length \in Nat \ {0} /\ Present + block <= Length
  BY <1>1, <1>2, WholeBlocks DEF Present
<1>4. performed * block \in Nat
  BY <1>1, SMT
<1>5. Present \in Nat
  BY <1>3, <1>4, SMT DEF Present
<1>6. Length = 1 => block = 1
  BY <1>1, <1>3, <1>5, SMT
<1> QED BY <1>1, <1>3, <1>4, <1>5, <1>6

\* An index beyond an int is negative.
LEMMA WrapBeyond ==
    ASSUME NEW x \in Half..2 * Half - 1 PROVE Wrap(x) = x - 2 * Half
<1>1. Half \in Nat \ {0}
  BY RingAssumption
<1>2. x + Half = 2 * Half * 1 + (x - Half) /\ x - Half \in 0..2 * Half - 1
  BY <1>1, SMT
<1>3. (2 * Half * 1 + (x - Half)) % (2 * Half) = x - Half
  BY <1>1, <1>2, DivisionUnique, SMT
<1> QED BY <1>1, <1>2, <1>3, SMT DEF Wrap

\* So it is a slot only when the buffer's length divides it.
LEMMA BeyondInSlots ==
    ASSUME NEW x \in 1..Half, NEW n \in Nat \ {0}, Rem(-x, n) \in 0..n - 1
    PROVE  Rem(-x, n) = 0 /\ x % n = 0
<1>1. x \in Nat \ {0} /\ -x < 0 /\ -(-x) = x
  BY RingAssumption, SMT
<1>2. Rem(-x, n) = -(x % n)
  BY <1>1, SMT DEF Rem
<1>3. x % n \in 0..n - 1
  BY <1>1, Division
<1> QED BY <1>2, <1>3, SMT

\* In the present block the callback works on the slots of the present position, one
\* after the other, whether the indices fit an int or just no longer do.
LEMMA IndexAtPresent ==
    ASSUME RingInv, RoundInv, resizes = 0,
           \A i \in 0..block - 1 : Index(i) \in BufferSlots
    PROVE  /\ \A i \in 0..block - 1 : Index(i) = Present + i
           /\ (performed + 1) * block <= Half \/ Length = 1
                  \/ (block = 1 /\ performed = Half /\ Half % Length = 0)
<1>1. /\ block \in Nat \ {0} /\ performed * block \in Nat /\ Length \in Nat \ {0}
      /\ Present \in Nat /\ Present + block <= Length
      /\ Length = 1 => block = 1
  BY PresentFits DEF RingInv, RoundInv
<1>2. /\ performed \in Nat /\ Half \in Nat /\ MaxBlock < Half /\ MaxBlock \in Nat
      /\ block <= MaxBlock
  BY RingAssumption, BlockRange DEF RingInv, RingTypes
<1>3. CASE Length = 1
  <2>1. BufferSlots = {0} /\ block = 1
    BY <1>1, <1>3, SMT DEF BufferSlots
  <2>2. Present = 0
    BY <1>1, <1>3, SMT
  <2> QED BY <1>3, <2>1, <2>2, SMT
<1>4. CASE Length # 1 /\ (performed + 1) * block <= Half
  <2>1. (performed + 1) * block = performed * block + block
    BY <1>1, <1>2, SMT
  <2>2. performed <= performed * block
    BY <1>1, <1>2, SMT
  <2>3. jx = performed
    BY <1>1, <1>2, <1>4, <2>1, <2>2, SMT DEF RingInv, Counted
  <2> SUFFICES ASSUME NEW i \in 0..block - 1 PROVE Index(i) = Present + i
    BY <1>4
  <2>4. i \in Nat /\ i < block
    BY <1>1, SMT
  <2>5. performed * block + i \in 0..Half - 1
    BY <1>1, <1>2, <1>4, <2>1, <2>4, SMT
  <2>6. Index(i) = (performed * block + i) % Length
    BY <2>3, <2>5, WrapKeeps, SMT DEF Index, Rem
  <2>7. CASE i = 0
    BY <1>1, <2>6, <2>7, SMT DEF Present
  <2>8. CASE i # 0
    <3>1. i \in Nat \ {0} /\ Present + i < Length
      BY <1>1, <2>4, <2>8, SMT
    <3>2. (performed * block + i) % Length = Present + i
      <4> DEFINE x == performed * block
      <4>1. x \in Nat /\ i \in Nat \ {0} /\ Length \in Nat \ {0} /\ (x % Length) + i < Length
            /\ (x % Length) + i <= Length
        BY <1>1, <3>1, SMT DEF Present
      <4> HIDE DEF x
      <4>2. (x + i) % Length = (x % Length) + i
        BY <4>1, Advance, Zenon
      <4> QED BY <4>2 DEF Present, x
    <3> QED BY <2>6, <3>2
  <2> QED BY <2>7, <2>8
<1>5. CASE Length # 1 /\ ~((performed + 1) * block <= Half)
  <2>1. (performed + 1) * block = performed * block + block
    BY <1>1, <1>2, SMT
  <2>2. CASE performed * block <= Half /\ performed < Half
    <3>1. jx = performed
      BY <2>2 DEF RingInv, Counted
    <3> DEFINE v == performed * block + (block - 1)
    <3>2. v \in Half..Half + block - 1 /\ v < 2 * Half
      BY <1>1, <1>2, <1>5, <2>1, <2>2, SMT
    <3>3. block - 1 \in 0..block - 1 /\ Index(block - 1) = Rem(Wrap(v), Length)
      BY <1>1, <3>1, SMT DEF Index
    <3>4. Wrap(v) = -(2 * Half - v) /\ 2 * Half - v \in 1..Half
      BY <1>2, <3>2, WrapBeyond, SMT
    <3>5. (2 * Half - v) % Length = 0
      BY <1>1, <3>3, <3>4, BeyondInSlots DEF BufferSlots
    <3>6. CASE v > Half
      <4>1. block - 2 \in 0..block - 1 /\ v - 1 \in Half..2 * Half - 1
        BY <1>1, <1>2, <2>2, <3>2, <3>6, SMT
      <4>2. Index(block - 2) = Rem(Wrap(v - 1), Length)
        BY <1>1, <3>1, SMT DEF Index
      <4>3. Wrap(v - 1) = -(2 * Half - v + 1) /\ 2 * Half - v + 1 \in 1..Half
        <5>1. Wrap(v - 1) = v - 1 - 2 * Half
          BY <4>1, WrapBeyond
        <5> QED BY <1>2, <3>2, <3>6, <5>1, SMT
      <4>4. (2 * Half - v + 1) % Length = 0
        BY <1>1, <4>1, <4>2, <4>3, BeyondInSlots DEF BufferSlots
      <4>5. (2 * Half - v + 1) % Length = 1
        <5> DEFINE x == 2 * Half - v
        <5>1. x \in Nat /\ x % Length = 0 /\ (x % Length) + 1 < Length
          BY <1>1, <1>5, <3>4, <3>5, SMT
        <5> HIDE DEF x
        <5>2. (x + 1) % Length = (x % Length) + 1
          BY <1>1, <5>1, AdvanceOne, Zenon
        <5> QED BY <5>1, <5>2, SMT DEF x
      <4> QED BY <4>4, <4>5
    <3>7. CASE v = Half
      <4>1. Half % Length = 0
        BY <1>2, <3>5, <3>7, SMT
      <4>2. PICK k \in Nat \ {0} : Length = k * block
        BY LengthInBlocks DEF RingInv, RoundInv
      <4>3. PICK q \in Nat : Half = Length * q
        <5>1. Half = Length * (Half \div Length) + (Half % Length) /\ Half \div Length \in Nat
          BY <1>1, <1>2, Division
        <5>2. Half \div Length \in Nat /\ Half = Length * (Half \div Length)
          <6> DEFINE d == Length * (Half \div Length)
          <6>1. Half = d + 0 /\ d \in Int
            BY <1>1, <4>1, <5>1, SMT
          <6> HIDE DEF d
          <6>2. Half = d
            BY <6>1, SMT
          <6> QED BY <5>1, <6>2 DEF d
        <5> QED BY <5>2, Zenon
      <4>4. Half = (k * q) * block
        BY <1>1, <4>2, <4>3, SMT
      <4>5. Half + 1 = (performed + 1) * block
        BY <1>1, <1>2, <2>1, <3>7, SMT
      <4>6. (performed + 1 - k * q) * block = 1
        BY <1>1, <1>2, <4>4, <4>5, SMT
      <4>7. block = 1
        <5> DEFINE y == performed + 1 - k * q
        <5>1. y \in Int /\ y * block = 1
          BY <1>2, <4>6, SMT
        <5> HIDE DEF y
        <5>2. y >= 1
          <6> SUFFICES ASSUME y <= 0 PROVE FALSE
            BY <5>1, SMT
          <6>1. y * block <= 0
            BY <1>1, <5>1, SMT
          <6> QED BY <5>1, <6>1, SMT
        <5>3. y * block >= block
          BY <1>1, <5>1, <5>2, SMT
        <5> QED BY <1>1, <5>1, <5>3, SMT
      <4> QED BY <1>1, <1>2, <2>2, <4>5, <4>7, SMT
    <3> QED BY <1>2, <3>2, <3>6, <3>7, SMT
  <2>3. CASE performed * block <= Half /\ ~(performed < Half)
    <3>1. performed = Half /\ block = 1
      BY <1>1, <1>2, <2>3, SMT
    <3>2. jx = -Half
      BY <1>2, <3>1, SMT DEF RoundInv, Overflown
    <3>3. Index(0) = Rem(-Half, Length)
      <4>1. jx * block + 0 = -Half
        BY <1>2, <3>1, <3>2, SMT
      <4>2. Wrap(-Half) = -Half
        BY <1>2, SMT DEF Wrap
      <4> QED BY <4>1, <4>2 DEF Index
    <3>4. Rem(-Half, Length) = 0 /\ Half % Length = 0
      <4>1. 0 \in 0..block - 1 /\ Half \in 1..Half
        BY <1>1, <1>2, SMT
      <4> QED BY <1>1, <3>3, <4>1, BeyondInSlots DEF BufferSlots
    <3>5. Present = 0
      BY <1>2, <3>1, <3>4, SMT DEF Present
    <3> QED BY <3>1, <3>3, <3>4, <3>5, SMT
  <2>4. CASE block = 1 /\ performed = Half + 1 /\ Half % Length = 0
    <3>1. jx = -(Half - 1)
      BY <1>2, <2>4, SMT DEF RoundInv, Overflown
    <3>2. Half > 1
      BY <1>1, <1>2, SMT
    <3>3. Index(0) = Rem(-(Half - 1), Length)
      <4>1. jx * block + 0 = -(Half - 1)
        BY <1>2, <2>4, <3>1, SMT
      <4>2. Wrap(-(Half - 1)) = -(Half - 1)
        <5>1. -(Half - 1) + Half = 1 /\ 1 % (2 * Half) = 1
          BY <1>2, SMT
        <5> QED BY <1>2, <5>1, SMT DEF Wrap
      <4> QED BY <4>1, <4>2 DEF Index
    <3>4. (Half - 1) % Length = 0
      <4>1. 0 \in 0..block - 1 /\ Half - 1 \in 1..Half
        BY <1>2, <2>4, <3>2, SMT
      <4> QED BY <1>1, <3>3, <4>1, BeyondInSlots DEF BufferSlots
    <3>5. Half % Length = 1
      <4> DEFINE x == Half - 1
      <4>1. x \in Nat /\ x % Length = 0 /\ (x % Length) + 1 < Length
        BY <1>1, <1>2, <1>5, <3>2, <3>4, SMT
      <4>2. x + 1 = Half
        BY <1>2, SMT
      <4> HIDE DEF x
      <4>3. (x + 1) % Length = (x % Length) + 1
        BY <1>1, <4>1, AdvanceOne, Zenon
      <4> QED BY <4>1, <4>2, <4>3, SMT
    <3> QED BY <2>4, <3>5
  <2> QED BY <1>5, <2>2, <2>3, <2>4 DEF RoundInv, Reached
<1> QED BY <1>3, <1>4, <1>5

\* A block worked on: how often, for each slot.
LEMMA OncePerSlot ==
    ASSUME NEW b \in Nat \ {0}, NEW p \in Nat, NEW s \in Nat
    PROVE  Cardinality({i \in 0..b - 1 : p + i = s}) = IF p <= s /\ s < p + b THEN 1 ELSE 0
<1>1. CASE p <= s /\ s < p + b
  <2>1. {i \in 0..b - 1 : p + i = s} = {s - p}
    BY <1>1, SMT
  <2>2. Cardinality({s - p}) = 1
    BY FS_Singleton
  <2> QED BY <1>1, <2>1, <2>2
<1>2. CASE ~(p <= s /\ s < p + b)
  <2>1. {i \in 0..b - 1 : p + i = s} = {}
    BY <1>2, SMT
  <2> QED BY <1>2, <2>1, FS_EmptySet, SMT
<1> QED BY <1>1, <1>2

\* One callback of the block size the buffer was made for, that does not throw.
LEMMA PerformRound ==
    ASSUME RingInv, RoundInv, Perform, resizes = 0,
           \A i \in 0..block - 1 : Index(i) \in BufferSlots
    PROVE  RoundAfterRound' /\ ~refused' /\ Reached'
<1>1. /\ block \in Nat \ {0} /\ performed * block \in Nat /\ Length \in Nat \ {0}
      /\ Present \in Nat /\ Present + block <= Length /\ performed \in Nat
      /\ Length = 1 => block = 1
  BY PresentFits DEF RingInv, RoundInv, RingTypes
<1>2. /\ \A i \in 0..block - 1 : Index(i) = Present + i
      /\ (performed + 1) * block <= Half \/ Length = 1
             \/ (block = 1 /\ performed = Half /\ Half % Length = 0)
  BY IndexAtPresent
<1>3. /\ passes' = [s \in BufferSlots |-> passes[s] + Cardinality({i \in 0..block - 1 : Index(i) = s})]
      /\ refused' = ~Fits(TrackOffset)
      /\ performed' = performed + 1 /\ UNCHANGED <<source, made, block, resizes>>
  BY Zenon DEF Perform
<1>4. Length' = Length
  BY <1>3 DEF Length
<1>5. ~refused'
  <2>1. 0 \in 0..block - 1 /\ Present + 0 = Present /\ jx * block + 0 = jx * block
    <3>1. jx * block \in Int
      BY <1>1, SMT DEF RingInv, RingTypes
    <3> QED BY <1>1, <3>1, SMT
  <2>2. TrackOffset = Present
    BY <1>2, <2>1, Zenon DEF TrackOffset, Index
  <2>3. Fits(Present)
    BY <1>1, SMT DEF Fits
  <2> QED BY <1>3, <2>2, <2>3
<1>6. Reached'
  BY <1>2, <1>3, <1>4, SMT DEF Reached
<1> DEFINE x == performed * block
           d == x \div Length
           p == x % Length
           e == (x + block) \div Length
           o == (x + block) % Length
<1>7. performed' * block' = x + block
  BY <1>1, <1>3, SMT
<1>8. d \in Nat /\ p \in Nat /\ p + block <= Length
  BY <1>1, Division DEF Present
<1>9. /\ p + block < Length => e = d /\ o = p + block
      /\ p + block = Length => e = d + 1 /\ o = 0
  <2> HIDE DEF x
  <2> QED BY <1>1, <1>8, Advance, Zenon DEF x
<1>10. p = Present
  BY DEF Present
<1>11. ASSUME NEW s \in BufferSlots
       PROVE  passes'[s] = e + IF s < o THEN 1 ELSE 0
  <2>1. s \in Nat /\ s < Length
    BY <1>1, SMT DEF BufferSlots
  <2>2. passes[s] = d + IF s < p THEN 1 ELSE 0
    BY Zenon DEF RoundInv, RoundAfterRound
  <2>3. {i \in 0..block - 1 : Index(i) = s} = {i \in 0..block - 1 : p + i = s}
    BY <1>2, <1>10
  <2> HIDE DEF d, p, e, o
  <2>4. passes'[s] = passes[s] + IF p <= s /\ s < p + block THEN 1 ELSE 0
    BY <1>1, <1>3, <1>8, <2>1, <2>3, OncePerSlot
  <2>5. CASE p + block < Length
    BY <1>1, <1>8, <1>9, <2>1, <2>2, <2>4, <2>5, SMT
  <2>6. CASE p + block = Length
    BY <1>1, <1>8, <1>9, <2>1, <2>2, <2>4, <2>6, SMT
  <2> QED BY <1>1, <1>8, <2>5, <2>6, SMT
<1>12. BufferSlots' = BufferSlots
  BY <1>4 DEF BufferSlots
<1>13. RoundAfterRound'
  BY <1>4, <1>7, <1>11, <1>12, Zenon DEF RoundAfterRound
<1> QED BY <1>5, <1>6, <1>13

LEMMA RoundInvInit == RingInit => RoundInv
<1> SUFFICES ASSUME RingInit PROVE RoundInv
  OBVIOUS
<1>1. /\ source \in {"MIC", "WAV"} /\ made \in Blocks /\ block = made /\ jx = 0 /\ performed = 0
      /\ passes = [s \in BufferSlots |-> 0] /\ resizes = 0 /\ refused = FALSE
  BY Zenon DEF RingInit
<1>2. HistoryTypes
  <2>1. 0 \in Nat
    OBVIOUS
  <2> QED BY <1>1, <2>1, Zenon DEF HistoryTypes
<1>3. Half \in Nat \ {0} /\ block \in Nat
  BY <1>1, RingAssumption, BlockRange
<1>4. Overflown /\ Reached
  BY <1>1, <1>3, SMT DEF Overflown, Reached
<1>5. RoundAfterRound
  <2>1. RingTypes
    BY RingInvInit DEF RingInv
  <2>2. Length \in Nat \ {0}
    BY <2>1, LengthPositive
  <2>3. performed * block = 0 /\ 0 \div Length = 0 /\ 0 % Length = 0
    BY <1>1, <1>3, <2>2, SMT
  <2> SUFFICES ASSUME NEW s \in BufferSlots
               PROVE  passes[s] = (performed * block) \div Length
                            + IF s < (performed * block) % Length THEN 1 ELSE 0
    BY DEF RoundAfterRound
  <2>4. s \in Nat /\ ~(s < 0) /\ passes[s] = 0
    BY <1>1, <2>2, SMT DEF BufferSlots
  <2> QED BY <2>3, <2>4, SMT
<1> QED BY <1>1, <1>2, <1>4, <1>5 DEF RoundInv

LEMMA RoundInvStep == RingInv /\ RoundInv /\ [RingNext]_ringVars => RoundInv'
<1> SUFFICES ASSUME RingInv, RoundInv, [RingNext]_ringVars PROVE RoundInv'
  OBVIOUS
<1>1. CASE Read \/ UNCHANGED ringVars
  <2>1. UNCHANGED <<source, made, block, jx, passes, performed, resizes, refused>>
    BY <1>1 DEF Read, ringVars
  <2>2. Length' = Length /\ BufferSlots' = BufferSlots
    BY <2>1 DEF Length, BufferSlots
  <2> QED BY <2>1, <2>2, Zenon DEF RoundInv, HistoryTypes, Overflown, RoundAfterRound, Reached
<1>2. CASE Resize
  <2>1. /\ UNCHANGED <<source, made, jx, passes, performed, refused>>
        /\ resizes' = resizes + 1
    BY <1>2 DEF Resize
  <2>2. Length' = Length /\ BufferSlots' = BufferSlots
    BY <2>1 DEF Length, BufferSlots
  <2>3. resizes' \in Nat /\ resizes' # 0
    BY <2>1, SMT DEF RoundInv, HistoryTypes
  <2> QED BY <2>1, <2>2, <2>3, Zenon DEF RoundInv, HistoryTypes, Overflown, RoundAfterRound
<1>3. CASE Perform
  <2>1. UNCHANGED <<source, made, block, resizes>>
    BY <1>3 DEF Perform
  <2>2. Length' = Length /\ BufferSlots' = BufferSlots
    BY <2>1 DEF Length, BufferSlots
  <2>3. CASE ~(\A i \in 0..block - 1 : Index(i) \in BufferSlots)
    <3>1. UNCHANGED <<passes, refused, jx, performed>>
      BY <1>3, <2>3, Zenon DEF Perform
    <3> QED BY <2>1, <2>2, <3>1, Zenon
        DEF RoundInv, HistoryTypes, Overflown, RoundAfterRound, Reached
  <2>4. CASE \A i \in 0..block - 1 : Index(i) \in BufferSlots
    <3>1. /\ passes' = [s \in BufferSlots |->
                            passes[s] + Cardinality({i \in 0..block - 1 : Index(i) = s})]
          /\ refused' = ~Fits(TrackOffset)
          /\ jx' = Wrap(jx + 1) /\ performed' = performed + 1
      BY <1>3, <2>4, Zenon DEF Perform, NextBlock
    <3>2. passes' \in [BufferSlots' -> Nat]
      <4>1. ASSUME NEW s \in BufferSlots
            PROVE  passes[s] + Cardinality({i \in 0..block - 1 : Index(i) = s}) \in Nat
        <5>1. IsFiniteSet(0..block - 1)
          BY FS_Interval, BlockRange, SMT DEF RingInv, RingTypes
        <5>2. Cardinality({i \in 0..block - 1 : Index(i) = s}) \in Nat
          BY <5>1, FS_Subset, FS_CardinalityType
        <5> QED BY <5>2, SMT DEF RoundInv, HistoryTypes
      <4> QED BY <2>2, <3>1, <4>1
    <3>3. refused' \in BOOLEAN
      BY <3>1
    <3>4. Overflown'
      <4>1. Half \in Nat \ {0} /\ performed \in Nat
        BY RingAssumption DEF RingInv, RingTypes
      <4>2. CASE performed + 1 = Half
        <5>1. jx + 1 = Half
          BY <4>1, <4>2, SMT DEF RingInv, Counted
        <5>2. Wrap(Half) = Half - 2 * Half
          BY <4>1, WrapBeyond, SMT
        <5> QED BY <3>1, <4>1, <4>2, <5>1, <5>2, SMT DEF Overflown
      <4>3. CASE performed + 1 = Half + 1
        <5>1. jx + 1 = 1 - Half
          BY <4>1, <4>3, SMT DEF RoundInv, Overflown
        <5>2. Wrap(1 - Half) = 1 - Half
          <6>1. 1 - Half + Half = 1 /\ 1 % (2 * Half) = 1
            BY <4>1, SMT
          <6> QED BY <4>1, <6>1, SMT DEF Wrap
        <5> QED BY <3>1, <4>1, <4>3, <5>1, <5>2, SMT DEF Overflown
      <4>4. CASE performed + 1 \notin {Half, Half + 1}
        BY <3>1, <4>4 DEF Overflown
      <4> QED BY <4>2, <4>3, <4>4
    <3>5. resizes = 0 => RoundAfterRound' /\ ~refused' /\ Reached'
      BY <1>3, <2>4, PerformRound
    <3>6. resizes # 0 => RoundAfterRound'
      BY <2>1 DEF RoundAfterRound
    <3>7. HistoryTypes'
      BY <2>1, <3>2, <3>3, Zenon DEF RoundInv, HistoryTypes
    <3> QED BY <2>1, <3>4, <3>5, <3>6, <3>7 DEF RoundInv
  <2> QED BY <2>3, <2>4
<1> QED BY <1>1, <1>2, <1>3 DEF RingNext

\* RoundAfterRound: for ints of any width and buffers of any length, DspPerformCallback
\* takes the buffer block after block, round after round, as long as the block size
\* stays, up to the last callback before the overflow of jx and that one included.
THEOREM RoundAfterRoundHolds == RingSpec => []RoundAfterRound
<1>1. RoundInv => RoundAfterRound
  BY DEF RoundInv
<1> QED BY <1>1, RingInvInit, RingInvStep, RoundInvInit, RoundInvStep, PTL DEF RingSpec

\* RefusedOnlyResized: the track takes every block unless the block size was changed.
THEOREM RefusedOnlyResizedHolds == RingSpec => []RefusedOnlyResized
<1>1. RoundInv => RefusedOnlyResized
  <2> SUFFICES ASSUME RoundInv, refused PROVE resizes > 0
    BY DEF RefusedOnlyResized
  <2> QED BY SMT DEF RoundInv, HistoryTypes
<1> QED BY <1>1, RingInvInit, RingInvStep, RoundInvInit, RoundInvStep, PTL DEF RingSpec

-----------------------------------------------------------------------------
(* The microphone's reads *)

\* A microphone's stream keeps its block size, and its index counts the reads.
MicInv ==
    /\ readTicks \in Nat /\ ix \in Int
    /\ source = "MIC" => block = made
    /\ readTicks < Half => ix = readTicks
    /\ ReadsPerRound

\* Which reads fit: the first BufferBlocks of a round.
LEMMA ReadsThatFit ==
    ASSUME RingTypes, MicInv, source = "MIC", readTicks < Half, Length * block <= 2 * Half
    PROVE  Fits(ReadOffset) <=> readTicks % Length < BufferBlocks
<1>1. /\ block \in Nat \ {0} /\ Length = BufferBlocks * block /\ Length \in Nat \ {0}
      /\ block < Half /\ Half \in Nat \ {0} /\ BufferBlocks \in Nat \ {0} /\ readTicks \in Nat
      /\ ix = readTicks
  <2>1. block \in Nat \ {0} /\ block < Half
    BY BlockRange, RingAssumption, SMT DEF RingTypes
  <2> QED BY <2>1, LengthPositive, RingAssumption, SMT DEF MicInv, Length
<1> DEFINE m == readTicks % Length
<1>2. m \in Nat /\ m < Length /\ m <= readTicks
  BY <1>1, SMT
<1>3. ReadOffset = Wrap(m * block)
  BY <1>1, SMT DEF ReadOffset, Rem
<1> HIDE DEF m
<1>4. m * block \in Nat /\ m * block < 2 * Half
  <2>1. m * block \in Nat /\ m * block < Length * block
    BY <1>1, <1>2, SMT
  <2> QED BY <1>1, <2>1, SMT
<1>5. CASE m < BufferBlocks
  <2>1. (m + 1) * block <= BufferBlocks * block
    BY <1>1, <1>2, <1>5, SMT
  <2>2. m * block + block <= Length
    BY <1>1, <1>2, <2>1, SMT
  <2>3. m * block < Half
    <3>1. CASE block = 1
      BY <1>1, <1>2, <3>1, SMT
    <3>2. CASE block >= 2
      <4>1. Length * 2 <= Length * block
        BY <1>1, <3>2, SMT
      <4> QED BY <1>1, <1>4, <2>2, <4>1, SMT
    <3> QED BY <1>1, <3>1, <3>2, SMT
  <2>4. ReadOffset = m * block
    BY <1>3, <1>4, <2>3, <1>1, WrapKeeps, SMT
  <2> QED BY <1>4, <1>5, <2>2, <2>4, SMT DEF Fits, m
<1>6. CASE ~(m < BufferBlocks)
  <2>1. m * block >= BufferBlocks * block
    BY <1>1, <1>2, <1>6, SMT
  <2>2. ~Fits(ReadOffset)
    <3>1. CASE m * block < Half
      <4>1. ReadOffset = m * block
        BY <1>1, <1>3, <1>4, <3>1, WrapKeeps, SMT
      <4> QED BY <1>1, <1>4, <2>1, <4>1, SMT DEF Fits
    <3>2. CASE ~(m * block < Half)
      <4>1. ReadOffset = m * block - 2 * Half
        BY <1>1, <1>3, <1>4, <3>2, WrapBeyond, SMT
      <4> QED BY <1>1, <1>4, <4>1, SMT DEF Fits
    <3> QED BY <3>1, <3>2
  <2> QED BY <1>6, <2>2 DEF m
<1> QED BY <1>5, <1>6

LEMMA MicInvInit == RingInit => MicInv
<1> SUFFICES ASSUME RingInit PROVE MicInv
  OBVIOUS
<1>1. readTicks = 0 /\ ix = 0 /\ goodReads = 0 /\ block = made
  BY Zenon DEF RingInit
<1>2. Length \in Nat \ {0} /\ BufferBlocks \in Nat \ {0}
  BY RingInvInit, LengthPositive, RingAssumption DEF RingInv
<1>3. 0 \div Length = 0 /\ 0 % Length = 0
  BY <1>2, SMT
<1>4. ReadsPerRound
  BY <1>1, <1>2, <1>3, SMT DEF ReadsPerRound
<1> QED BY <1>1, <1>4, SMT DEF MicInv

LEMMA ReadCounts ==
    ASSUME RingTypes, MicInv, Read, source = "MIC" PROVE ReadsPerRound'
<1>1. /\ readTicks' = readTicks + 1 /\ UNCHANGED <<source, made, block>>
      /\ goodReads' = goodReads + IF Fits(ReadOffset) THEN 1 ELSE 0
  BY DEF Read
<1>2. Length' = Length
  BY <1>1 DEF Length
<1>3. /\ Length \in Nat \ {0} /\ BufferBlocks \in Nat \ {0} /\ readTicks \in Nat
      /\ Half \in Nat
  BY LengthPositive, RingAssumption DEF MicInv
<1> SUFFICES ASSUME readTicks + 1 <= Half, Length * block <= 2 * Half
             PROVE  goodReads' = BufferBlocks * ((readTicks + 1) \div Length)
                        + IF (readTicks + 1) % Length < BufferBlocks
                          THEN (readTicks + 1) % Length ELSE BufferBlocks
  BY <1>1, <1>2, Zenon DEF ReadsPerRound
<1> DEFINE d == readTicks \div Length
           m == readTicks % Length
           e == (readTicks + 1) \div Length
           o == (readTicks + 1) % Length
<1>4. d \in Nat /\ m \in Nat /\ m + 1 <= Length
  <2>1. d \in Nat /\ m \in 0..Length - 1
    BY <1>3, Division
  <2> HIDE DEF d, m
  <2> QED BY <1>3, <2>1, SMT
<1>5. /\ m + 1 < Length => e = d /\ o = m + 1
      /\ m + 1 = Length => e = d + 1 /\ o = 0
  BY <1>3, AdvanceOne
<1>6. goodReads = BufferBlocks * d + IF m < BufferBlocks THEN m ELSE BufferBlocks
  <2>1. readTicks <= Half
    BY <1>3, SMT
  <2> QED BY <2>1, Zenon DEF MicInv, ReadsPerRound
<1>7. Fits(ReadOffset) <=> m < BufferBlocks
  BY <1>3, ReadsThatFit, SMT
<1>8. BufferBlocks <= Length
  <2>1. Length = BufferBlocks * block /\ block \in Nat \ {0}
    BY BlockRange, SMT DEF RingTypes, MicInv, Length
  <2> QED BY <1>3, <2>1, SMT
<1> HIDE DEF d, m, e, o
<1>9. CASE m + 1 < Length
  BY <1>1, <1>3, <1>4, <1>5, <1>6, <1>7, <1>9, SMT DEF e, o
<1>10. CASE m + 1 = Length
  <2>1. BufferBlocks * (d + 1) = BufferBlocks * d + BufferBlocks
    BY <1>3, <1>4, SMT
  <2>2. BufferBlocks * d \in Nat
    BY <1>3, <1>4, SMT
  <2> QED BY <1>1, <1>3, <1>4, <1>5, <1>6, <1>7, <1>8, <1>10, <2>1, <2>2, SMT DEF e, o
<1> QED BY <1>3, <1>4, <1>9, <1>10, SMT

LEMMA MicInvStep == RingTypes /\ MicInv /\ [RingNext]_ringVars => MicInv'
<1> SUFFICES ASSUME RingTypes, MicInv, [RingNext]_ringVars PROVE MicInv'
  OBVIOUS
<1>1. CASE Perform \/ UNCHANGED ringVars
  <2>1. UNCHANGED <<source, made, block, ix, readTicks, goodReads>>
    BY <1>1 DEF Perform, ringVars
  <2>2. Length' = Length
    BY <2>1 DEF Length
  <2> QED BY <2>1, <2>2, Zenon DEF MicInv, ReadsPerRound
<1>2. CASE Resize
  BY <1>2, Zenon DEF Resize, MicInv, ReadsPerRound
<1>3. CASE Read
  <2>1. /\ source = "MIC" /\ readTicks' = readTicks + 1 /\ ix' = Wrap(ix + 1)
        /\ UNCHANGED <<source, made, block>>
    BY <1>3 DEF Read
  <2>2. readTicks' \in Nat /\ ix' \in Int
    BY <2>1, WrapInt, SMT DEF MicInv
  <2>3. readTicks' < Half => ix' = readTicks'
    <3> SUFFICES ASSUME readTicks + 1 < Half PROVE ix' = readTicks + 1
      BY <2>1
    <3>1. ix = readTicks /\ readTicks + 1 \in 0..Half - 1
      BY RingAssumption, SMT DEF MicInv
    <3> QED BY <2>1, <3>1, WrapKeeps
  <2>4. ReadsPerRound'
    BY <1>3, <2>1, ReadCounts
  <2> QED BY <2>1, <2>2, <2>3, <2>4 DEF MicInv
<1> QED BY <1>1, <1>2, <1>3 DEF RingNext

\* How far readTicks is from the blocks read that getReadTicks() promises (ReadsCounted
\* is refuted by TLC): whatever the width of an int and the length of the buffer, of
\* every Length rounds of MicStream.readLoop() exactly the first BufferBlocks read
\* anything.
THEOREM ReadsPerRoundHolds == RingSpec => []ReadsPerRound
<1>1. RingInv => RingTypes
  BY DEF RingInv
<1>2. MicInv => ReadsPerRound
  BY DEF MicInv
<1> QED BY <1>1, <1>2, RingInvInit, RingInvStep, MicInvInit, MicInvStep, PTL DEF RingSpec

=============================================================================

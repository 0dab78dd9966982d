----------------------------- MODULE FftKernel ------------------------------
(***************************************************************************)
(* The Java FFT (algorithms/FFT.java) as FftAlgorithm uses it: one object    *)
(* whose table of reversed indices is kept and refilled when the block size  *)
(* changes, and a forward transform in place of each block.                 *)
(*                                                                         *)
(* The complex numbers are abstracted to a prime field with a root of unity  *)
(* of each order used: the algorithm is one of sums and of powers of a root, *)
(* and the field tells all of them apart without rounding.                   *)
(***************************************************************************)
EXTENDS Integers

CONSTANTS
    Prime,          \* the field
    Generator,      \* a generator of its units
    MaxBits,        \* LOG2_MAXFFTSIZE
    Signals(_)      \* the blocks of n samples to transform

\* 1 << b.
TwoTo[b \in Nat] == IF b = 0 THEN 1 ELSE 2 * TwoTo[b - 1]

\* Powers of the generator.
Power[e \in Nat] == IF e = 0 THEN 1 ELSE (Generator * Power[e - 1]) % Prime

\* There is a root of unity of every order used, and half way round it is -1.
ASSUME FftAssumption ==
    /\ Prime \in Nat /\ Prime > 2 /\ Generator \in Nat /\ MaxBits \in Nat
    /\ (Prime - 1) % 2 = 0 /\ (Prime - 1) % TwoTo[MaxBits] = 0
    /\ Power[(Prime - 1) \div 2] = Prime - 1
    /\ \A b \in 0..MaxBits : Signals(TwoTo[b]) \subseteq [0..(TwoTo[b] - 1) -> Int]

VARIABLES
    bits,           \* FFT.bits
    bitreverse,     \* FFT.bitreverse
    signal,         \* history: the block as it was passed to doFFT()
    x,              \* the block, transformed in place
    level,          \* doFFT's l
    phase           \* "done", or where in doFFT(): "levels" or "scale"

fftVars == <<bits, bitreverse, signal, x, level, phase>>

Size == TwoTo[bits]
Slots == 0..(Size - 1)

\* Powers of the root of unity of the order in use.
Root(e) == Power[((Prime - 1) \div Size) * (e % Size)]

\* setBits(): the inner loop over the bits of i, whose k after j turns is Reversed[j][i].
Reversed[j \in Nat] ==
    IF j = 0 THEN [i \in Nat |-> 0]
    ELSE [i \in Nat |-> 2 * Reversed[j - 1][i] + ((i \div TwoTo[j - 1]) % 2)]

\* A bug: a table for more samples is left as it is.
RefilledIfShrunk(table, b) ==
    [i \in DOMAIN table |-> IF i < TwoTo[b] /\ b < bits THEN Reversed[b][i] ELSE table[i]]

\* setBits(): the entries in use are refilled, the others keep what they held.
Refilled(table, b) ==
    [i \in DOMAIN table |-> IF i < TwoTo[b] THEN Reversed[b][i] ELSE table[i]]

FftInit ==
    /\ bits \in 0..MaxBits
    /\ bitreverse = Refilled([i \in 0..(TwoTo[MaxBits] - 1) |-> 0], bits)
    /\ signal = [i \in Slots |-> 0]
    /\ x = signal
    /\ level = 0
    /\ phase = "done"

SetBits ==
    /\ phase = "done"
    /\ \E b \in 0..MaxBits : bits' = b /\ bitreverse' = Refilled(bitreverse, b)
    /\ x' = [i \in Slots' |-> 0] /\ signal' = x'
    /\ UNCHANGED <<level, phase>>

\* perform(): a block whose imaginary part is 0.
DoFft ==
    /\ phase = "done"
    /\ signal' \in Signals(Size)
    /\ x' = signal'
    /\ level' = 0
    /\ phase' = "levels"
    /\ UNCHANGED <<bits, bitreverse>>

\* What one level makes of slot k: the sum or the difference of a pair of slots
\* n2 apart, the second turned back by the angle of its block.
Butterfly(n2, k) ==
    LET top == IF (k \div n2) % 2 = 0 THEN k ELSE k - n2
        t   == Root(Size - bitreverse[top \div n2]) * x[top + n2]
    IN  (x[top] + (IF k = top THEN t ELSE -t)) % Prime

Level ==
    /\ phase = "levels" /\ level < bits
    /\ x' = [k \in Slots |-> Butterfly(Size \div TwoTo[level + 1], k)]
    /\ level' = level + 1
    /\ UNCHANGED <<bits, bitreverse, signal, phase>>

\* The block after the swaps of the slots below k, each with its reversed one where
\* that comes later.
Swaps[k \in 0..Size] ==
    IF k = 0 THEN x
    ELSE LET v == Swaps[k - 1]
             i == bitreverse[k - 1]
         IN  IF i <= k - 1 THEN v ELSE [v EXCEPT ![k - 1] = v[i], ![i] = v[k - 1]]

Reorder ==
    /\ phase = "levels" /\ level = bits
    /\ x' = Swaps[Size]
    /\ phase' = "scale"
    /\ UNCHANGED <<bits, bitreverse, signal, level>>

\* The forward transform divides by n.
OneOver(n) == CHOOSE i \in 1..(Prime - 1) : (i * n) % Prime = 1

Scale ==
    /\ phase = "scale"
    /\ x' = [k \in Slots |-> (x[k] * OneOver(Size)) % Prime]
    /\ phase' = "done"
    /\ level' = 0
    /\ UNCHANGED <<bits, bitreverse, signal>>

FftNext == SetBits \/ DoFft \/ Level \/ Reorder \/ Scale

FftSpec == FftInit /\ [][FftNext]_fftVars

-----------------------------------------------------------------------------

\* The reference: the sum that defines the transform's coefficient j.
Dft(j) ==
    LET sum[k \in 0..Size] ==
            IF k = 0 THEN 0
            ELSE sum[k - 1] + signal[k - 1] * Root(Size - ((j * (k - 1)) % Size))
    IN  sum[Size] % Prime

\* Whatever sizes the object had before, a finished transform is the discrete
\* Fourier transform of its block divided by the number of samples.
FftIsDft == phase = "done" => \A j \in Slots : (Size * x[j]) % Prime = Dft(j)
=============================================================================

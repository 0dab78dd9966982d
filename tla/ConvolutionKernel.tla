------------------------- MODULE ConvolutionKernel --------------------------
(***************************************************************************)
(* The convolution (algorithms/Convolution.java): each sample of the block   *)
(* becomes a weighted sum of the stressParameter samples from it on, round   *)
(* the end of the block, divided by its own index.  The division and the   *)
(* work in place are what matters, so a sample is only finite or not.        *)
(***************************************************************************)
EXTENDS Integers

CONSTANTS ConvBlocks, ConvParams    \* the block sizes and the stress parameters

ASSUME ConvAssumption == ConvBlocks \subseteq Nat \ {0} /\ ConvParams \subseteq Nat

VARIABLES
    length,     \* buffer.length
    taps,       \* stressParameter
    slot,       \* the loop's n
    spoiled     \* the samples of the buffer that are infinite or not a number

convVars == <<length, taps, slot, spoiled>>

ConvInit ==
    /\ length \in ConvBlocks /\ taps \in ConvParams
    /\ slot = 0
    /\ spoiled = {}

\* wmean(): the samples it reads.
Window(i) == {(i + k) % length : k \in 0..(taps - 1)}

\* One turn of perform()'s loop: a sum with a spoiled sample is spoiled, and so
\* is whatever is divided by the index 0.
Convolve ==
    /\ slot < length
    /\ spoiled' = IF slot = 0 \/ Window(slot) \cap spoiled # {} THEN spoiled \cup {slot} ELSE spoiled
    /\ slot' = slot + 1
    /\ UNCHANGED <<length, taps>>

\* The next block comes with finite samples, after a change of parameters perhaps.
NextBuffer ==
    /\ slot = length
    /\ length' \in ConvBlocks /\ taps' \in ConvParams
    /\ slot' = 0
    /\ spoiled' = {}

ConvNext == Convolve \/ NextBuffer

ConvSpec == ConvInit /\ [][ConvNext]_convVars

-----------------------------------------------------------------------------

\* "A random FIR filter that may vary it's length", the class says: whatever the length
\* and the coefficients, such a filter's answer to finite samples is finite.
StaysFinite == spoiled = {}

\* Instead: the samples lost in a block are the first and those whose window reaches
\* round the end to it: with as many taps as samples, all of them.
SpoiledExactly ==
    spoiled = {i \in 0..(slot - 1) : i = 0 \/ i + taps > length}
=============================================================================

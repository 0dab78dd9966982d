---------------------------- MODULE ReverbKernel ----------------------------
(***************************************************************************)
(* The reverberation filter (algorithms/Reverb.java): an all-pass filter     *)
(* computed in place, sample by sample and block by block, with the last     *)
(* block's input and output kept for the samples whose delayed ones lie      *)
(* before the block.  The slider moves at any time, the block size changes   *)
(* between blocks.  Samples and the gain are members of a small field.       *)
(***************************************************************************)
EXTENDS Integers, Sequences

CONSTANTS
    Field,          \* sample arithmetic is modulo this
    Gain,           \* g, 0.7 in the code
    Samples,        \* the values of an input sample
    ReverbBlocks,   \* the block sizes
    Positions,      \* the slider has the positions 0..Positions
    StreamCap       \* bound: samples since the last change of the block size

ASSUME ReverbAssumption ==
    /\ Field \in Nat \ {0} /\ Gain \in Int /\ Samples \subseteq Int
    /\ ReverbBlocks \subseteq Nat \ {0} /\ Positions \in Nat \ {0}

VARIABLES
    blockSize,              \* of the object
    position,               \* the slider's, parameter1 = position / Positions
    oldInput, oldOutput,    \* of the block before
    performing,             \* inside perform()
    buffer, tmpOldInput,    \* perform()'s buffer, and the copy of its input
    m, turn,                \* perform()'s delay, and the index of its two loops
    heard, played,          \* history: input and output since the block size was set
    delays                  \* history: the delay each sample was computed with

reverbVars == <<blockSize, position, oldInput, oldOutput, performing, buffer, tmpOldInput, m, turn,
                heard, played, delays>>
object == <<blockSize, oldInput, oldOutput>>
history == <<heard, played, delays>>

Zeros(n) == [k \in 0..(n - 1) |-> 0]

\* The arrays are new with the object, and with each block size.
ReverbInit ==
    /\ blockSize \in ReverbBlocks
    /\ position = Positions     \* parameter1 = 1
    /\ oldInput = Zeros(blockSize) /\ oldOutput = Zeros(blockSize)
    /\ performing = FALSE
    /\ buffer = Zeros(blockSize) /\ tmpOldInput = Zeros(blockSize) /\ m = 1 /\ turn = 0
    /\ heard = <<>> /\ played = <<>> /\ delays = <<>>

ReverbSetBlockSize ==
    /\ ~performing
    /\ blockSize' \in ReverbBlocks
    /\ oldInput' = Zeros(blockSize') /\ oldOutput' = Zeros(blockSize')
    /\ buffer' = Zeros(blockSize') /\ tmpOldInput' = Zeros(blockSize') /\ m' = 1
    /\ heard' = <<>> /\ played' = <<>> /\ delays' = <<>>
    /\ UNCHANGED <<position, performing, turn>>

\* The slider's listener runs in the thread of the screen, also during a block.
ReverbSetParams ==
    /\ position' \in 0..Positions
    /\ UNCHANGED <<object, performing, buffer, tmpOldInput, m, turn, history>>

\* m: the cast truncates, and a sample is the least.
Delay ==
    LET d == (position * blockSize) \div Positions IN IF d < 1 THEN 1 ELSE d

\* perform() is called with a block: its input is copied, and the slider is read once.
ReverbCall ==
    /\ ~performing /\ Len(heard) + blockSize <= StreamCap
    /\ buffer' \in [0..(blockSize - 1) -> Samples]
    /\ tmpOldInput' = buffer'
    /\ m' = Delay
    /\ performing' = TRUE
    /\ UNCHANGED <<object, position, turn, history>>

\* -g * now + before + g * echo.
Mix(now, before, echo) == (-Gain * now + before + Gain * echo) % Field

\* A turn of either loop, which the history keeps.
Replaced(out) ==
    /\ buffer' = [buffer EXCEPT ![turn] = out]
    /\ turn' = turn + 1
    /\ heard' = Append(heard, tmpOldInput[turn])
    /\ played' = Append(played, out)
    /\ delays' = Append(delays, m)
    /\ UNCHANGED <<object, position, performing, tmpOldInput, m>>

\* The first loop: the delayed samples are in the block before.
FromOldBlock ==
    /\ performing /\ turn < m
    /\ Replaced(Mix(buffer[turn], oldInput[blockSize - m + turn], oldOutput[blockSize - m + turn]))

\* The second loop: they are in this block, whose output has replaced its input.
FromThisBlock ==
    /\ performing /\ m <= turn /\ turn < blockSize
    /\ Replaced(Mix(buffer[turn], tmpOldInput[turn - m], buffer[turn - m]))

\* A bug: the input is kept from the buffer, which holds the output by then.
ReverbFinishLate ==
    /\ performing /\ turn = blockSize
    /\ oldInput' = buffer /\ oldOutput' = buffer
    /\ performing' = FALSE /\ turn' = 0
    /\ UNCHANGED <<blockSize, position, buffer, tmpOldInput, m, history>>

\* The end of perform(): the block is what the next one looks back into.
ReverbFinish ==
    /\ performing /\ turn = blockSize
    /\ oldInput' = tmpOldInput /\ oldOutput' = buffer
    /\ performing' = FALSE /\ turn' = 0
    /\ UNCHANGED <<blockSize, position, buffer, tmpOldInput, m, history>>

ReverbNext ==
    \/ ReverbSetBlockSize \/ ReverbSetParams
    \/ ReverbCall \/ FromOldBlock \/ FromThisBlock \/ ReverbFinish

ReverbSpec == ReverbInit /\ [][ReverbNext]_reverbVars

-----------------------------------------------------------------------------

\* A stream is silent before its first sample.
At(stream, n) == IF n < 1 THEN 0 ELSE stream[n]

\* Cut into blocks or not, in place, the output is the filter's difference equation
\* over the whole stream since the block size was set, at whatever positions the
\* slider was: the delayed samples are found across the edges of the blocks.
ReverbIsFilter ==
    \A n \in 1..Len(played) :
        played[n] = Mix(heard[n], At(heard, n - delays[n]), At(played, n - delays[n]))
=============================================================================

----------------------------- MODULE SampleRing -----------------------------
(***************************************************************************)
(* The buffer of samples that a stream's read loop fills and the callback   *)
(* processes in place, and the two indices into it: ix of MicStream and jx  *)
(* of DspThread.  Both are Java ints that are never reset, and every offset *)
(* is a product or a remainder of them, so the arithmetic is modelled with  *)
(* its width: the ints are -Half..Half-1.                                   *)
(*                                                                         *)
(* Samples are abstracted to how often the callbacks have worked on a slot. *)
(* One stream is modelled from its making to its release; a callback and a  *)
(* round of the read loop are one action each (DspThread has the steps of   *)
(* their control).                                                          *)
(***************************************************************************)
EXTENDS Integers, FiniteSets

CONSTANTS
    Half,           \* 2^31
    BufferBlocks,   \* BUFFER_SIZE_IN_BLOCKS, 256
    Blocks,         \* the block sizes
    MaxBlock,       \* the largest of them
    DataShorts,     \* the samples of the WAV file
    ReadCap,        \* bound: reads of the microphone
    PlayCap,        \* bound: callbacks
    ResizeCap       \* bound: changes of the block size

ASSUME RingAssumption ==
    /\ Half \in Nat \ {0}
    /\ BufferBlocks \in Nat \ {0}
    /\ MaxBlock \in Nat
    /\ Blocks \subseteq 1..MaxBlock
    /\ MaxBlock < Half
    /\ DataShorts \in Nat \ {0}

\* A number in an int.
Wrap(x) == ((x + Half) % (2 * Half)) - Half

\* Java's remainder has the sign of its first operand.
Rem(x, n) == IF x >= 0 THEN x % n ELSE -((-x) % n)

\* FloatMath.ceil() of a quotient.
CeilDiv(x, n) == (x + n - 1) \div n

VARIABLES
    source,     \* audioSource
    made,       \* the block size the buffer was made for
    block,      \* blockSize
    ix,         \* MicStream's count of reads
    jx,         \* DspThread's count of blocks written to the track
    readTicks,
    goodReads,  \* history: the reads that read something
    passes,     \* history: how many callbacks have worked on each slot
    performed,  \* history: callbacks completed, not wrapped
    resizes,    \* history: how often the block size was changed under the buffer
    refused,    \* history: the track refused the last block
    thrown      \* the callback has thrown ArrayIndexOutOfBoundsException

ringVars ==
    <<source, made, block, ix, jx, readTicks, goodReads, passes, performed, resizes, refused,
      thrown>>

\* getBufferSize() when the buffer is made.
Length ==
    IF source = "MIC" THEN BufferBlocks * made ELSE CeilDiv(DataShorts, made) * made

BufferSlots == 0..Length - 1

RingTypeOK ==
    /\ source \in {"MIC", "WAV"}
    /\ made \in Blocks /\ block \in Blocks
    /\ ix \in -Half..Half - 1 /\ jx \in -Half..Half - 1
    /\ readTicks \in Nat /\ goodReads \in 0..readTicks
    /\ passes \in [BufferSlots -> Nat]
    /\ performed \in Nat
    /\ resizes \in Nat /\ refused \in BOOLEAN /\ thrown \in BOOLEAN

\* setupAudioStream() of a new DspThread.  A WAV file is read as a whole by the
\* first readLoop(), before or while the first blocks are processed.
RingInit ==
    /\ source \in {"MIC", "WAV"}
    /\ made \in Blocks /\ block = made
    /\ ix = 0 /\ jx = 0
    /\ readTicks = 0 /\ goodReads = 0
    /\ passes = [s \in BufferSlots |-> 0]
    /\ performed = 0
    /\ resizes = 0 /\ refused = FALSE /\ thrown = FALSE

-----------------------------------------------------------------------------
(* MicStream.readLoop() *)

\* Where the next read goes.
ReadOffset == Wrap(Rem(ix, Length) * block)

\* AudioRecord.read() returns an error, and reads nothing, unless the block fits.
Fits(offset) == 0 <= offset /\ offset + block <= Length

\* One round of the loop: the tick and the index count every read.
Read ==
    /\ source = "MIC" /\ ~thrown /\ readTicks < ReadCap
    /\ readTicks' = readTicks + 1
    /\ ix' = Wrap(ix + 1)
    /\ goodReads' = goodReads + IF Fits(ReadOffset) THEN 1 ELSE 0
    /\ UNCHANGED <<source, made, block, jx, passes, performed, resizes, refused, thrown>>

-----------------------------------------------------------------------------
(* DspPerformCallback.run() *)

\* A bug: the index is not taken round the buffer.
IndexUnreduced(i) == Wrap(jx * block + i)

\* The slot of the block's i-th sample, when it is one.
Index(i) == Rem(Wrap(jx * block + i), Length)

\* A bug: the count of blocks goes round in a narrower number than the index.
NextBlockNarrow == (jx + 1) % (Half \div 4)

\* jx++
NextBlock == Wrap(jx + 1)

\* A bug: the track is given the samples after the block.
TrackOffsetAfter == Rem(Wrap((jx + 1) * block + 1), Length)

\* Where in the buffer track.write() begins.
TrackOffset == Rem(Wrap(jx * block), Length)

\* One block, in place, from the buffer to the track, which takes all of it or nothing.
Perform ==
    /\ ~thrown /\ performed < PlayCap
    /\ IF \A i \in 0..block - 1 : Index(i) \in BufferSlots
       THEN /\ passes' = [s \in BufferSlots |->
                             passes[s] + Cardinality({i \in 0..block - 1 : Index(i) = s})]
            /\ refused' = ~Fits(TrackOffset)
            /\ jx' = NextBlock
            /\ performed' = performed + 1
            /\ UNCHANGED thrown
       ELSE thrown' = TRUE /\ UNCHANGED <<passes, refused, jx, performed>>
    /\ UNCHANGED <<source, made, block, ix, readTicks, goodReads, resizes>>

\* launchTest() sets the next test's block size while the DSP thread is suspended;
\* the stream, its buffer and jx stay.
Resize ==
    /\ source = "WAV" /\ ~thrown /\ resizes < ResizeCap
    /\ \E b \in Blocks \ {block} : block' = b
    /\ resizes' = resizes + 1
    /\ UNCHANGED <<source, made, ix, jx, readTicks, goodReads, passes, performed, refused,
                   thrown>>

RingNext == Read \/ Perform \/ Resize

RingSpec == RingInit /\ [][RingNext]_ringVars

-----------------------------------------------------------------------------
(* Properties *)

\* The callback throws only when the samples counted in the largest block size no
\* longer fit an int: never in a run of the tests, and not before 2^31 samples (13.5
\* hours) of a session of the live screen.
ThrowsOnlyAtOverflow == thrown => (performed + 1) * MaxBlock > Half

\* With one block size the callbacks take the buffer block after block, round after
\* round: each slot was worked on once per round, the slots before the present
\* position once more.  So nothing is skipped or taken twice up to the last callback
\* before the overflow; and as a WAV file is read once, what is processed from the
\* second round on is the output of the round before.
RoundAfterRound ==
    resizes = 0 =>
        \A s \in BufferSlots :
            passes[s] = (performed * block) \div Length
                        + IF s < (performed * block) % Length THEN 1 ELSE 0

\* The track refuses a block only when the block size was changed under the buffer,
\* whose length need not be a multiple of the new size.
RefusedOnlyResized == refused => resizes > 0

-----------------------------------------------------------------------------
(* What comments of the code say of readTicks, and what it counts *)

\* "The amount of times blocks were read from input" (AudioStream.getReadTicks), "The
\* amount of blocks read from input" (DspThread.getReadTicks): every tick of the
\* microphone's loop is a block read.
ReadsCounted == source = "MIC" => readTicks = goodReads

\* Instead: of every Length rounds of the microphone's loop exactly the first
\* BufferBlocks read a block, the others fail, as long as neither the index
\* nor twice the largest offset overflows.
ReadsPerRound ==
    source = "MIC" /\ readTicks <= Half /\ Length * block <= 2 * Half =>
        LET rest == readTicks % Length
        IN  goodReads = BufferBlocks * (readTicks \div Length)
                        + IF rest < BufferBlocks THEN rest ELSE BufferBlocks
=============================================================================

----------------------------- MODULE Algorithms -----------------------------
(***************************************************************************)
(* The algorithm objects of a DspThread and how they are configured         *)
(* (threads/DspThread.java, algorithms/*.java).  A thread makes one object  *)
(* of each algorithm and keeps it; its setters hand block size, stress      *)
(* parameter and the slider's value on to the current object only, so an    *)
(* object keeps what an earlier test left in it.  Two users configure a      *)
(* thread: the tests, through many launches on one thread, and the live      *)
(* screen, with a new thread for each session.                               *)
(*                                                                         *)
(* AllTests shows that a test is configured at rest, so a launch is one      *)
(* step here.  The value of the slider is kept as (int) (10 * param1).       *)
(***************************************************************************)
EXTENDS StressSearch, TestUnits

CONSTANTS
    LiveBlocks,     \* the block sizes of the live screen
    Tables,         \* the length of deltai and ind: 1024
    MaxFft,         \* MAXFFTSIZE: 2^15
    DefaultBlock    \* DEFAULT_BLOCK_SIZE: 64

TableAlgs == {"ADD_SYNTH_LOOKUP_TABLE_LINEAR", "ADD_SYNTH_LOOKUP_TABLE_CUBIC",
              "ADD_SYNTH_LOOKUP_TABLE_TRUNCATED"}
AdditiveAlgs == TableAlgs \cup {"ADD_SYNTH_SINE"}
StressAlgs == AdditiveAlgs \cup {"CONVOLUTION"}
AlgorithmEnum ==
    StressAlgs \cup {"LOOPBACK", "REVERB", "FFT_ALGORITHM", "FFTW_MONO", "FFTW_MULTI",
                     "DOUBLE_FFT_1T", "DOUBLE_FFT_2T"}
Levels == 0..10

ASSUME AlgorithmsAssumption ==
    /\ LiveBlocks \subseteq Nat /\ Tables \in Nat /\ MaxFft \in Nat /\ DefaultBlock \in Nat
    /\ Tables >= 10     \* what the slider asks for is always there
    /\ \A i \in DOMAIN BlockSizes : BlockSizes[i] <= MaxFft
    /\ \A i \in DOMAIN Phase1 : Phase1[i] \in AlgorithmEnum \ StressAlgs
    /\ \A i \in DOMAIN Phase2 : Phase2[i] \in StressAlgs
    \* The tables have a power of two of entries, as doubling visits them.
    /\ \A d \in Doubles : d < Tables => 2 * d <= Tables
    \* The convolution, whose parameters have no such end, comes right before no table.
    /\ \A i \in DOMAIN Phase2 :
           Phase2[i] \in TableAlgs => i = 1 \/ Phase2[i - 1] \in AdditiveAlgs

VARIABLES
    user,       \* who configures the thread: "tests" or "live"
    dsp,        \* the thread's configuration and its objects
    unit,       \* the tests' unit
    search,     \* the locals of phase 2
    launched,   \* what the test or session under way was launched with, or Idle
    earlier,    \* history: the algorithms launched before it on this thread
    manages     \* history: the largest parameter an additive test was fast enough with

algVars == <<user, dsp, unit, search, launched, earlier, manages>>

-----------------------------------------------------------------------------
(* The objects *)

\* setStressParameter() of StressAlgorithm: 0 counts as 1.
AtLeastOne(param) == IF param = 0 THEN 1 ELSE param

\* The first failure stands: nothing runs after it.
EndedBy(d, cond, how) == IF d.ended = "no" /\ cond THEN how ELSE d.ended

\* setBlockSize() of an object: additive synthesis divides two ints.
Resized(alg, object, block) ==
    [object EXCEPT !.block = block,
                   !.coefficient = IF alg \in AdditiveAlgs THEN 1 \div object.stress ELSE @]

\* The FFT sets its table up, and exits the process when it is too small.
ObjectSetBlockSize(d, alg, block) ==
    [d EXCEPT !.object[alg] = Resized(alg, d.object[alg], block),
              !.fft = IF alg = "FFT_ALGORITHM" THEN block ELSE @,
              !.ended = EndedBy(d, alg = "FFT_ALGORITHM" /\ block > MaxFft, "exited")]

\* A bug: the loop over deltai is closed instead of half open.
ObjectSetStressInclusive(d, alg, param) ==
    [d EXCEPT !.object[alg].stress = AtLeastOne(param),
              !.ended = EndedBy(d, alg \in TableAlgs /\ AtLeastOne(param) + 1 > Tables, "thrown")]

\* setStressParameter() of a stress object: the tables are filled up to it.
ObjectSetStress(d, alg, param) ==
    [d EXCEPT !.object[alg].stress = AtLeastOne(param),
              !.ended = EndedBy(d, alg \in TableAlgs /\ AtLeastOne(param) > Tables, "thrown")]

\* setParams() of an object: additive synthesis takes its oscillators from it.
ObjectSetParams(d, alg, level) ==
    LET set == [d EXCEPT !.object[alg].level = level]
    IN  IF alg \in AdditiveAlgs THEN ObjectSetStress(set, alg, level) ELSE set

-----------------------------------------------------------------------------
(* The setters of DspThread *)

SetBlockSize(d, block) ==
    ObjectSetBlockSize([d EXCEPT !.blockSize = block], d.algorithm, block)

SetParams(d, level) ==
    ObjectSetParams([d EXCEPT !.level = level], d.algorithm, level)

\* A bug: the parameter is kept but not handed on.
SetStressKept(d, param) == [d EXCEPT !.stressParameter = param]

SetStressParameter(d, param) ==
    LET set == [d EXCEPT !.stressParameter = param]
    IN  IF d.algorithm \in StressAlgs THEN ObjectSetStress(set, d.algorithm, param) ELSE set

\* The thread's block size, then the thread's stress parameter, which is the one
\* of the test before, then the thread's slider value.
StressHandedOn(d) ==
    IF d.algorithm \in StressAlgs
    THEN ObjectSetStress(d, d.algorithm, d.stressParameter) ELSE d

\* A bug: the block size comes last.
SetAlgorithmBlockLast(d, alg) ==
    LET set == SetParams(StressHandedOn([d EXCEPT !.algorithm = alg]), d.level)
    IN  ObjectSetBlockSize(set, alg, d.blockSize)

SetAlgorithm(d, alg) ==
    LET set == ObjectSetBlockSize([d EXCEPT !.algorithm = alg], alg, d.blockSize)
    IN  SetParams(StressHandedOn(set), d.level)

\* The constructors run: every object at the default block size, one oscillator
\* or coefficient; the FFT's table of that time is thrown away.
Made ==
    [blockSize |-> 0, algorithm |-> "LOOPBACK", stressParameter |-> 0, level |-> 0,
     object |-> [alg \in AlgorithmEnum |->
                    [block |-> DefaultBlock, stress |-> 1, coefficient |-> 1, level |-> 10]],
     fft |-> 0, ended |-> "no"]

\* new DspThread().
NewThread == SetBlockSize(SetAlgorithm(Made, "LOOPBACK"), DefaultBlock)

-----------------------------------------------------------------------------
(* The users *)

Idle == [alg |-> "none"]
Launch(alg, block, stress) == [alg |-> alg, block |-> block, stress |-> stress]

Testing == launched # Idle
Running == dsp.ended = "no"

\* setupTests().
SetUp == SetParams(SetAlgorithm(SetBlockSize(NewThread, BlockSizes[1]), "LOOPBACK"), 5)

Init ==
    /\ user \in {"tests", "live"}
    /\ dsp = IF user = "tests" THEN SetUp ELSE NewThread
    /\ unit = 1
    /\ search = Fresh
    /\ launched = Idle
    /\ earlier = {}
    /\ manages = 0

\* launchTest().
LaunchTest(alg, block, stress) ==
    /\ dsp' = SetStressParameter(SetAlgorithm(SetBlockSize(dsp, block), alg), stress)
    /\ launched' = Launch(alg, block, stress)
    /\ UNCHANGED <<user, unit, earlier, manages>>

\* Phase 1 leaves the stress parameter out of its message.
LaunchPhase1 ==
    /\ user = "tests" /\ Running /\ ~Testing
    /\ unit <= UnitCount /\ ~InPhase2(unit)
    /\ LaunchTest(AlgOf(unit), BlockOf(unit), 0)
    /\ UNCHANGED search

LaunchPhase2 ==
    /\ user = "tests" /\ Running /\ ~Testing
    /\ unit <= UnitCount /\ InPhase2(unit)
    /\ Searching(search)
    /\ search' = Probed(search)
    /\ LaunchTest(AlgOf(unit), BlockOf(unit), search'.stressParam)

\* The test ends; in phase 2 its mean callback time decides, which is the device's.
EndTest ==
    /\ user = "tests" /\ Running /\ Testing
    /\ IF InPhase2(unit)
       THEN \E feasible \in BOOLEAN :
                /\ search' = Judged(search, feasible)
                /\ manages' = IF feasible /\ launched.alg \in AdditiveAlgs
                                 /\ launched.stress > manages
                              THEN launched.stress ELSE manages
                /\ UNCHANGED unit
       ELSE unit' = unit + 1 /\ UNCHANGED <<search, manages>>
    /\ earlier' = earlier \cup {launched.alg}
    /\ launched' = Idle
    /\ UNCHANGED <<user, dsp>>

\* The search is over: the next unit starts a fresh one.
NextUnit ==
    /\ user = "tests" /\ Running /\ ~Testing
    /\ unit <= UnitCount /\ InPhase2(unit) /\ ~Searching(search)
    /\ unit' = unit + 1
    /\ search' = Fresh
    /\ UNCHANGED <<user, dsp, launched, earlier, manages>>

\* toggleDSP(), on: with what the spinners and the slider say.  A restart does
\* the same.
ToggleOn ==
    /\ user = "live" /\ Running
    /\ \E alg \in AlgorithmEnum, block \in LiveBlocks, level \in Levels :
           /\ dsp' = SetParams(SetAlgorithm(SetBlockSize(NewThread, block), alg), level)
           /\ launched' = Launch(alg, block, IF alg \in AdditiveAlgs THEN level ELSE 0)
    /\ UNCHANGED <<user, unit, search, earlier, manages>>

\* The slider, at any moment of a session.
Slide ==
    /\ user = "live" /\ Running /\ Testing
    /\ \E level \in Levels :
           /\ dsp' = SetParams(dsp, level)
           /\ launched' = IF launched.alg \in AdditiveAlgs
                          THEN [launched EXCEPT !.stress = level] ELSE launched
    /\ UNCHANGED <<user, unit, search, earlier, manages>>

Next ==
    \/ LaunchPhase1 \/ LaunchPhase2 \/ EndTest \/ NextUnit
    \/ ToggleOn \/ Slide

Spec == Init /\ [][Next]_algVars

-----------------------------------------------------------------------------
(* Properties *)

Current == dsp.object[dsp.algorithm]

\* What performs is what was launched: the setters' order and the values objects
\* keep from earlier tests leave the current object with the launched algorithm,
\* block size and stress parameter (the FFT with a table of that size).
PerformsAsLaunched ==
    Testing /\ Running =>
        /\ dsp.algorithm = launched.alg
        /\ Current.block = launched.block /\ dsp.blockSize = launched.block
        /\ dsp.algorithm \in StressAlgs => Current.stress = AtLeastOne(launched.stress)
        /\ dsp.algorithm = "FFT_ALGORITHM" => dsp.fft = launched.block

\* Where configuring can fail, and for whom: the tests lose their run (an uncaught
\* exception on the looper thread) only on a device that manages a whole table of
\* oscillators, and the live screen exits only for an FFT of more than MaxFft.
FailsOnlyBeyond ==
    /\ dsp.ended = "thrown" => user = "tests" /\ manages >= Tables
    /\ dsp.ended = "exited" =>
           user = "live" /\ launched.alg = "FFT_ALGORITHM" /\ launched.block > MaxFft

\* Additive synthesis is heard in its first test on a thread and is silent in every
\* later one: 1/stressParameter is an int division by what the test before left.
HeardOnce ==
    Testing /\ Running /\ dsp.algorithm \in AdditiveAlgs =>
        Current.coefficient = IF launched.alg \in earlier THEN 0 ELSE 1
=============================================================================

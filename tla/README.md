# DspBenchmarking: specifications, model checking and proofs

DspBenchmarking is an Android application that measures how much digital signal
processing a device can do in real time. This directory holds TLA+ models of the
part of it that is hard to test: the processing thread, the periodic callback, the
two input streams and the buffer between them, the live screen and the automatic test
run, none of which uses a lock; the algorithm objects and how they are configured; the
kernels; and the binding to FFTW. Paths below are relative to `src/src/br/usp/ime/dspbenchmarking/`.

## The system

| Component | State it keeps | Operations | Talks to |
|---|---|---|---|
| `threads/DspThread.java` | `state`, block size, algorithm, `audioStream`, `track`, `performBuffer`, `callbackTicks` | `run`, `suspendDsp`, `resumeDsp`, `stopDspThread`, setters, getters | its stream, its callback, its callers |
| `DspPerformCallback` (inner class) | ticks, statistics, the index `jx` | `run`, once per block | reads and writes the DspThread's fields, may call `suspendDsp` |
| `streams/WavStream.java` | `isRunning`, `dspTask`, a pool of one thread | schedule, `readLoop`, `stopRunning` | the callback (pool thread) |
| `streams/MicStream.java` | `isRunning`, `recorder`, `ix` | the same | the callback (main looper) |
| `activities/AllTestsActivity.java`, looper side | `dt`, `inputStream`, results, dialog | four message handlers, the reply, back, finish | the control thread by messages, the DSP thread by calls |
| `TestControlThread` (inner class) | the loops of the two phases, the search, `controlThreadRunning`, `messageHandlerTaskDone` | `run`, `sendMessage`, the waits | the looper by messages; polls the DSP thread |
| the stress search (in `run`) | `m`, `M`, `stressParam`, `reachedPeak` | probe, judge | the outcome of a test |
| `activities/LiveActivity.java` | `dt`, the choices | toggle, back, change of a choice | the DSP thread |
| `activities/DspActivity.java`, `threads/SystemWatchThread.java` | CPU usage, an open file | poll, show | getters of the DSP thread |
| `algorithms/` | delay lines, tables, stress parameter, coefficient | `perform`, setters | the callback; the DspThread's setters |
| `algorithms/fftw/`, `src/jni/fftw_jni.c` | static result buffers, thread flags of the process | execute, enable and disable threads | every callback that performs FFTW; vendored FFTW |

Calls, messages and shared fields all cross threads. A test goes like this: the control
thread posts *launch* to the main looper; the handler sets the block size, the algorithm
and the parameter and sets `state` to processing; the DSP thread, which looks at `state`
once a second, opens stream and track, resets the counters, schedules the periodic
callback and enters the read loop; after `maxDspCycles` callbacks the callback itself
calls `suspendDsp`, which cancels the task and ends the read loop; the control thread
sees the state once a second and posts *release* and *store*. Every one of these places
reads fields that another thread writes, and the sleeps are the only thing that keeps
them apart.

What makes each part correct: a started thread processes until it is suspended or
stopped and then gives everything back; a callback has what it uses; a row of results
describes one test with one configuration; the handshake loses nothing; the search ends
with the device's limit; breaking off releases everything; nothing throws but where it is known to. `PROJECT.json`
lists the hazards to these at their lines.

## The modules

Three groups, of which the first two meet in AllTests.

**Threads and messages**

- **DspThread** models the class, the callback, both streams and an arbitrary set of
  callers (`Clients`, one of which, the `Owner`, may configure, resume and stop). `pc[t]`
  is the next shared access of thread `t`; labels are named for the code they stand at
  (`setup`, `track`/`newTrack`, `assign`, `rlSpin`, `stop1`..`stop4`). An action is one
  access of a shared field, or a run of accesses of which one is shared. So the window
  between `if (track == null)` and `track = ...`, between `scheduleAtFixedRate` and the
  assignment to `dspTask`, between the read and the write of `callbackTicks++`, and
  between `if (dspTask != null)` and `dspTask.cancel` are all there. An exception is
  modelled by where it lands: in the DSP thread it is caught and the thread is `dead`;
  in the pool the executor drops the task; on a looper or a client the process ends
  (`Alive`).
- **LiveSession** composes DspThread with the toggle of the live screen: one object, one
  session. A restart or "back" is the toggle's OFF branch and, for a restart, a new session
  on a new object that shares nothing with the old one but the statics of the FFTW binding.
- **TestPlan** is the abstract specification of a test run: units are tested and stored in
  order until all are stored or the run is ended.
- **AllTests** composes DspThread, StressSearch, TestUnits, the control thread, the looper
  with its queue, the dialog and `finishTests`. `Plan == INSTANCE TestPlan` is the
  refinement: rows stored, whether a test was launched since the last row, and `dt = null`
  as the end. An exception that the code does not catch ends the process: the setters of a launch
  past the end of a table (`UiLaunchThrows`), a use of a dropped thread or stream, and the
  screen update of the control thread (`CtlScreen`), which the framework may refuse as views
  belong to the looper's thread.

**Search, plan and configuration**

- **StressSearch** holds the search's operators without state, **TestUnits** the loops over
  algorithms and block sizes as one list of units. **SearchRun** runs one search on an
  arbitrary device (`capable`, any set of feasible parameters).
- **Algorithms** has the twelve algorithm objects of a thread and every setter that
  configures them, called as the tests and the live screen call them. An object keeps what
  an earlier test left in it; that is what the module is about.

**Buffers, kernels and the native binding**

- **SampleRing** has the buffer of samples between a read loop and the callback, and the two
  never-reset indices into it, as ints of a given width. DspThread has the steps of the same
  code, SampleRing its arithmetic.
- **FftKernel**, **ReverbKernel**, **ConvolutionKernel** are `perform` of the three
  algorithms whose index structure can be wrong, over blocks of changing sizes. FftKernel does
  a level of the transform in one step, and then the loop of swaps; the other two do a sample:
  the slider of the reverberation may move inside a block, which has read it once at its
  beginning.
- **FftwJni** is the binding: the statics of `fftw_jni.c`, the heap blocks they point to,
  FFTW's own thread setting, and any number of callers, one access of a static per action.

**SearchProofs**, **DspProofs**, **LiveProofs**, **TestsProofs**, **AlgorithmProofs**,
**RingProofs**, **FftwProofs** and **KernelProofs** hold the theorems;
the modules named **MC...** give the constants to TLC.

Definitions whose comment begins "A bug:" are mutated forms of the next definition. They
are used by no specification; substituted one at a time they break the property named
beside them in `PROJECT.json`, which shows that the property can tell.

### What is abstracted

- Logging, the statistics, and screen output but for the exception named above. The device's measured time is a
  nondeterministic outcome (`CtlMeasure`, `EndTest`). In DspThread `perform` takes any time
  and one step; in the kernels it is modelled with its loops.
- In DspThread `launchTest`'s four setters are one action `Configure`: the code calls them
  without a wait between them while the DSP thread is suspended. `ConfiguredAtRest` checks
  that this is so when the sleeps are long enough; when it is not, a callback between two
  setters is not modelled. Algorithms has the setters one by one, inside one step.
- `resetDsp` is one step. Its own look at `audioStream` could fail only where the next steps
  fail anyway.
- The message's stress parameter -1 leaves the key out of the bundle, which is read as 0.
- The microphone's recorder is assumed to initialise.
- A stop waits for nothing, so a session of the live screen is modelled until it is off.
- SampleRing abstracts a sample to how many callbacks have worked on its slot, and takes a
  callback and a round of the read loop as one step each: its questions are of arithmetic,
  and the two loops share only the array.
- The slider's value is kept as `(int) (10 * param1)`, which is all that additive synthesis
  makes of it; Reverb, which uses it as a fraction, has it in ReverbKernel.
- FftKernel replaces complex numbers by a finite field with a root of unity of every order used
  (in the run 17 elements, and the powers of 3): the algorithm adds, subtracts and multiplies
  by powers of a root, and the same indices are right in both. ReverbKernel works modulo 5.
  Rounding is not modelled. ConvolutionKernel keeps of a sample only whether it is finite.
- In FftwJni a bin of a spectrum holds who computed it. `fftw_malloc` gives any free block and
  never fails; `FFTW_ESTIMATE` plans touch no array. After a use of free memory the behaviour
  ends: nothing can be said of the process.

## The runs

| Run | Question | Instance | Result |
|---|---|---|---|
| `search` | does the search keep its bracket, waste nothing, end, and find the limit? | ceiling 8, all 256 devices | holds |
| `dsp_clients` | what may any caller rely on? | owner, one other client, both sources, two block sizes, maximum 1 | holds |
| `live` | does a session play, survive the toggle, and run until it is stopped? | both sources, blocks 8 and 16 | holds, but for WAV blocks below 11 |
| `tests` | does a run of the tests finish, complete and faithful? | one algorithm in phase 1, two in phase 2 of which one has a table of 2, two block sizes, maximum 2, sleeps long enough | holds, but for launches past the table, overlapping suspends and the last screen update |
| `tests_any` | what depends neither on the sleeps nor on the user? | one block size, maximum 1, no timing assumption, back at any moment | holds |
| `tests_abort` | what is given back, and what throws, when the user breaks off at any moment? | one block size, maximum 2, sleeps long enough | holds |
| `algorithms` | does what performs match what was launched, through every sequence of tests and sessions? | 5 algorithms in the tests, all 12 live, ceiling 32 over tables of 16 | holds |
| `samples` | do FFT and Reverb compute what they should, which samples does the callback name, and are the binding's statics used safely and for the right block? | FFT up to 16 samples, Reverb up to 4; a buffer with 6-bit ints, blocks 2, 3, 4, 8, two changes of size; in the binding two callers, two sizes, three addresses | holds; in the binding unless one caller grows the buffers under the other |
| `live_stop` | does `stopDspThread` kill the thread, as its class says? | `live` with blocks 16 and 32 | no: not during setup |
| `tests_drop` | does the wait before the release outlast every use of the DSP thread, as its comment says? | as `tests` with abort | no: a queued message outlasts it |
| `reads` | does `readTicks` count the blocks read, as its comments say? | a buffer of 3 blocks | no: every turn of the loop |
| `fir` | is the convolution a FIR filter, as its class says? | sizes up to 8, up to 20 taps | no: it divides by 0 |

### Properties

- *Search*: `Bracketed` (what `m` and `M` stand for), `NoWastedTest`, `AnswerIsEdge`,
  `FindsLimit` (the limit of a monotone device that manages 1), `Terminates`. The loop's
  comment promises that the device performs well with `m`; that is so unless the answer is 1,
  the value `m` starts with and the search never tests. `Bracketed` states it with this exception.
- *DSP thread*: `ParkedStopReleases` (a stop that finds the thread waiting is final, whatever
  a late callback or another client does), `CallbackAfterSetup`.
- *Live*: `ToggleNeverCrashes`, `Plays`, `ParkedStopKills`, `RunsUntilStopped`. The last and
  `Plays` exempt exactly the sessions of which `TooShort` holds: `initWavPcm` skips the header
  (44 bytes, 22 shorts) a second time, and two spare blocks of fewer than 11 samples do not make
  up for it, so the last block underflows.
- *Tests*: `RowsFaithful` (ticks, configuration, unit and parameter of each row agree; in
  phase 2 the statistics are those of the row's parameter or, when the last test of the search
  failed, of the next one), `WithinMaxCycles`, `OnlyKnownThrows` (the DSP thread ends only by
  being stopped, the control thread throws at most at the screen, and the looper at a
  launch past the table or where `releaseTest` overlaps the callback's own `suspendDsp`),
  `TasksHeld` (no periodic task is orphaned), `ConfiguredAtRest`, `AllStored`, `CleanEnd`;
  `Handshake`, `RowsInOrder`, `ImplementsPlan`; `AbortReleases`, and `AbortThrows` for what
  `finishTests` adds to the throws: a suspend before the first stream, and further
  overlaps. `WithinMaxCycles` needs the sleeps: without them a
  callback that reaches the maximum before `dspTask` is assigned cancels nothing and goes on.
  In phase 2 the look, the judgement and the release message follow one another without a
  sleep, so that overlap of two `suspendDsp` calls, one of which may find `dspTask` cleared
  after its test, is possible on any device, if improbable.
- *Buffers*: `RoundAfterRound` (each slot is worked on once per round, so nothing is skipped,
  and from the second round on a WAV session processes its own output), `ThrowsOnlyAtOverflow`,
  `RefusedOnlyResized`.
- *Algorithms*: `PerformsAsLaunched`; `FailsOnlyBeyond` (a search on a device that manages 1024
  oscillators overruns the tables and loses the run; a live FFT above 2^15, which the spinner
  offers, ends the process); `HeardOnce` (the coefficient is the int quotient `1/stressParameter`
  of the *previous* parameter: 1 in an object's first test, 0 and silent in all others).
- *Kernels*: `FftIsDft`, `ReverbIsFilter` (the filter's difference equation over the whole
  stream, across blocks and moves of the slider).
- *FFTW*: `SafeUnlessRaced`, `OwnSpectrum` (an undisturbed execution returns its own bins
  except the last, which is never its own), `EnabledIsInitialized`, `PlannedThreads`.

`AbortReleases` and `ParkedStopReleases` do not claim that the DSP thread dies: a last
callback past its check of `callbackTicks` may call `suspendDsp` after the stop and
overwrite the stopped state, after which the thread looks at `state` once a second for
ever. They claim that it never touches the audio devices again.

What four comments of the repository promise is not so; each is the property of a run that
ends in a violation: `StopKills`, `NoUseAfterDrop`, `ReadsCounted`, `StaysFinite`. For the
last two the module also states what is so instead, and it is proved: `ReadsPerRound` (of
every `256 * blockSize` reads of the microphone the first 256 read anything: `ix %
bufferSize` counts samples and is multiplied by samples) and `SpoiledExactly` (sample 0 is
divided by 0, and each sample is lost whose window reaches round to it).

`HeardOnce` and the last bin of `OwnSpectrum` state precisely what the code does where one would wish
for more, but where no comment speaks of the coefficient or of that bin; they are
properties with their exceptions, not findings.

### Bounds

`TickCap` stops the clock of periods when that many callbacks were counted; it is one above the
maximum, so running past the maximum is reachable (in `dsp_clients`, which asks nothing of the
count, it equals it). `MaxTasks` is the number of periodic
tasks alive at once (a task still firing counts): 1 where a run of the model needs one, 2 in
`tests` and `tests_abort`, so that a task of the test before can live beside a new one.
With `MaxTasks = 1` the DSP thread's next scheduling waits for the old task to go, so
the overlap of two tasks is not explored in `dsp_clients` and `tests_any`. `MaxParam` is 8 in
the search alone (three doublings and two bisections) and 4 inside the tests, where each
search makes two tests, one more than needed to reach both of its branches. Two block
sizes let a buffer of the wrong length occur; blocks 16 and 32 are the first two of the test
run, 8 lies below the underflow. The outer loops need two units in a row to show that
state carries over, and a unit with a table after one without, so that a launch can overrun
the table by its own parameter or by the one left to it; more of them repeat the same steps.
In `tests_any` phase 2 is the one algorithm with a table, and a VIEW leaves out what only
`RowsFaithful` reads (the statistics in a row, the configurations performed): no step of the model
looks at them, and none of that run's properties does.

In `algorithms` the
search's ceiling is twice the tables, as 2^14 is above 1024 in the code, so that it passes them
by doubling. `samples` puts the modules of the last group side by side; they share nothing, and a
behaviour is one of them at work. In it ints are 6 bits wide, so that 18 callbacks and 70 reads
pass the overflow of both indices (in `reads` they are wide, as nothing has to overflow); the
blocks include divisors of the width and one that is none. The FFT is checked with every block of
zeros and ones up to 4 samples and with every pulse at 8 and 16, which is enough as it is linear;
Reverb with every block of zeros and ones, streams up to 8 samples and all positions of the
slider. In the binding two callers with two sizes reach every pair of places; three addresses
are one more than it holds at once, so that a freed one can be given out again; callers and
addresses are symmetric. The convolution is there for its actions alone: its property is that of `fir`.

Deadlock checking is off where the program stops (a stopped session, a finished run, a process
that ended) or a bound does; `search` and `fir` check it.

### Fairness and timing

A thread that can run does: weak fairness of the DSP thread, of a callback under way, of a
stop or suspend under way, of the control thread and of the looper. No lock exists, so weak
fairness of each is what a preemptive scheduler gives. In `TestsSpec` live periodic tasks
fire when their step is enabled, timing assumption included: the executor's promise. What users and clients call is left to them: no fairness,
except that the ON branch of the toggle, once begun, reaches `resumeDsp`. The sequential
modules (SampleRing, Algorithms, the kernels) and FftwJni state safety only.

The code counts on its sleeps. `Prompt = TRUE` assumes of them only:

- A callback that has set the state is out of `suspendDsp` when a sleep of the control thread is
  over that began after the control thread saw that state (`Slept`). Phase 1 sleeps a second
  between the release and the store. Phase 2 sleeps nowhere but in the poll for the answer to
  the release, a tenth of a second, and that poll is taken to sleep once at least. The look at
  the state, in either phase, may come at any moment.
- The last callback of a test comes after the DSP thread has entered its read loop (`TaskFires`):
  at least 16 samples per period times 100 cycles against a few statements. So a test's own
  suspend never falls between `scheduleAtFixedRate` and the assignment of `dspTask`, nor before
  `isRunning = true`; the suspend that `finishTests` makes may, in `tests_abort`.
- The two seconds of `finishTests` are enough for all other threads to come to rest
  (`Settled`): the DSP thread waits or is in its loop, no callback runs, and the control
  thread has ended, sleeps, or waits for an answer of the looper, which is itself asleep.
- The user takes longer to answer the dialog than the control thread to start.

These are assumptions on the device, not facts of the code; `tests_any` shows what holds
without them. There the control thread may also look at a `dt` that `finishTests` has dropped
(`CtlNoThread`), and a stop may be overwritten by the thread's own `controlThreadRunning = true`.

## The proofs

Every invariant but `AbortThrows` and every non-temporal action property that a passing run
checks is proved; so is the refinement of TestPlan. The theorems hold for every value of the
constants that satisfies the named assumptions, which ask for types and for what the code's own
constants satisfy:

- `SearchAssumption`: the ceiling is above 2 and reached by doubling from 1.
- `UnitsAssumption`: the lists of the plan are lists, of positive block sizes.
- `DspAssumption`: the owner is a client; block sizes are positive.
- `LiveAssumption`: the live screen sets no maximum (only the tests call
  `setMaxDspCycles`; the constructor sets 0, which means none).
- `TestsAssumption`: the looper is the owner, the source is the file, and what the plan configures is a configuration.
- `AlgorithmsAssumption`: phase 2 has the stress algorithms and phase 1 the others; a table has a
  power of two of entries, at least as many as the slider asks for; and a lookup algorithm does not
  come right after the convolution, whose parameter may go beyond the tables. The code's list
  (`AllTestsActivity.java:477`) has the convolution first, then the sine, then the lookups.
- `RingAssumption`, `FftwAssumption`, `ConvAssumption`, `ReverbAssumption`: sizes are positive
  and the widest block fits an int.
- `FftAssumption`: the largest order divides the number of units, half way round the powers of
  the generator is -1, and blocks are of integers. These are the facts about the root that the
  code's angle `TWOPI * p / n` has of itself; that `Prime` is prime is not needed.

Each invariant below was first checked by TLC on the run of the property it strengthens.

- **SearchProofs.** The inductive invariant is `Inv`: types, `Bracketed`, and what phase
  the search is in. While doubling, `stressParam` is a power of two, every tested parameter
  is at most it and `M` is the ceiling; after the first failure everything tested lies
  outside the open bracket. Without these two parts `Bracketed` says nothing of the parameters
  tested before, so `NoWastedTest` would not follow. From it: `SearchTypeCorrect`,
  `SearchBracketed`, `SearchWastesNoTest`, `SearchAnswerIsEdge`, `SearchFindsLimit`. The real
  ceiling, 2^14, is one instance.
- **DspProofs.** `DspTypeCorrect`: `TypeOK` needs two more facts to be inductive: a
  counted tick is below `TickCap` while a callback is between its two halves, and the callback
  is only ever inside `suspendDsp`, never inside a stop. `DspCallbackAfterSetup` and
  `DspParkedStopReleases` hold for any number of clients. The invariant for the second says: only
  the owner stops, and stops once; with a microphone nobody but the owner touches the recorder; a
  recorder exists only with a stream; and after a parked stop each label of the owner's stop
  determines what is released already (`StaysReleased`). It is needed because "released" must
  survive every interleaving of the callback's own `suspendDsp`, which runs the same code on the
  same stream.
- **LiveProofs.** `ToggleNeverCrashesHolds` and `RunsUntilStoppedHolds`, from `LiveInv`. Its parts: what
  the user has done determines `state`, and only the owner acts (`SessionInv`); the thread goes
  through its setup once, so from its opening until the stop it has stream and track
  (`OnceInv`); which of recorder and task exists at each label of the DSP thread and of the stop
  (`SourceInv`), which is what keeps `dspTask.cancel` and `recorder.stop` from a null; and no
  callback is in `suspendDsp`, as there is no maximum (`CountInv`). `OnceInv` is what a session
  has beyond DspThread's clients: there a suspended thread opens everything again.
- **TestsProofs.** With no assumption on the sleeps: `HandshakeHolds`, `RowsInOrderHolds`,
  `TestsImplementPlan` and `TestsTypeCorrect`, for every plan. `TalkInv` says that at most one
  message is on its way, which one at each label of the control thread, and that the reply is
  owed, queued or given; `PlanInv` where in its unit the control thread is; `RowsInv` which rows
  that makes. No step of the DSP thread, the callback or a stop touches any of them, which is one
  lemma. The refinement is a step lemma: each action of AllTests maps to a step of TestPlan or
  leaves its variables alone. The types need `LoopInv`: that a configuration of the plan reaches
  the looper depends on the search keeping its parameter inside the bracket (`Chosen`,
  `Decided`) and on what a message in the queue says (`MessageInv`).

  With the sleeps long enough: `RowsFaithfulHolds`, `WithinMaxCyclesHolds`, `OnlyKnownThrowsHolds`,
  `TasksHeldHolds` and the action property `ConfiguredAtRestHolds`, all of the form
  `TestsSpec /\ Timely => ...`. `Timely` is `Prompt`; nobody pressing back (`tests_drop` shows
  what goes wrong otherwise); a positive maximum (0 means none, and a test would not end);
  blocks a WAV stream can read, 11 samples or more; and a plan with a unit in it (finishing
  an empty one suspends a thread that has no stream). The code's plan satisfies the last three;
  the first two are what the run `tests` assumes too. `TimelyInv` relates three threads at every step of a test:
  - `PlaceInv`: where DSP thread and callback are together. The DSP thread is away, preparing or
    scheduled; the one live task is the one that `newTask` or `dspTask` names; a callback exists only
    with a task, unless it is the last one, leaving through `suspendDsp` (`Leaving`).
  - `EquipInv`: stream, track and buffers exist from their labels on and have the configured length.
  - `CycleInv`: the count at each label of the callback, and that all callbacks of a test ran with
    one configuration. The last cycle comes when the DSP thread is in its loop: here `Prompt` enters.
  - `StageInv`: what the control thread's label says of the test: a test it has seen to be over is
    complete, and from the next sleep on its callback is out of `suspendDsp`, so the next launch
    finds all at rest. Until then (`JustTested`) that callback and the release may be in
    `suspendDsp` together.
  - `LooperInv` and, from the stop on, `EndInv`, in which the pool is empty and the stop alone acts.

  A throw ends the process, so the invariant is `TimelyInv \/ Ended`: in `Ended` some client has
  thrown, nothing more happens, and the properties hold of what is left.

  None of these is inductive alone: that the row is faithful needs the count, the count needs that no
  second task ticks, and that needs that the last test's task was cancelled before the launch.
- **AlgorithmProofs.** Each setter is a lemma on what it changes in the thread's record; a
  launch is their composition (`LaunchConfigured`, `StressConfigured`). The invariant adds to
  the two properties what earlier tests have left (`Left`): an additive object never launched
  has one oscillator, one that was has more. It needs that a search tests 2 or more, which
  needs its bracket open, and that phase 1 holds no stress algorithm, which needs the quotient
  of the unit's number. From it `PerformsAsLaunchedHolds` and `HeardOnceHolds`.
  `FailsOnlyBeyondHolds` needs `FailInv` beside it: until its first failure a search visits the doubles
  (`Doubling`), so it passes the end of the tables only after a whole table was managed (`Managed`); and
  since a launch first sets the block size and only then the parameter, an object is configured
  once with the parameter that the test *before* left on the thread (`HandsOn`), which is where the order of
  the plan matters.
- **RingProofs.** `ThrowsOnlyAtOverflowHolds`: until the overflow `jx` is `performed`, so the
  product is in range and the remainder a slot. `RoundAfterRoundHolds` and `RefusedOnlyResizedHolds`,
  from `RoundInv`: with one block size the buffer is a whole number of blocks, a block lies
  inside it, and adding one to its slots moves quotient and remainder of `performed * block` by one
  block. It has to say which callbacks are possible past the overflow (`Reached`, `Overflown`).
  `ReadsPerRoundHolds`, from `MicInv`: the offset `(ix % bufferSize) * blockSize` fits for the first
  `BufferBlocks` of a round; each later one is past the end or wraps to a negative number.
- **FftwProofs.** `FftwTypeCorrect` and, for any number of callers, `SafeUnlessRacedHolds`: while
  nobody has raced for the buffers, either somebody alone is replacing them and its label says
  which are made, or both are `out_size` long, apart from each other, and every plan under way
  points to the present one. `EnabledIsInitializedHolds` needs only the flags;
  `PlannedThreadsHolds` says where the one call is what the flags and FFTW's setting are.
  `OwnSpectrumHolds`, from `OwnInv`: the bins of an execution that nobody overlapped are nowhere
  before it executes, then in `out`, then in `out_res`, then in its array, each time with
  something else as the last bin; and whoever is inside the binding together with another is among
  the disturbed already.
- **KernelProofs.** `SpoiledExactlyHolds`, for every size and number of taps: what a window
  reads is at or after its first sample, or else includes sample 0. `ReverbIsFilterHolds`, for
  every block size, gain, stream and use of the slider: `LookBack` says that the two old
  arrays are the ends of the input and output streams up to the block in hand, `InPlace` that
  the buffer is output before the index and input from it on. With them each turn of either
  loop finds the delayed samples of the difference equation.

  `FftIsDftHolds`, for every size, field and block, is an induction over the levels with
  inductions over the numbers of bits and of terms inside it. Of these:
  - The library states induction over the naturals for a predicate, which no prover here can
    instantiate. `SetInduction` states it for a set, from the order of the naturals being well
    founded; `Recursion` then shows that a recursion defines a function, and so that `TwoTo`,
    `Power` and `Reversed` satisfy their equations.
  - `RootSum`, `RootHalf` and `RootPeriod` are what the transform uses of a root of unity, from
    `FftAssumption` and arithmetic modulo `Prime` (`CongruentSum`, `CongruentProduct`).
  - `ReversedFirst`, `ReversedShort` and `ReversedTwice` say where the reversal puts the first bit
    and the last, and that it undoes itself.
  - The invariant `FftInv` says that the table holds the reversals of the present size whatever it
    held before (`Filled`), and what each phase has made of the block. Before level `l`
    (`Blocks`), slot `r` of block `q` holds the sum over every `TwoTo[bits - l]`th sample from `r`
    on, with the root to the power of `q`'s reversal; after the swaps (`Transformed`) each slot
    holds the sum of its coefficient; after the scaling (`Scaled`) that sum over the size, whose
    inverse exists. It cannot be stated of the finished block alone: a level is right only
    because each half of a block has the sum at twice the angle (`TermsPaired`, `PairSums`).
  - `SwapsReverseHolds`: the loop of swaps, with its guard, leaves in each slot what was in its
    reversed one. The lemma behind it says what each turn has swapped.

  For TLC the sums of `FftInv`, which are chosen from infinitely many functions, were written as
  recursive functions over the slots.

Only model-checked: everything under fairness (`Terminates`, `Plays`, `ParkedStopKills`,
`AllStored`, `CleanEnd`, `AbortReleases`), which this prover cannot do, as it cannot reason about
ENABLED; and `AbortThrows`, whose invariant would have to follow `finishTests` from every
moment of a test. The findings are counterexamples and have no proof; `SpoiledExactlyHolds`
and `ReadsPerRoundHolds` say by how much the code misses what two of them refute.

## Findings

Each is a run that ends in a violation; `PROJECT.json` quotes the line it contradicts.

1. A toggle off during setup leaves the DSP thread running on a stream that nobody holds.
2. Breaking off the tests while a message waits in the queue dereferences the dropped `dt`: the
   wait meant to let the others finish is a sleep of the looper that has to handle the message.
3. `getReadTicks` is documented as the blocks read; it counts every turn of the microphone's
   loop, and from the 257th on the reads fail.
4. `Convolution` is documented as a FIR filter; it divides each sample by its index, the first
   by 0.

Met while modelling and stated by properties with their exceptions, above: WAV blocks
below 11 samples kill the DSP thread; a search that passes 1024 oscillators, or leaves more than
that to the next algorithm, throws on the looper and loses the run; the screen update at
the end may lose the last message; the cancel of the periodic task can find `dspTask`
not yet assigned; phase 2 rows join the best parameter with the last test's statistics; the
search answers 1 without having tested it; the break of a slow test asks for more than 100 ticks
(`AllTestsActivity.java:584`) while the maximum is 100, so it only ever breaks off a test that has
missed its maximum.

## Not modelled

- Nearly all lines of the repository are the vendored FFTW library (about 290,000 lines of C
  under `src/jni/fftw`, for the most part generated codelets) and the JTransforms copy: third-party
  code that the application calls through one function each. FftwJni has the library as the binding
  sees it. The application's own code is about 3,600 lines of Java with its comments and the 120
  lines of `fftw_jni.c`; the model is of these.
- Floating point: what the lookups of additive synthesis return, rounding in the FFT and Reverb,
  the measured times. TLC has no reals, and no property here depends on them.
- SystemWatchThread and DspActivity: a poll of `/proc/stat` and of getters, for the screen. Nothing
  ever stops the watch thread; it shares nothing with the processing.
- PhaseVocoder and PitchShifting: never constructed. The inverse FFT: never called.
- The header and the mail of the results, the launcher, layouts and the plotting scripts: formatting
  and file I/O.
- More than one live session at once, except in the binding, which is all that sessions share;
  the pools of the WAV streams, whose idle threads accumulate.

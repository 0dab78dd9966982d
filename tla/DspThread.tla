----------------------------- MODULE DspThread ------------------------------
(***************************************************************************)
(* One DspThread object (threads/DspThread.java) with the stream it owns    *)
(* (streams/MicStream.java or streams/WavStream.java), the callback that    *)
(* processes the blocks, and the threads that call its methods.             *)
(*                                                                         *)
(* Nothing in the code is locked, so an action is one access of a shared    *)
(* field (or a run of accesses of which one is shared).  pc[t] names the    *)
(* next one of thread t:                                                    *)
(*   "dsp"       the DspThread itself, in run() and what it calls;          *)
(*   "cb"        DspPerformCallback.run(), in the stream's pool thread      *)
(*               (WAV) or on the main looper (MIC);                         *)
(*   c \in Clients  a caller of suspendDsp() or stopDspThread().            *)
(* audioSource never changes, which the next-state relation says once.      *)
(* One of the clients, the Owner, holds the object: it alone configures,    *)
(* resumes and stops it, and it lets go of it when it has stopped it.       *)
(***************************************************************************)
EXTENDS Integers

CONSTANTS
    Clients,        \* the threads that call the object's methods
    Owner,          \* the one that may configure, resume and stop it
    Sources,        \* what setAudioSource() may have been given: "WAV", "MIC"
    Configs,        \* what setBlockSize, setAlgorithm, setStressParameter choose
    Block(_),       \* the block size of a configuration
    MaxDspCycles,   \* after this many callbacks the thread suspends; 0 is never
    MaxTasks,       \* bound: periodic tasks the pool may hold at once
    TickCap         \* bound: callbacks counted before the model stops counting

ASSUME DspAssumption ==
    /\ Owner \in Clients
    /\ "dsp" \notin Clients /\ "cb" \notin Clients
    /\ Sources \subseteq {"WAV", "MIC"}
    /\ \A c \in Configs : Block(c) \in Nat \ {0}
    /\ MaxDspCycles \in Nat
    /\ MaxTasks \in Nat
    /\ TickCap \in Nat

VARIABLES
    audioSource,    \* DspThread.audioSource, set before the thread is started
    state,          \* DspThread.state
    config,         \* block size, algorithm and stress parameter now set
    callbackTicks,  \* callbacks counted since the last resetDsp()
    performLen,     \* length of performBuffer, 0 when it is null
    audioStream,    \* whether the field holds the stream
    input,          \* "fresh" until a stream was made of inputStream or it was closed
    isRunning,      \* the stream's isRunning
    toRead,         \* the block size a WavStream was made for, 0 once its file is read
    dspTask,        \* WavStream.dspTask
    recorder,       \* MicStream.recorder
    track,          \* DspThread.track
    tasks,          \* the live periodic tasks of the stream's pool
    posted,         \* a period notification of the recorder is in the looper's queue
    newTask,        \* local of "dsp": the task scheduled and not yet assigned
    firing,         \* local of "cb": the task this callback is a run of
    ticks,          \* local of "cb": callbackTicks as the increment read it
    pc,             \* the next step of each thread
    op,             \* which call a thread is in: "suspend" or "stop"
    used,           \* history: configurations performed since the last resetDsp()
    stopped,        \* history: the Owner has called stopDspThread()
    parked          \* history: that call found the DSP thread in a waiting place

fields == <<state, config, callbackTicks, performLen, audioStream, track>>
streams == <<input, isRunning, toRead, dspTask, recorder>>
pool == <<tasks, posted>>
locals == <<newTask, firing, ticks>>
history == <<used, stopped, parked>>
vars == <<audioSource, fields, streams, pool, locals, pc, op, history>>

NoTask == 0
Tasks == 1..MaxTasks
Threads == Clients \cup {"dsp", "cb"}

\* The places where the DSP thread waits: between two looks at state, in one of
\* the two sleeps, in the read loop of the microphone, or for ever.
Parked == {"top", "asleep", "rlSpin", "rlRead", "rlDeref", "dead"}

\* run() and the methods it calls, from one look at state to the next.
DspLabels == Parked \cup
    {"setup", "buffer", "track", "newTrack", "reset", "performBuffer",
     "schedule", "assign", "play", "enter", "rlStart"}

\* DspPerformCallback.run().
CbLabels == {"idle", "tick", "count", "convert", "perform", "write", "writeDeref", "last"}

\* suspendDsp(), and the stopRunning() it shares with stopDspThread().
SuspendLabels == {"suspend", "stream", "stop1", "stop2", "stop3", "stop4"}

\* stopDspThread() and releaseIO().
StopLabels == {"stop", "release", "forget", "relTrack", "dropTrack"}

\* Where a thread is when it is in no method of the object.
Rest(t) == IF t = "cb" THEN "idle" ELSE "free"

\* An uncaught exception on a thread of the application ends the process.
Alive == \A c \in Clients : pc[c] # "crashed"

AllLabels ==
    DspLabels \cup CbLabels \cup SuspendLabels \cup StopLabels \cup {"free", "crashed"}

Labels(t) ==
    IF t = "dsp" THEN DspLabels
    ELSE IF t = "cb" THEN CbLabels \cup SuspendLabels
    ELSE {"free", "crashed"} \cup SuspendLabels \cup StopLabels

\* Every field, local and history variable has its type.
DataOK ==
    /\ audioSource \in Sources
    /\ state \in {"STOPPED", "PROCESSING", "SUSPENDED"}
    /\ config \in Configs
    /\ callbackTicks \in 0..TickCap
    /\ performLen \in Nat
    /\ audioStream \in BOOLEAN
    /\ input \in {"fresh", "consumed"}
    /\ isRunning \in BOOLEAN
    /\ toRead \in Nat
    /\ dspTask \in Tasks \cup {NoTask}
    /\ recorder \in {"null", "ready", "recording", "released"}
    /\ track \in {"null", "open", "released"}
    /\ tasks \subseteq Tasks
    /\ posted \in BOOLEAN
    /\ newTask \in Tasks \cup {NoTask}
    /\ firing \in Tasks \cup {NoTask}
    /\ ticks \in 0..TickCap
    /\ op \in [Threads \ {"dsp"} -> {"suspend", "stop"}]
    /\ used \subseteq Configs
    /\ stopped \in BOOLEAN
    /\ parked \in BOOLEAN

\* Every thread is at one of its labels.
PcOK ==
    /\ pc \in [Threads -> AllLabels]
    /\ \A t \in Threads : pc[t] \in Labels(t)

TypeOK == DataOK /\ PcOK

\* The constructor, and start(): the thread is SUSPENDED and at its first look.
Init ==
    /\ audioSource \in Sources
    /\ state = "SUSPENDED"
    /\ config \in Configs
    /\ callbackTicks = 0
    /\ performLen = 0
    /\ audioStream = FALSE
    /\ input = "fresh"
    /\ isRunning = TRUE
    /\ toRead = 0
    /\ dspTask = NoTask
    /\ recorder = "null"
    /\ track = "null"
    /\ tasks = {}
    /\ posted = FALSE
    /\ newTask = NoTask
    /\ firing = NoTask
    /\ ticks = 0
    /\ pc = [t \in Threads |-> IF t = "dsp" THEN "top" ELSE Rest(t)]
    /\ op = [t \in Threads \ {"dsp"} |-> "suspend"]
    /\ used = {}
    /\ stopped = FALSE
    /\ parked = FALSE

Goto(t, label) == pc' = [pc EXCEPT ![t] = label]

\* Thread t moves from one label to another.
Step(t, from, to) == pc[t] = from /\ Goto(t, to)

-----------------------------------------------------------------------------
(* DspThread.run() *)

\* One look at state.
Top ==
    /\ pc["dsp"] = "top"
    /\ Goto("dsp", CASE state = "SUSPENDED" -> "asleep"
                     [] state = "PROCESSING" -> "setup"
                     [] state = "STOPPED" -> "dead")
    /\ UNCHANGED <<fields, streams, pool, locals, op, history>>

\* Thread.sleep(1000) ends.
Wake ==
    /\ Step("dsp", "asleep", "top")
    /\ UNCHANGED <<fields, streams, pool, locals, op, history>>

\* setupAudioStream(): open the stream unless there is one.  A second WavStream
\* finds its input consumed: the IOException is caught and the field stays null.
Setup ==
    /\ pc["dsp"] = "setup"
    /\ IF audioStream
       THEN Goto("dsp", "track") /\ UNCHANGED <<audioStream, streams>>
       ELSE /\ Goto("dsp", "buffer")
            /\ input' = "consumed"
            /\ IF audioSource = "WAV" /\ input = "consumed"
               THEN UNCHANGED <<audioStream, isRunning, toRead, recorder>>
               ELSE /\ audioStream' = TRUE
                    /\ isRunning' = TRUE
                    /\ toRead' = IF audioSource = "WAV" THEN Block(config) ELSE 0
                    /\ recorder' = IF audioSource = "MIC" THEN "ready" ELSE "null"
            /\ UNCHANGED dspTask
    /\ UNCHANGED <<state, config, callbackTicks, performLen, track, pool, locals, op, history>>

\* buffer = audioStream.createBuffer(), audioStream.setDspCallback(...).
CreateBuffer ==
    /\ Step("dsp", "buffer", IF audioStream THEN "track" ELSE "dead")
    /\ UNCHANGED <<fields, streams, pool, locals, op, history>>

\* setupAudioTrack(): look at track, ask the stream for its buffer size ...
CheckTrack ==
    /\ Step("dsp", "track", IF track # "null" THEN "reset"
                            ELSE IF audioStream THEN "newTrack" ELSE "dead")
    /\ UNCHANGED <<fields, streams, pool, locals, op, history>>

\* ... and create and assign the track.
NewTrack ==
    /\ Step("dsp", "newTrack", "reset")
    /\ track' = "open"
    /\ UNCHANGED <<state, config, callbackTicks, performLen, audioStream>>
    /\ UNCHANGED <<streams, pool, locals, op, history>>

\* A bug: the callback is scheduled before performBuffer is made.
ResetSkipsBuffer ==
    /\ Step("dsp", "reset", "schedule")
    /\ callbackTicks' = 0
    /\ used' = {}
    /\ UNCHANGED <<state, config, performLen, audioStream, track>>
    /\ UNCHANGED <<streams, pool, locals, op, stopped, parked>>

\* resetDsp().
ResetDsp ==
    /\ Step("dsp", "reset", "performBuffer")
    /\ callbackTicks' = 0
    /\ used' = {}
    /\ UNCHANGED <<state, config, performLen, audioStream, track>>
    /\ UNCHANGED <<streams, pool, locals, op, stopped, parked>>

\* A bug: the buffer of the first test is kept for ever.
KeepPerformBuffer ==
    /\ Step("dsp", "performBuffer", "schedule")
    /\ performLen' = IF performLen = 0 THEN Block(config) ELSE performLen
    /\ UNCHANGED <<state, config, callbackTicks, audioStream, track>>
    /\ UNCHANGED <<streams, pool, locals, op, history>>

\* createPerformBuffer().
CreatePerformBuffer ==
    /\ Step("dsp", "performBuffer", "schedule")
    /\ performLen' = Block(config)
    /\ UNCHANGED <<state, config, callbackTicks, audioStream, track>>
    /\ UNCHANGED <<streams, pool, locals, op, history>>

\* scheduleDspCallback() with no stream: the exception ends the thread.
ScheduleNoStream ==
    /\ ~audioStream
    /\ Step("dsp", "schedule", "dead")
    /\ UNCHANGED <<fields, streams, pool, locals, op, history>>

\* WavStream.scheduleDspCallback(): from here the periodic task is live, but
\* dspTask holds it only after the next step.
WavSchedule ==
    /\ audioStream /\ audioSource = "WAV"
    /\ IF dspTask # NoTask
       THEN Step("dsp", "schedule", "play") /\ UNCHANGED <<tasks, newTask>>
       ELSE /\ Step("dsp", "schedule", "assign")
            /\ \E k \in Tasks \ (tasks \cup {firing}) :
                   newTask' = k /\ tasks' = tasks \cup {k}
    /\ UNCHANGED <<fields, streams, posted, firing, ticks, op, history>>

\* dspTask = scheduler.scheduleAtFixedRate(...): the assignment.
WavAssign ==
    /\ Step("dsp", "assign", "play")
    /\ dspTask' = newTask
    /\ newTask' = NoTask
    /\ UNCHANGED <<fields, input, isRunning, toRead, recorder, pool, firing, ticks, op, history>>

\* MicStream.scheduleDspCallback(): a recorder that was released or dropped
\* throws, which ends the thread.
MicSchedule ==
    /\ audioStream /\ audioSource = "MIC"
    /\ IF recorder = "ready"
       THEN Step("dsp", "schedule", "play") /\ recorder' = "recording"
       ELSE Step("dsp", "schedule", "dead") /\ UNCHANGED recorder
    /\ UNCHANGED <<fields, input, isRunning, toRead, dspTask, pool, locals, op, history>>

\* track.play().
Play ==
    /\ Step("dsp", "play", IF track = "open" THEN "enter" ELSE "dead")
    /\ UNCHANGED <<fields, streams, pool, locals, op, history>>

\* audioStream.readLoop(buffer).
Enter ==
    /\ Step("dsp", "enter", IF ~audioStream THEN "dead"
                            ELSE IF audioSource = "WAV" THEN "rlStart" ELSE "rlRead")
    /\ UNCHANGED <<fields, streams, pool, locals, op, history>>

\* A bug: the 44 bytes of the header counted as 44 shorts.
UnderflowsInBytes(block) == 2 * block < 44

\* The PCM buffer loses the header's 22 shorts and has two spare blocks, so the
\* last block of a full read is short when two blocks are less than 22 shorts.
Underflows(block) == 2 * block < 22

\* How the first reading of the file may end: with an exception when the blocks
\* do not fit, and either way (it depends on the file) when the block size was
\* changed after the buffers were made.
ReadEnds ==
    IF toRead = 0 THEN {"rlSpin"}
    ELSE IF toRead # Block(config) THEN {"rlSpin", "dead"}
    ELSE IF Underflows(toRead) THEN {"dead"} ELSE {"rlSpin"}

\* A bug: readLoop() without its waiting loop.
WavReadAllQuits ==
    /\ Step("dsp", "rlStart", "top")
    /\ isRunning' = TRUE
    /\ toRead' = 0
    /\ UNCHANGED <<fields, input, dspTask, recorder, pool, locals, op, history>>

\* WavStream.readLoop(), up to its waiting loop: the file is read once.
WavReadAll ==
    /\ \E end \in ReadEnds : Step("dsp", "rlStart", end)
    /\ isRunning' = TRUE
    /\ toRead' = 0
    /\ UNCHANGED <<fields, input, dspTask, recorder, pool, locals, op, history>>

\* while (isRunning) Thread.sleep(100), seen to end.
WavReadEnd ==
    /\ ~isRunning
    /\ Step("dsp", "rlSpin", "top")
    /\ UNCHANGED <<fields, streams, pool, locals, op, history>>

\* MicStream.readLoop(): look at isRunning and at recorder ...
MicReadTest ==
    /\ Step("dsp", "rlRead", IF ~isRunning THEN "top"
                             ELSE IF recorder # "null" THEN "rlDeref" ELSE "rlRead")
    /\ UNCHANGED <<fields, streams, pool, locals, op, history>>

\* ... and read a block from it.
MicRead ==
    /\ Step("dsp", "rlDeref", IF recorder # "null" THEN "rlRead" ELSE "dead")
    /\ UNCHANGED <<fields, streams, pool, locals, op, history>>

DspStep ==
    \/ Top \/ Wake \/ Setup \/ CreateBuffer \/ CheckTrack \/ NewTrack
    \/ ResetDsp \/ CreatePerformBuffer
    \/ ScheduleNoStream \/ WavSchedule \/ WavAssign \/ MicSchedule
    \/ Play \/ Enter \/ WavReadAll \/ WavReadEnd \/ MicReadTest \/ MicRead

-----------------------------------------------------------------------------
(* Returning and throwing *)

\* The method ends, normally.
Return(t) ==
    /\ Goto(t, Rest(t))
    /\ firing' = IF t = "cb" THEN NoTask ELSE firing

\* The method goes on at a label.
Continue(t, label) == Goto(t, label) /\ UNCHANGED firing

\* An exception leaves the method.  In the pool's thread the executor keeps it
\* and runs that periodic task no more; on a looper or in a client nothing
\* catches it.
Throw(t) ==
    IF t = "cb" /\ audioSource = "WAV"
    THEN Return(t) /\ tasks' = tasks \ {firing}
    ELSE Continue(IF t = "cb" THEN Owner ELSE t, "crashed") /\ UNCHANGED tasks

-----------------------------------------------------------------------------
(* The callback: DspPerformCallback.run() *)

\* A period of a live task has passed and the pool's one thread is free.
FireTask ==
    /\ audioSource = "WAV"
    /\ callbackTicks < TickCap
    /\ Step("cb", "idle", "tick")
    /\ \E k \in tasks : firing' = k
    /\ UNCHANGED <<fields, streams, pool, newTask, ticks, op, history>>

\* The recorder has filled a block and queues a notification on the main looper.
PostPeriod ==
    /\ recorder = "recording"
    /\ posted' = TRUE
    /\ UNCHANGED <<fields, streams, tasks, locals, pc, op, history>>

\* The main looper delivers it: the Owner's thread is then in the callback.
DeliverPeriod ==
    /\ posted
    /\ callbackTicks < TickCap
    /\ pc[Owner] = "free"
    /\ Step("cb", "idle", "tick")
    /\ posted' = FALSE
    /\ UNCHANGED <<fields, streams, tasks, locals, op, history>>

\* callbackTicks++ reads the field ...
Tick ==
    /\ Step("cb", "tick", "count")
    /\ ticks' = callbackTicks
    /\ UNCHANGED <<fields, streams, pool, newTask, firing, op, history>>

\* ... and writes it.
Count ==
    /\ Step("cb", "count", "convert")
    /\ callbackTicks' = ticks + 1
    /\ ticks' = 0
    /\ UNCHANGED <<state, config, performLen, audioStream, track>>
    /\ UNCHANGED <<streams, pool, newTask, firing, op, history>>

\* The conversions run over blockSize samples, so they overrun a performBuffer
\* made for a smaller block.
Overruns == performLen < Block(config)

\* PCM to doubles.
Convert ==
    /\ pc["cb"] = "convert"
    /\ IF Overruns THEN Throw("cb") ELSE Continue("cb", "perform") /\ UNCHANGED tasks
    /\ UNCHANGED <<fields, streams, posted, newTask, ticks, op, history>>

\* dspAlgorithm.perform(performBuffer): any length of time.
Perform ==
    /\ Step("cb", "perform", "write")
    /\ used' = used \cup {config}
    /\ UNCHANGED <<fields, streams, pool, locals, op, stopped, parked>>

\* Doubles to PCM, and the look at track.
Write ==
    /\ pc["cb"] = "write"
    /\ IF Overruns THEN Throw("cb")
       ELSE Continue("cb", IF track # "null" THEN "writeDeref" ELSE "last") /\ UNCHANGED tasks
    /\ UNCHANGED <<fields, streams, posted, newTask, ticks, op, history>>

\* track.write(...): a released track returns an error, a null one throws.
WriteTrack ==
    /\ pc["cb"] = "writeDeref"
    /\ IF track = "null" THEN Throw("cb") ELSE Continue("cb", "last") /\ UNCHANGED tasks
    /\ UNCHANGED <<fields, streams, posted, newTask, ticks, op, history>>

\* A bug: one cycle too many.
LastAfterMax ==
    /\ pc["cb"] = "last"
    /\ IF callbackTicks = MaxDspCycles + 1
       THEN Continue("cb", "suspend") /\ op' = [op EXCEPT !["cb"] = "suspend"]
       ELSE Return("cb") /\ UNCHANGED op
    /\ UNCHANGED <<fields, streams, pool, newTask, ticks, history>>

\* Stop if the maximum of DSP cycles is reached.
Last ==
    /\ pc["cb"] = "last"
    /\ IF callbackTicks = MaxDspCycles
       THEN Continue("cb", "suspend") /\ op' = [op EXCEPT !["cb"] = "suspend"]
       ELSE Return("cb") /\ UNCHANGED op
    /\ UNCHANGED <<fields, streams, pool, newTask, ticks, history>>

CbStep == Tick \/ Count \/ Convert \/ Perform \/ Write \/ WriteTrack \/ Last

-----------------------------------------------------------------------------
(* suspendDsp(), stopDspThread() and the stopRunning() both call *)

\* state = STATE_SUSPENDED.
SuspendState(t) ==
    /\ Step(t, "suspend", "stream")
    /\ state' = "SUSPENDED"
    /\ UNCHANGED <<config, callbackTicks, performLen, audioStream, track>>
    /\ UNCHANGED <<streams, pool, locals, op, history>>

\* audioStream.stopRunning(): the field may be null.
SuspendStream(t) ==
    /\ pc[t] = "stream"
    /\ IF audioStream THEN Continue(t, "stop1") /\ UNCHANGED tasks ELSE Throw(t)
    /\ UNCHANGED <<fields, streams, posted, newTask, ticks, op, history>>

\* A bug: suspendDsp() gives the stream back, as stopDspThread() does.
StopReturnForgets(t) == Continue(t, "forget")

\* stopRunning() ends: suspendDsp() is over, releaseIO() goes on.
StopReturn(t) == IF op[t] = "stop" THEN Continue(t, "forget") ELSE Return(t)

\* WavStream.stopRunning(): isRunning = false.
WavStopFlag(t) ==
    /\ audioSource = "WAV"
    /\ Step(t, "stop1", "stop2")
    /\ isRunning' = FALSE
    /\ UNCHANGED <<fields, input, toRead, dspTask, recorder, pool, locals, op, history>>

\* if (dspTask != null)
WavStopTest(t) ==
    /\ audioSource = "WAV"
    /\ pc[t] = "stop2"
    /\ IF dspTask = NoTask THEN StopReturn(t) ELSE Continue(t, "stop3")
    /\ UNCHANGED <<fields, streams, pool, newTask, ticks, op, history>>

\* A bug: the task is forgotten and not cancelled.
WavStopNoCancel(t) ==
    /\ audioSource = "WAV"
    /\ Step(t, "stop3", "stop4")
    /\ UNCHANGED <<fields, streams, pool, locals, op, history>>

\* dspTask.cancel(false): the run that is under way is not disturbed.
WavStopCancel(t) ==
    /\ audioSource = "WAV"
    /\ pc[t] = "stop3"
    /\ IF dspTask = NoTask THEN Throw(t)
       ELSE Continue(t, "stop4") /\ tasks' = tasks \ {dspTask}
    /\ UNCHANGED <<fields, streams, posted, newTask, ticks, op, history>>

\* dspTask = null.
WavStopClear(t) ==
    /\ audioSource = "WAV"
    /\ pc[t] = "stop4"
    /\ StopReturn(t)
    /\ dspTask' = NoTask
    /\ UNCHANGED <<fields, input, isRunning, toRead, recorder, pool, newTask, ticks, op, history>>

\* MicStream.stopRunning(): recorder.stop(), recorder.release().
MicStopRelease(t) ==
    /\ audioSource = "MIC"
    /\ pc[t] = "stop1"
    /\ IF recorder \in {"ready", "recording"}
       THEN Continue(t, "stop2") /\ recorder' = "released" /\ UNCHANGED tasks
       ELSE Throw(t) /\ UNCHANGED recorder
    /\ UNCHANGED <<fields, input, isRunning, toRead, dspTask, posted, newTask, ticks, op, history>>

\* recorder = null.
MicStopDrop(t) ==
    /\ audioSource = "MIC"
    /\ Step(t, "stop2", "stop3")
    /\ recorder' = "null"
    /\ UNCHANGED <<fields, input, isRunning, toRead, dspTask, pool, locals, op, history>>

\* isRunning = false.
MicStopFlag(t) ==
    /\ audioSource = "MIC"
    /\ pc[t] = "stop3"
    /\ StopReturn(t)
    /\ isRunning' = FALSE
    /\ UNCHANGED <<fields, input, toRead, dspTask, recorder, pool, newTask, ticks, op, history>>

SuspendStep(t) ==
    \/ SuspendState(t) \/ SuspendStream(t)
    \/ WavStopFlag(t) \/ WavStopTest(t) \/ WavStopCancel(t) \/ WavStopClear(t)
    \/ MicStopRelease(t) \/ MicStopDrop(t) \/ MicStopFlag(t)

\* A bug: stopDspThread() releases the I/O and leaves state as it is.
StopKeepsState ==
    /\ Step(Owner, "stop", "release")
    /\ stopped' = TRUE
    /\ parked' = (pc["dsp"] \in Parked)
    /\ UNCHANGED <<fields, streams, pool, locals, op, used>>

\* stopDspThread(): state = STATE_STOPPED.
StopState ==
    /\ Step(Owner, "stop", "release")
    /\ state' = "STOPPED"
    /\ stopped' = TRUE
    /\ parked' = (pc["dsp"] \in Parked)
    /\ UNCHANGED <<config, callbackTicks, performLen, audioStream, track>>
    /\ UNCHANGED <<streams, pool, locals, op, used>>

\* A bug: releaseIO() without the look at audioStream.
ReleaseUnchecked ==
    /\ Step(Owner, "release", "stream")
    /\ UNCHANGED <<fields, streams, pool, locals, op, history>>

\* releaseIO(): if (audioStream != null) audioStream.stopRunning().
Release ==
    /\ Step(Owner, "release", IF audioStream THEN "stop1" ELSE "relTrack")
    /\ UNCHANGED <<fields, streams, pool, locals, op, history>>

\* audioStream = null.
ForgetStream ==
    /\ Step(Owner, "forget", "relTrack")
    /\ audioStream' = FALSE
    /\ UNCHANGED <<state, config, callbackTicks, performLen, track>>
    /\ UNCHANGED <<streams, pool, locals, op, history>>

\* if (track != null) track.stop(), track.release().
ReleaseTrack ==
    /\ pc[Owner] = "relTrack"
    /\ IF track = "null" THEN Return(Owner) /\ UNCHANGED track
       ELSE Continue(Owner, "dropTrack") /\ track' = "released"
    /\ UNCHANGED <<state, config, callbackTicks, performLen, audioStream>>
    /\ UNCHANGED <<streams, pool, newTask, ticks, op, history>>

\* track = null.
DropTrack ==
    /\ pc[Owner] = "dropTrack"
    /\ Return(Owner)
    /\ track' = "null"
    /\ UNCHANGED <<state, config, callbackTicks, performLen, audioStream>>
    /\ UNCHANGED <<streams, pool, newTask, ticks, op, history>>

StopStep == StopState \/ Release \/ ForgetStream \/ ReleaseTrack \/ DropTrack

-----------------------------------------------------------------------------
(* What a client may call *)

\* With a microphone the callback runs on the Owner's thread, one at a time.
Free(c) == pc[c] = "free" /\ (c = Owner /\ audioSource = "MIC" => pc["cb"] = "idle")

\* setBlockSize(), setAlgorithm(), setStressParameter(), setMaxDspCycles().
Configure(c) ==
    /\ Free(Owner)
    /\ config' = c
    /\ UNCHANGED <<state, callbackTicks, performLen, audioStream, track>>
    /\ UNCHANGED <<streams, pool, locals, pc, op, history>>

\* resumeDsp().
Resume ==
    /\ Free(Owner)
    /\ state' = "PROCESSING"
    /\ UNCHANGED <<config, callbackTicks, performLen, audioStream, track>>
    /\ UNCHANGED <<streams, pool, locals, pc, op, history>>

\* suspendDsp() begins.
BeginSuspend(t) ==
    /\ Free(t)
    /\ Goto(t, "suspend")
    /\ op' = [op EXCEPT ![t] = "suspend"]
    /\ UNCHANGED <<fields, streams, pool, locals, history>>

\* stopDspThread() begins.
BeginStop ==
    /\ Free(Owner)
    /\ Goto(Owner, "stop")
    /\ op' = [op EXCEPT ![Owner] = "stop"]
    /\ UNCHANGED <<fields, streams, pool, locals, history>>

\* The calls of the most general application that keeps the Owner's rules: no
\* call of its own after the stop, and a microphone stream (which stopRunning()
\* uses up) is resumed once and never suspended.
Calls ==
    \/ ~stopped /\ \/ \E c \in Configs : Configure(c)
                   \/ (audioSource = "MIC" => input = "fresh") /\ Resume
                   \/ audioSource = "WAV" /\ BeginSuspend(Owner)
                   \/ BeginStop
    \/ audioSource = "WAV" /\ \E c \in Clients \ {Owner} : BeginSuspend(c)

\* What every step of the process keeps to.
Running == Alive /\ UNCHANGED audioSource

ClientStep == StopStep \/ \E c \in Clients : SuspendStep(c)

Next ==
    /\ Running
    /\ \/ DspStep
       \/ FireTask \/ PostPeriod \/ DeliverPeriod
       \/ CbStep \/ SuspendStep("cb")
       \/ ClientStep
       \/ Calls

\* A thread that can run does; periods pass and messages are delivered.  What
\* the clients call, and whether they call, is up to them.
Fairness ==
    /\ WF_vars(Running /\ DspStep)
    /\ WF_vars(Running /\ (CbStep \/ SuspendStep("cb")))
    /\ WF_vars(Running /\ StopStep)
    /\ \A c \in Clients : WF_vars(Running /\ SuspendStep(c))

Spec == Init /\ [][Next]_vars /\ Fairness

-----------------------------------------------------------------------------
(* Properties *)

\* The Owner has let go of the object.
Over == stopped /\ pc[Owner] = "free"

\* A stop that finds the DSP thread in one of its waiting places ends with the
\* stream and the track released and dropped, whatever the callback and the
\* other clients are doing, and the thread never goes for them again.
ParkedStopReleases ==
    stopped /\ parked =>
        /\ pc["dsp"] \in Parked
        /\ state # "PROCESSING"
        /\ Over => ~audioStream /\ track = "null" /\ recorder = "null"

\* A callback runs only when a stream was made and performBuffer exists.
CallbackAfterSetup ==
    pc["cb"] # "idle" => input = "consumed" /\ performLen > 0

=============================================================================

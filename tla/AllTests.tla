------------------------------ MODULE AllTests ------------------------------
(***************************************************************************)
(* A run of all the tests (activities/AllTestsActivity.java): the control   *)
(* thread, the main looper with its messages, replies, dialog and "back",   *)
(* and the one DSP thread both use.  Client "ui" is the looper's thread and *)
(* owns the DspThread; client "ctl" is TestControlThread.                   *)
(*                                                                         *)
(* The threads are kept apart by sleeps and polls, never by locks.  With    *)
(* Prompt = TRUE a sleep is long enough for whatever the other threads had  *)
(* begun; with FALSE nothing is assumed of time.                            *)
(***************************************************************************)
EXTENDS DspThread, StressSearch, TestUnits

CONSTANTS
    TableAlgs,          \* the algorithms with a table of oscillators ...
    Tables,             \* ... and its length: 1024
    MayAbort,           \* whether the user may press "back" and confirm
    Prompt              \* the timing assumption

\* A configuration: what the messages carry.  Phase 1 has no stress parameter.
Config(alg, block, stress) == [alg |-> alg, block |-> block, stress |-> stress]

ASSUME TestsAssumption ==
    /\ Clients = {"ui", "ctl"} /\ Owner = "ui" /\ Sources = {"WAV"}
    /\ Tables \in Nat /\ MayAbort \in BOOLEAN /\ Prompt \in BOOLEAN
    /\ \A i \in 1..UnitCount, s \in 0..MaxParam : Config(AlgOf(i), BlockOf(i), s) \in Configs

VARIABLES
    ctl,        \* the control thread's place in run()
    unit,       \* the unit its loops are at
    search,     \* the locals of phase 2
    running,    \* controlThreadRunning
    done,       \* messageHandlerTaskDone
    queue,      \* the main looper's messages and replies
    ui,         \* the place of the looper's thread in what it handles
    replying,   \* whether that is a message (answered) or a click (not)
    inputStream,\* whether AllTestsActivity.inputStream still holds the open file
    dt,         \* whether AllTestsActivity.dt holds the DspThread
    dialog,     \* the confirmation dialog is on the screen
    checked,    \* toggleTestsButton.isChecked()
    results,    \* the rows stored, with what they describe
    launched    \* history: a test was launched since the last row was stored

ctlVars == <<ctl, unit, search, running, done>>
screenVars == <<dialog, checked>>
uiVars == <<ui, replying, inputStream, dt, screenVars, results, launched>>
testVars == <<vars, ctlVars, queue, uiVars>>

CtlLabels ==
    {"start", "head", "probe", "launch", "wait", "look", "judge", "measure", "release", "sleep", "again",
     "store", "tail", "screen", "finish", "over",
     "afterLaunch", "afterRelease", "afterStore", "afterFinish"}

UiLabels ==
    {"looper", "resume", "close", "quit", "suspend", "sleep", "stop", "drop", "reply"}

Actions == {"launch", "release", "store", "finish", "reply"}

Rows == [unit : 1..UnitCount, stress : Nat, config : Configs, ticks : 0..TickCap,
         used : SUBSET Configs]

TestsTypeOK ==
    /\ TypeOK
    /\ ctl \in CtlLabels
    /\ unit \in 1..(UnitCount + 1)
    /\ search \in Searches
    /\ running \in BOOLEAN
    /\ done \in BOOLEAN
    /\ \A i \in 1..Len(queue) : queue[i].action \in Actions
    /\ ui \in UiLabels
    /\ replying \in BOOLEAN
    /\ inputStream \in BOOLEAN
    /\ dt \in BOOLEAN /\ dialog \in BOOLEAN /\ checked \in BOOLEAN
    /\ \A i \in 1..Len(results) : results[i] \in Rows
    /\ launched \in BOOLEAN

\* setupTests() and startControlThread().
TestsInit ==
    /\ Init
    /\ config = Config("LOOPBACK", BlockSizes[1], 0)
    /\ ctl = "start"
    /\ unit = 1
    /\ search = Fresh
    /\ running = FALSE
    /\ done = FALSE
    /\ queue = <<>>
    /\ ui = "looper"
    /\ replying = FALSE
    /\ inputStream = TRUE
    /\ dt = TRUE
    /\ dialog = FALSE
    /\ checked = TRUE
    /\ results = <<>>
    /\ launched = FALSE

-----------------------------------------------------------------------------
(* TestControlThread *)

CtlGoto(from, to) == ctl = from /\ ctl' = to

\* controlThreadRunning = true, by the thread itself.
CtlStart ==
    /\ CtlGoto("start", "head")
    /\ running' = TRUE
    /\ UNCHANGED <<vars, unit, search, done, queue, uiVars>>

\* The heads of the loops: the next unit of phase 1, or of phase 2 with a fresh
\* search, or the end.
CtlHead ==
    /\ ctl = "head"
    /\ IF unit > UnitCount THEN ctl' = "screen" /\ UNCHANGED search
       ELSE IF InPhase2(unit) THEN ctl' = "probe" /\ search' = Fresh
       ELSE ctl' = "launch" /\ UNCHANGED search
    /\ UNCHANGED <<vars, unit, running, done, queue, uiVars>>

\* while (m < M-1): choose the next parameter.
CtlProbe ==
    /\ ctl = "probe"
    /\ IF Searching(search) THEN ctl' = "launch" /\ search' = Probed(search)
                            ELSE ctl' = "store" /\ UNCHANGED search
    /\ UNCHANGED <<vars, unit, running, done, queue, uiVars>>

\* A bug: the flag of the message before is left set.
SendKeepsFlag(from, to, msg) ==
    /\ CtlGoto(from, to)
    /\ running
    /\ queue' = Append(queue, msg)
    /\ UNCHANGED <<vars, unit, search, running, done, uiVars>>

\* sendMessage(): clear the flag and post; the next label waits for the reply.
Send(from, to, msg) ==
    /\ CtlGoto(from, to)
    /\ running
    /\ done' = FALSE
    /\ queue' = Append(queue, msg)
    /\ UNCHANGED <<vars, unit, search, running, uiVars>>

\* if (controlThreadRunning), and it is not.
Skip(from, to) ==
    /\ CtlGoto(from, to)
    /\ ~running
    /\ UNCHANGED <<vars, unit, search, running, done, queue, uiVars>>

\* The poll of messageHandlerTaskDone ends.
Await(from, to) ==
    /\ CtlGoto(from, to)
    /\ done
    /\ UNCHANGED <<vars, unit, search, running, done, queue, uiVars>>

\* The control thread polls for the answer to a message.
Awaiting == ctl \in {"afterLaunch", "afterRelease", "afterStore", "afterFinish"}

CurrentConfig ==
    Config(AlgOf(unit), BlockOf(unit), IF InPhase2(unit) THEN search.stressParam ELSE 0)

CtlLaunch ==
    \/ Send("launch", "afterLaunch", [action |-> "launch", config |-> CurrentConfig])
    \/ Skip("launch", "wait")
    \/ Await("afterLaunch", "wait")

WaitExit == IF InPhase2(unit) THEN "judge" ELSE "release"

\* A bug: the loop's condition looks at the state alone.
CtlWaitBlind ==
    /\ CtlGoto("wait", "look")
    /\ UNCHANGED <<vars, unit, search, running, done, queue, uiVars>>

\* The loop's condition looks at controlThreadRunning ...
CtlWait ==
    /\ ctl = "wait"
    /\ ctl' = IF running THEN "look" ELSE WaitExit
    /\ UNCHANGED <<vars, unit, search, running, done, queue, uiVars>>

\* ... and, through dt, at the state of the DSP thread.  The callback that
\* suspended it may still be on its way through suspendDsp().
CtlSeesSuspended ==
    /\ CtlGoto("look", WaitExit)
    /\ dt /\ state = "SUSPENDED"
    /\ UNCHANGED <<vars, unit, search, running, done, queue, uiVars>>

\* A bug: the wait ends whatever the state is.
CtlGivesUp ==
    /\ CtlGoto("look", WaitExit)
    /\ dt /\ state # "SUSPENDED"
    /\ UNCHANGED <<vars, unit, search, running, done, queue, uiVars>>

\* Still busy: look again after a second.
CtlSeesBusy ==
    /\ CtlGoto("look", "wait")
    /\ dt /\ state # "SUSPENDED"
    /\ UNCHANGED <<vars, unit, search, running, done, queue, uiVars>>

\* Phase 2 breaks off a test that is too slow and has run more cycles than it
\* should have: whether it is too slow is up to the device.
CtlBreaksOff ==
    /\ CtlGoto("look", "wait")
    /\ InPhase2(unit)
    /\ dt /\ state # "SUSPENDED"
    /\ callbackTicks > MaxDspCycles
    /\ BeginSuspend("ctl")
    /\ UNCHANGED <<audioSource, unit, search, running, done, queue, uiVars>>

\* dt is a field of the activity, which may have dropped the object.
CtlNoThread ==
    /\ ctl \in {"look", "measure"}
    /\ ~dt
    /\ Goto("ctl", "crashed")
    /\ UNCHANGED <<audioSource, fields, streams, pool, locals, op, history>>
    /\ UNCHANGED <<ctlVars, queue, uiVars>>

\* A search that is being stopped judges its last test as failed ...
CtlJudge ==
    /\ ctl = "judge"
    /\ IF running THEN ctl' = "measure" /\ UNCHANGED search
       ELSE ctl' = "release" /\ search' = Judged(search, FALSE)
    /\ UNCHANGED <<vars, unit, running, done, queue, uiVars>>

\* ... otherwise the mean callback time is compared with the block period, and
\* the outcome is the device's.
CtlMeasure ==
    /\ CtlGoto("measure", "release")
    /\ dt
    /\ \E feasible \in BOOLEAN : search' = Judged(search, feasible)
    /\ UNCHANGED <<vars, unit, running, done, queue, uiVars>>

AfterRelease == IF InPhase2(unit) THEN "again" ELSE "sleep"

\* A sleep is over.  Prompt: so is a callback's suspendDsp().
Slept == Prompt => pc["cb"] \notin SuspendLabels

\* Phase 2 sleeps nowhere between the look and the next launch but in the poll
\* for this reply, a tenth of a second.
CtlRelease ==
    \/ Send("release", "afterRelease", [action |-> "release"])
    \/ Skip("release", AfterRelease)
    \/ Await("afterRelease", AfterRelease) /\ (InPhase2(unit) => Slept)

\* Thread.sleep(1000) of phase 1; the bottom of phase 2's while loop.
CtlSleep ==
    /\ ctl \in {"sleep", "again"}
    /\ ctl = "sleep" => Slept
    /\ ctl' = IF ctl = "again" /\ running THEN "probe" ELSE "store"
    /\ UNCHANGED <<vars, unit, search, running, done, queue, uiVars>>

CtlStore ==
    \/ Send("store", "afterStore",
            [action |-> "store", unit |-> unit,
             stress |-> IF InPhase2(unit) THEN search.m ELSE 0])
    \/ Skip("store", "tail")
    \/ Await("afterStore", "tail")

\* A bug: the inner loop does not step.
CtlTailRepeats ==
    /\ ctl = "tail"
    /\ ctl' = IF running THEN "head" ELSE "screen"
    /\ UNCHANGED <<vars, unit, search, running, done, queue, uiVars>>

\* The bottoms of the loops: the breaks leave the loops of one phase only, so a
\* control thread stopped in phase 1 still goes through the first unit of phase 2.
CtlTail ==
    /\ ctl = "tail"
    /\ IF running
       THEN ctl' = "head" /\ unit' = unit + 1
       ELSE IF InPhase2(unit) THEN ctl' = "screen" /\ UNCHANGED unit
       ELSE ctl' = "head" /\ unit' = Len(Phase1) * Len(BlockSizes) + 1
    /\ UNCHANGED <<vars, search, running, done, queue, uiVars>>

\* updateScreenInfo(null, 0), on a thread that did not make the views: the
\* framework may throw, and the last message is never sent.
CtlScreen ==
    /\ ctl = "screen"
    /\ \/ ctl' = "finish" /\ UNCHANGED vars
       \/ /\ Goto("ctl", "crashed")
          /\ UNCHANGED <<audioSource, fields, streams, pool, locals, op, history, ctl>>
    /\ UNCHANGED <<unit, search, running, done, queue, uiVars>>

CtlFinish ==
    \/ Send("finish", "afterFinish", [action |-> "finish"])
    \/ Skip("finish", "over")
    \/ Await("afterFinish", "over")

CtlStep ==
    /\ pc["ctl"] = "free"
    /\ \/ CtlStart \/ CtlHead \/ CtlProbe \/ CtlLaunch
       \/ CtlWait \/ CtlSeesSuspended \/ CtlSeesBusy \/ CtlBreaksOff \/ CtlNoThread
       \/ CtlJudge \/ CtlMeasure \/ CtlRelease \/ CtlSleep \/ CtlStore \/ CtlTail
       \/ CtlScreen \/ CtlFinish

-----------------------------------------------------------------------------
(* The main looper *)

\* The looper takes its next message: one of the control thread's.
Receive(action) ==
    /\ ui = "looper"
    /\ queue # <<>> /\ Head(queue).action = action
    /\ queue' = Tail(queue)
    /\ replying' = TRUE

\* More oscillators than the table holds: setStressParameter() runs past its end.
Beyond(alg, param) == alg \in TableAlgs /\ param > Tables

\* setAlgorithm() hands on the parameter of the test before, setStressParameter()
\* the new one; nothing catches what either throws.
LaunchThrows(c) == Beyond(c.alg, config.stress) \/ Beyond(c.alg, c.stress)

\* launchTest(): the setters.
UiLaunch ==
    /\ Receive("launch")
    /\ dt
    /\ ~LaunchThrows(Head(queue).config)
    /\ Configure(Head(queue).config)
    /\ launched' = TRUE
    /\ ui' = "resume"
    /\ UNCHANGED <<audioSource, ctlVars, inputStream, dt, screenVars, results>>

\* The setters throw on the looper, which ends the process.
UiLaunchThrows ==
    /\ Receive("launch")
    /\ dt
    /\ LaunchThrows(Head(queue).config)
    /\ Goto("ui", "crashed")
    /\ UNCHANGED <<audioSource, fields, streams, pool, locals, op, history>>
    /\ UNCHANGED <<ctlVars, ui, inputStream, dt, screenVars, results, launched>>

\* launchTest(): dt.resumeDsp().
UiResume ==
    /\ ui = "resume" /\ ui' = "reply"
    /\ Resume
    /\ UNCHANGED <<audioSource, ctlVars, queue, replying, inputStream, dt, screenVars,
                   results, launched>>

\* releaseTest().
UiRelease ==
    /\ Receive("release")
    /\ dt
    /\ BeginSuspend("ui")
    /\ ui' = "reply"
    /\ UNCHANGED <<audioSource, ctlVars, inputStream, dt, screenVars, results, launched>>

\* storeResults(): the row is what the message says and what dt says now.
UiStore ==
    /\ Receive("store")
    /\ dt
    /\ results' = Append(results,
                         [unit |-> Head(queue).unit, stress |-> Head(queue).stress,
                          config |-> config, ticks |-> callbackTicks, used |-> used])
    /\ launched' = FALSE
    /\ ui' = "reply"
    /\ UNCHANGED <<vars, ctlVars, inputStream, dt, screenVars>>

UiFinish ==
    /\ Receive("finish")
    /\ ui' = "close"
    /\ UNCHANGED <<vars, ctlVars, inputStream, dt, screenVars, results, launched>>

\* A message for a DSP thread that was dropped.
UiNoThread ==
    /\ \E action \in {"launch", "release", "store"} : Receive(action)
    /\ ~dt
    /\ Goto("ui", "crashed")
    /\ UNCHANGED <<audioSource, fields, streams, pool, locals, op, history>>
    /\ UNCHANGED <<ctlVars, ui, inputStream, dt, screenVars, results, launched>>

\* The answer is posted on the same looper ...
UiReply ==
    /\ ui = "reply" /\ ui' = "looper"
    /\ queue' = Append(queue, [action |-> "reply"])
    /\ replying' = FALSE
    /\ UNCHANGED <<vars, ctlVars, inputStream, dt, screenVars, results, launched>>

\* ... where cHandler sets messageHandlerTaskDone.
UiDone ==
    /\ ui = "looper"
    /\ queue # <<>> /\ Head(queue).action = "reply"
    /\ queue' = Tail(queue)
    /\ done' = TRUE
    /\ UNCHANGED <<vars, ctl, unit, search, running, uiVars>>

\* finishTests(): close the input stream, once.
UiClose ==
    /\ ui = "close"
    /\ IF inputStream
       THEN ui' = "quit" /\ inputStream' = FALSE /\ input' = "consumed" /\ UNCHANGED pc
       ELSE Goto("ui", "crashed") /\ UNCHANGED <<ui, inputStream, input>>
    /\ UNCHANGED <<audioSource, fields, isRunning, toRead, dspTask, recorder, pool, locals, op,
                   history>>
    /\ UNCHANGED <<ctlVars, queue, replying, dt, screenVars, results, launched>>

\* finishTests(): mt.stopControlThread().
UiQuit ==
    /\ ui = "quit" /\ ui' = "suspend"
    /\ running' = FALSE
    /\ UNCHANGED <<vars, ctl, unit, search, done, queue, replying, inputStream, dt,
                   screenVars, results, launched>>

\* finishTests(): dt.suspendDsp().
UiSuspend ==
    /\ ui = "suspend" /\ ui' = "sleep"
    /\ BeginSuspend("ui")
    /\ UNCHANGED <<audioSource, ctlVars, queue, replying, inputStream, dt, screenVars,
                   results, launched>>

\* What a promptly scheduled process has reached when nothing is asked of it: the
\* DSP thread waits, no callback runs, and the control thread, told to stop, is
\* through its loops, in phase 1's sleep of a second, or polls for an answer that
\* the looper, asleep itself, cannot give.
Settled ==
    /\ pc["dsp"] \in {"top", "asleep", "dead"} \/ (pc["dsp"] = "rlSpin" /\ isRunning)
    /\ pc["cb"] = "idle"
    /\ ctl \in {"sleep", "over"} \/ (Awaiting /\ ~done)

\* finishTests(): Thread.sleep(2000).
UiSleep ==
    /\ ui = "sleep" /\ ui' = "stop"
    /\ Prompt => Settled
    /\ UNCHANGED <<vars, ctlVars, queue, replying, inputStream, dt, screenVars,
                   results, launched>>

\* releaseDspThread(): dt.stopDspThread() ...
UiStop ==
    /\ ui = "stop" /\ ui' = "drop"
    /\ BeginStop
    /\ UNCHANGED <<audioSource, ctlVars, queue, replying, inputStream, dt, screenVars,
                   results, launched>>

\* ... dt = null, and the rest of finishTests().
UiDrop ==
    /\ ui = "drop"
    /\ ui' = IF replying THEN "reply" ELSE "looper"
    /\ dt' = FALSE
    /\ checked' = ~checked
    /\ UNCHANGED <<vars, ctlVars, queue, replying, inputStream, dialog, results, launched>>

UiStep ==
    /\ pc["ui"] = "free"
    /\ \/ UiLaunch \/ UiLaunchThrows \/ UiResume \/ UiRelease \/ UiStore \/ UiFinish \/ UiNoThread
       \/ UiReply \/ UiDone
       \/ UiClose \/ UiQuit \/ UiSuspend \/ UiSleep \/ UiStop \/ UiDrop

\* onBackPressed() while the tests run.
BackPressed ==
    /\ MayAbort
    /\ ui = "looper" /\ checked /\ ~dialog
    /\ dialog' = TRUE
    /\ UNCHANGED <<vars, ctlVars, queue, ui, replying, inputStream, dt, checked, results,
                   launched>>

\* The dialog's "no", and its "yes": finishTests(0).  Prompt: by the time the user
\* has read and answered it the control thread has started.
DialogNo ==
    /\ ui = "looper" /\ dialog
    /\ dialog' = FALSE
    /\ UNCHANGED <<vars, ctlVars, queue, ui, replying, inputStream, dt, checked, results,
                   launched>>

DialogYes ==
    /\ ui = "looper" /\ dialog
    /\ Prompt => ctl # "start"
    /\ dialog' = FALSE
    /\ ui' = "close"
    /\ UNCHANGED <<vars, ctlVars, queue, replying, inputStream, dt, checked, results, launched>>

-----------------------------------------------------------------------------

\* A period passes.  Prompt: the last callback of a test comes when the DSP thread
\* has long been waiting.
TaskFires ==
    FireTask /\ (Prompt /\ callbackTicks + 1 = MaxDspCycles => pc["dsp"] = "rlSpin")

\* The threads of DspThread, and the rest of a client's call under way.
ThreadStep ==
    \/ DspStep \/ TaskFires
    \/ CbStep \/ SuspendStep("cb")
    \/ ClientStep

TestsNext ==
    /\ Running
    /\ \/ ThreadStep /\ UNCHANGED <<ctlVars, queue, uiVars>>
       \/ CtlStep
       \/ UiStep
       \/ BackPressed \/ DialogNo \/ DialogYes

TestsSpec ==
    /\ TestsInit /\ [][TestsNext]_testVars
    /\ Fairness
    /\ WF_vars(Running /\ TaskFires)
    /\ WF_testVars(Running /\ CtlStep)
    /\ WF_testVars(Running /\ UiStep)

-----------------------------------------------------------------------------
(* Properties that hold whatever the timing *)

\* The control thread and the looper talk in turns: at most one message or reply
\* exists, and it exists exactly while the control thread waits for it and the
\* flag is clear.  So no reply is lost, doubled or taken for a later one's.
Handshake ==
    /\ Len(queue) + (IF replying THEN 1 ELSE 0) = (IF Awaiting /\ ~done THEN 1 ELSE 0)
    /\ replying => queue = <<>>

\* The rows are those of the plan's first units, each once and in order.
RowsInOrder == \A i \in 1..Len(results) : results[i].unit = i

\* The run as the class comment tells it.
Plan == INSTANCE TestPlan WITH
            Units <- UnitCount, stored <- Len(results), tested <- launched, ended <- ~dt

ImplementsPlan == Plan!Spec

-----------------------------------------------------------------------------
(* Properties that the sleeps and polls are there for *)

\* A row's statistics are those of one test: all of its cycles were counted and
\* ran with one configuration, which is the unit's.  In phase 2 that is the
\* search's last test, which need not be the one of the parameter the row names:
\* it had that parameter or, when it failed, the next.
RowsFaithful ==
    \A i \in 1..Len(results) :
        LET row == results[i] IN
        /\ row.ticks = MaxDspCycles
        /\ row.used = {row.config}
        /\ row.config.alg = AlgOf(row.unit)
        /\ row.config.block = BlockOf(row.unit)
        /\ row.config.stress \in {row.stress}
               \cup (IF InPhase2(row.unit) THEN {row.stress + 1} ELSE {})

\* A test is configured only while no callback runs and none is scheduled.
ConfiguredAtRest == [][config' # config => tasks = {} /\ pc["cb"] = "idle"]_testVars

\* The tests never run more cycles than setMaxDspCycles() allowed.
WithinMaxCycles == callbackTicks <= MaxDspCycles

\* What throws, and when.  The DSP thread, whose end would leave the control thread
\* waiting for ever, never ends but by being stopped; the control thread throws at
\* most when it touches the screen; the looper throws at a launch past the end of the
\* table, and where releaseTest() overlaps the callback's own suspendDsp() and finds
\* the task gone between its look and its cancel.
OnlyKnownThrows ==
    /\ pc["dsp"] = "dead" => state = "STOPPED"
    /\ pc["ctl"] = "crashed" => ctl = "screen"
    /\ pc["ui"] = "crashed" =>
           \/ ctl = "afterLaunch" /\ LaunchThrows(CurrentConfig)
           \/ ctl = "afterRelease" /\ audioStream /\ dspTask = NoTask

\* Every periodic task can be cancelled: the stream holds it, or is about to.
TasksHeld == tasks \subseteq {dspTask, newTask}

\* All units are tested and stored, unless one of the looper's throws ends the
\* process (see OnlyKnownThrows) ...
AllStored == <>(Len(results) = UnitCount \/ pc["ui"] = "crashed")

\* ... and then, unless the last screen update throws, the DSP thread is dead with
\* its stream, its track and its periodic task gone.
CleanEnd == <>[](\/ ~Alive
                 \/ /\ pc["dsp"] = "dead" /\ pc["cb"] = "idle" /\ ctl = "over"
                    /\ ~audioStream /\ track = "null" /\ tasks = {})

\* Breaking the tests off, at whatever moment, gives back the stream, the track
\* and the periodic task for good, and ends the control thread, unless the
\* process crashes on the way (see NoUseAfterDrop).  The DSP thread itself may
\* go on looking at state once a second: a last callback's suspendDsp() can
\* overwrite STATE_STOPPED.
AbortReleases ==
    [](~dt => <>[](\/ ~Alive
                   \/ /\ pc["dsp"] \in {"top", "asleep", "dead"} /\ pc["cb"] = "idle"
                      /\ ctl = "over"
                      /\ ~audioStream /\ track = "null" /\ tasks = {}))

\* What throws when the tests may be broken off.  The control thread never looks at a
\* DSP thread that was dropped, and throws at most when it touches the screen.  While
\* the looper still holds the DSP thread, finishTests() adds two places to those of
\* OnlyKnownThrows: its suspendDsp() before the first test has opened a stream, and
\* either of its stopRunning() calls where the callback's own overtakes it.
AbortThrows ==
    /\ pc["ctl"] = "crashed" => ctl = "screen"
    /\ pc["ui"] = "crashed" /\ dt =>
           \/ ctl = "afterLaunch" /\ LaunchThrows(CurrentConfig)
           \/ audioStream /\ dspTask = NoTask
           \/ ui = "sleep" /\ ~audioStream /\ results = <<>>

-----------------------------------------------------------------------------
(* What a comment of the code says and its steps do not keep *)

\* "wait for eventual DSP thread pollings to occur before releasing the DSP thread":
\* the looper handles no message for the DSP thread it has dropped.  The sleep is on
\* the looper itself, so a message posted before the stop is handled only after it.
NoUseAfterDrop == ~dt => pc["ui"] # "crashed"
=============================================================================

----------------------------- MODULE LiveProofs ------------------------------
(***************************************************************************)
(* A session of the live screen, for every block size, either source and     *)
(* any number of periodic tasks: nothing throws on the UI thread, and the    *)
(* DSP thread lives until it is stopped.                                     *)
(*                                                                         *)
(* A session is a behaviour of DspThread's most general clients, so what is  *)
(* proved of those holds of it.  What it adds is that its thread goes        *)
(* through its setup once.                                                   *)
(***************************************************************************)
EXTENDS LiveSession, DspProofs

\* Nothing of the callback exists.
Quiet ==
    /\ pc["cb"] = "idle" /\ tasks = {} /\ ~posted
    /\ recorder # "recording"
    /\ dspTask = NoTask /\ newTask = NoTask

\* Nothing was opened.
Untouched ==
    /\ Quiet
    /\ input = "fresh" /\ ~audioStream /\ track = "null" /\ performLen = 0

\* What the user has done, and what the thread's state says of it.
SessionInv ==
    /\ session \in {"on", "running", "off"}
    /\ session = "on" => /\ state = "SUSPENDED" /\ pc[Owner] = "free"
                         /\ pc["dsp"] \in {"top", "asleep"}
    /\ session = "running" => state = "PROCESSING" /\ pc[Owner] = "free"
    /\ session = "off" => stopped \/ (pc[Owner] = "stop" /\ state = "PROCESSING")
    /\ stopped => state = "STOPPED" /\ session = "off"
    /\ \A c \in Clients \ {Owner} : pc[c] = "free"

\* The labels from the opening of the stream to the scheduling, and all from the
\* opening on.
Opening == {"buffer", "track", "newTrack", "reset", "performBuffer", "schedule"}
Opened == Opening \cup {"assign", "play", "enter", "rlStart", "rlSpin", "rlRead", "rlDeref"}

\* The thread opens its I/O once, and until it is stopped it has it.
OnceInv ==
    /\ pc["dsp"] = "setup" \/ (pc["dsp"] \in {"top", "asleep"} /\ ~stopped) => Untouched
    /\ pc["dsp"] \in Opening => Quiet
    /\ pc["dsp"] \in Opened /\ ~stopped => audioStream /\ isRunning
    /\ pc["dsp"] \in Opened \ {"buffer", "track", "newTrack"} /\ ~stopped => track = "open"
    /\ pc["dsp"] = "newTrack" => audioStream \/ stopped
    /\ ~stopped => track # "released"
    /\ performLen \in {0, Block(config)}

\* What belongs to the one source or to the other.
SourceInv ==
    /\ audioSource = "WAV" /\ pc["dsp"] \in Opening \cup {"assign", "play", "enter", "rlStart"} =>
           toRead = Block(config)
    /\ audioSource = "WAV" => pc["dsp"] \notin {"rlRead", "rlDeref"} /\ ~posted
    /\ audioSource = "MIC" => pc["dsp"] \notin {"assign", "rlStart", "rlSpin"} /\ tasks = {}
    /\ audioSource = "MIC" /\ ~stopped =>
           /\ pc["dsp"] \in Opening => recorder = "ready"
           /\ pc["dsp"] \in Opened \ Opening => recorder = "recording"
    /\ audioSource = "MIC" /\ audioStream /\ pc[Owner] \notin {"stop2", "stop3", "forget"} =>
           recorder \in {"ready", "recording"}
    /\ pc["dsp"] = "assign" => newTask # NoTask
    /\ audioSource = "WAV" /\ pc[Owner] \in {"stop3", "stop4"} => dspTask # NoTask
    /\ audioSource = "MIC" /\ pc["cb"] = "writeDeref" => track # "null"

\* The live screen's callback never comes to suspendDsp().
CountInv ==
    /\ pc["cb"] \notin SuspendLabels
    /\ pc["cb"] \in {"convert", "perform", "write", "writeDeref", "last"} => callbackTicks > 0

LiveInv ==
    /\ SessionInv /\ OnceInv /\ SourceInv /\ CountInv
    /\ Alive
    /\ RunsUntilStopped

\* A step of the DSP thread.
LEMMA LiveDspStep ==
    ASSUME TypeInv, Prepared, StopInv, LiveInv, UNCHANGED <<audioSource, session>>,
           DspStep
    PROVE  LiveInv'
<1> USE DEF fields, streams, pool, locals, history
<1> USE DEF LiveInv, SessionInv, OnceInv, SourceInv, CountInv, Untouched, Quiet, Opening, Opened,
            Alive, RunsUntilStopped, TooShort, StopInv, OwnerStopsOnce, RecorderKept, MicAlone,
            SuspendLabels, Prepared, Goto, PcOK, DataOK, CbSuspends, NoTask, Tasks, RoomToCount
<1>a. DataOK /\ PcOK /\ CbSuspends /\ RoomToCount
  BY DEF TypeInv, TypeOK
<1>1. CASE Top
  BY <1>1, <1>a, ThreadsApart, DspAssumption, LiveAssumption
  DEF Top
<1>2. CASE Wake
  BY <1>2, <1>a, ThreadsApart, DspAssumption, LiveAssumption
  DEF Wake, Step
<1>3. CASE Setup
  BY <1>3, <1>a, ThreadsApart, DspAssumption, LiveAssumption
  DEF Setup
<1>4. CASE CreateBuffer
  BY <1>4, <1>a, ThreadsApart, DspAssumption, LiveAssumption
  DEF CreateBuffer, Step
<1>5. CASE CheckTrack
  BY <1>5, <1>a, ThreadsApart, DspAssumption, LiveAssumption
  DEF CheckTrack, Step
<1>6. CASE NewTrack
  BY <1>6, <1>a, ThreadsApart, DspAssumption, LiveAssumption
  DEF NewTrack, Step
<1>7. CASE ResetDsp
  BY <1>7, <1>a, ThreadsApart, DspAssumption, LiveAssumption
  DEF ResetDsp, Step
<1>8. CASE CreatePerformBuffer
  BY <1>8, <1>a, ThreadsApart, DspAssumption, LiveAssumption
  DEF CreatePerformBuffer, Step
<1>9. CASE ScheduleNoStream
  BY <1>9, <1>a, ThreadsApart, DspAssumption, LiveAssumption
  DEF ScheduleNoStream, Step
<1>10. CASE WavSchedule
  BY <1>10, <1>a, ThreadsApart, DspAssumption, LiveAssumption
  DEF WavSchedule, Step
<1>11. CASE WavAssign
  BY <1>11, <1>a, ThreadsApart, DspAssumption, LiveAssumption
  DEF WavAssign, Step
<1>12. CASE MicSchedule
  BY <1>12, <1>a, ThreadsApart, DspAssumption, LiveAssumption
  DEF MicSchedule, Step
<1>13. CASE Play
  BY <1>13, <1>a, ThreadsApart, DspAssumption, LiveAssumption
  DEF Play, Step
<1>14. CASE Enter
  BY <1>14, <1>a, ThreadsApart, DspAssumption, LiveAssumption
  DEF Enter, Step
<1>15. CASE WavReadAll
  BY <1>15, <1>a, ThreadsApart, DspAssumption, LiveAssumption
  DEF WavReadAll, Step, ReadEnds, Underflows
<1>16. CASE WavReadEnd
  BY <1>16, <1>a, ThreadsApart, DspAssumption, LiveAssumption
  DEF WavReadEnd, Step
<1>17. CASE MicReadTest
  BY <1>17, <1>a, ThreadsApart, DspAssumption, LiveAssumption
  DEF MicReadTest, Step
<1>18. CASE MicRead
  BY <1>18, <1>a, ThreadsApart, DspAssumption, LiveAssumption
  DEF MicRead, Step
<1> QED
  BY <1>1, <1>2, <1>3, <1>4, <1>5, <1>6, <1>7, <1>8, <1>9, <1>10, <1>11, <1>12, <1>13, <1>14,
     <1>15, <1>16, <1>17, <1>18 DEF DspStep

\* The callback goes on, or its task ends, and nothing else changes.
LEMMA LiveCbMove ==
    ASSUME TypeInv, LiveInv, UNCHANGED <<audioSource, session>>,
           pc["cb"] \in {"convert", "write", "writeDeref"},
           NEW l \in {"idle", "perform", "writeDeref", "last"}, Goto("cb", l),
           l = "writeDeref" => track # "null",
           tasks' \subseteq tasks, UNCHANGED <<fields, streams, posted, newTask, stopped>>
    PROVE  LiveInv'
<1> USE DEF fields, streams
<1>a. PcOK
  BY DEF TypeInv, TypeOK
<1>b. /\ pc'["cb"] = l /\ pc'["dsp"] = pc["dsp"]
      /\ \A c \in Clients : pc'[c] = pc[c]
      /\ Owner \in Clients
  BY <1>a, ThreadsApart, DspAssumption DEF Goto, PcOK
<1>1. SessionInv'
  BY <1>b, DspAssumption DEF LiveInv, SessionInv
<1>2. OnceInv'
  BY <1>b, DspAssumption DEF LiveInv, OnceInv, Untouched, Quiet, Opening, Opened
<1>3. SourceInv'
  BY <1>b, DspAssumption DEF LiveInv, SourceInv, Opening, Opened
<1>4. CountInv'
  BY <1>b, DspAssumption DEF LiveInv, CountInv, SuspendLabels
<1>5. Alive' /\ RunsUntilStopped'
  BY <1>b, DspAssumption DEF LiveInv, Alive, RunsUntilStopped, TooShort
<1> QED
  BY <1>1, <1>2, <1>3, <1>4, <1>5 DEF LiveInv

\* A step of the callback, or what starts one.
LEMMA LiveCbStep ==
    ASSUME TypeInv, Prepared, StopInv, LiveInv, UNCHANGED <<audioSource, session>>,
           FireTask \/ PostPeriod \/ DeliverPeriod \/ CbStep
    PROVE  LiveInv'
<1> USE DEF fields, streams, pool, locals, history
<1> USE DEF LiveInv, SessionInv, OnceInv, SourceInv, CountInv, Untouched, Quiet, Opening, Opened,
            Alive, RunsUntilStopped, TooShort, StopInv, OwnerStopsOnce, RecorderKept, MicAlone,
            SuspendLabels, Prepared, Goto, PcOK, DataOK, CbSuspends, NoTask, Tasks, RoomToCount
<1>a. DataOK /\ PcOK /\ CbSuspends /\ RoomToCount
  BY DEF TypeInv, TypeOK
<1>1. CASE FireTask
  BY <1>1, <1>a, ThreadsApart, DspAssumption, LiveAssumption
  DEF FireTask, Step
<1>2. CASE PostPeriod
  BY <1>2, <1>a, ThreadsApart, DspAssumption, LiveAssumption
  DEF PostPeriod
<1>3. CASE DeliverPeriod
  BY <1>3, <1>a, ThreadsApart, DspAssumption, LiveAssumption
  DEF DeliverPeriod, Step
<1>4. CASE Tick
  BY <1>4, <1>a, ThreadsApart, DspAssumption, LiveAssumption
  DEF Tick, Step
<1>5. CASE Count
  BY <1>5, <1>a, ThreadsApart, DspAssumption, LiveAssumption
  DEF Count, Step
<1>6. CASE Convert
  <2>1. ~(Overruns) \/ audioSource = "WAV"
    <3>1. audioSource \in {"WAV", "MIC"}
      BY <1>a, DspAssumption DEF DataOK
    <3> QED
      BY <1>6, <1>a, <3>1, DspAssumption
      DEF Convert, Overruns, DataOK, Prepared, LiveInv, OnceInv, SourceInv
  <2>2. PICK l \in {"idle", "perform", "writeDeref", "last"} :
            Goto("cb", l) /\ (l = "writeDeref" => track # "null")
    BY <1>6, <2>1 DEF Convert, Throw, Continue, Return, Rest
  <2>3. tasks' \subseteq tasks /\ UNCHANGED <<fields, streams, posted, newTask, stopped>>
    BY <1>6, <2>1 DEF Convert, Throw, Continue, Return
  <2> QED
    BY <1>6, <2>2, <2>3, LiveCbMove DEF Convert
<1>7. CASE Perform
  BY <1>7, <1>a, ThreadsApart, DspAssumption, LiveAssumption
  DEF Perform, Step
<1>8. CASE Write
  <2>1. ~(Overruns) \/ audioSource = "WAV"
    <3>1. audioSource \in {"WAV", "MIC"}
      BY <1>a, DspAssumption DEF DataOK
    <3> QED
      BY <1>8, <1>a, <3>1, DspAssumption
      DEF Write, Overruns, DataOK, Prepared, LiveInv, OnceInv, SourceInv
  <2>2. PICK l \in {"idle", "perform", "writeDeref", "last"} :
            Goto("cb", l) /\ (l = "writeDeref" => track # "null")
    BY <1>8, <2>1 DEF Write, Throw, Continue, Return, Rest
  <2>3. tasks' \subseteq tasks /\ UNCHANGED <<fields, streams, posted, newTask, stopped>>
    BY <1>8, <2>1 DEF Write, Throw, Continue, Return
  <2> QED
    BY <1>8, <2>2, <2>3, LiveCbMove DEF Write
<1>9. CASE WriteTrack
  <2>1. ~(track = "null") \/ audioSource = "WAV"
    <3>1. audioSource \in {"WAV", "MIC"}
      BY <1>a, DspAssumption DEF DataOK
    <3> QED
      BY <1>9, <1>a, <3>1, DspAssumption
      DEF WriteTrack, Overruns, DataOK, Prepared, LiveInv, OnceInv, SourceInv
  <2>2. PICK l \in {"idle", "perform", "writeDeref", "last"} :
            Goto("cb", l) /\ (l = "writeDeref" => track # "null")
    BY <1>9, <2>1 DEF WriteTrack, Throw, Continue, Return, Rest
  <2>3. tasks' \subseteq tasks /\ UNCHANGED <<fields, streams, posted, newTask, stopped>>
    BY <1>9, <2>1 DEF WriteTrack, Throw, Continue, Return
  <2> QED
    BY <1>9, <2>2, <2>3, LiveCbMove DEF WriteTrack
<1>10. CASE Last
  BY <1>10, <1>a, ThreadsApart, DspAssumption, LiveAssumption
  DEF Last, Continue, Return, Rest
<1> QED
  BY <1>1, <1>2, <1>3, <1>4, <1>5, <1>6, <1>7, <1>8, <1>9, <1>10 DEF CbStep

\* A step of stopRunning(), in the Owner's stop.
LEMMA LiveSuspendStep ==
    ASSUME TypeInv, Prepared, StopInv, LiveInv, UNCHANGED <<audioSource, session>>, NEW t \in Threads \ {"dsp"},
           SuspendStep(t)
    PROVE  LiveInv'
<1> USE DEF fields, streams, pool, locals, history
<1> USE DEF LiveInv, SessionInv, OnceInv, SourceInv, CountInv, Untouched, Quiet, Opening, Opened,
            Alive, RunsUntilStopped, TooShort, StopInv, OwnerStopsOnce, RecorderKept, MicAlone,
            SuspendLabels, Prepared, Goto, PcOK, DataOK, CbSuspends, NoTask, Tasks, RoomToCount
<1>a. DataOK /\ PcOK /\ CbSuspends /\ RoomToCount
  BY DEF TypeInv, TypeOK
<1>b. t = Owner /\ stopped /\ op[t] = "stop" /\ pc[t] \in {"stop1", "stop2", "stop3", "stop4"}
  <2>1. pc[t] \in SuspendLabels
    BY DEF SuspendStep, SuspendState, SuspendStream, WavStopFlag, WavStopTest, WavStopCancel,
           WavStopClear, MicStopRelease, MicStopDrop, MicStopFlag, Step, SuspendLabels
  <2>2. t = Owner
    BY <2>1, ThreadsApart DEF LiveInv, SessionInv, CountInv, Threads, SuspendLabels
  <2>3. stopped
    BY <2>1, <2>2 DEF LiveInv, SessionInv, SuspendLabels
  <2> QED
    BY <2>1, <2>2, <2>3 DEF StopInv, OwnerStopsOnce, SuspendLabels
<1>1. CASE SuspendState(t) \/ SuspendStream(t)
  BY <1>1, <1>b DEF SuspendState, SuspendStream, Step
<1>3. CASE WavStopFlag(t)
  BY <1>3, <1>a, <1>b, ThreadsApart, DspAssumption, LiveAssumption
  DEF WavStopFlag, Step
<1>4. CASE WavStopTest(t)
  BY <1>4, <1>a, <1>b, ThreadsApart, DspAssumption, LiveAssumption
  DEF WavStopTest, StopReturn, Continue, Return, Rest
<1>5. CASE WavStopCancel(t)
  BY <1>5, <1>a, <1>b, ThreadsApart, DspAssumption, LiveAssumption
  DEF WavStopCancel, Throw, Continue, Return, Rest
<1>6. CASE WavStopClear(t)
  BY <1>6, <1>a, <1>b, ThreadsApart, DspAssumption, LiveAssumption
  DEF WavStopClear, StopReturn, Continue, Return, Rest
<1>7. CASE MicStopRelease(t)
  <2>1. audioSource = "MIC" /\ audioStream /\ pc[Owner] = "stop1"
    BY <1>7, <1>b DEF MicStopRelease, StopInv, RecorderKept
  <2>2. recorder \in {"ready", "recording"}
    BY <2>1 DEF LiveInv, SourceInv
  <2>3. Goto(Owner, "stop2") /\ recorder' = "released"
        /\ UNCHANGED <<tasks, fields, newTask, stopped, isRunning, toRead, dspTask, posted, input>>
    BY <1>7, <1>b, <2>2 DEF MicStopRelease, Continue
  <2>4. /\ pc'["cb"] = pc["cb"] /\ pc'["dsp"] = pc["dsp"]
        /\ \A c \in Clients \ {Owner} : pc'[c] = pc[c]
        /\ Owner \in Clients /\ pc'[Owner] = "stop2"
    BY <1>a, <2>3, ThreadsApart, DspAssumption DEF Goto, PcOK
  <2>5. SessionInv'
    BY <1>b, <2>1, <2>2, <2>3, <2>4 DEF LiveInv, SessionInv
  <2>6. OnceInv'
    BY <1>b, <2>1, <2>2, <2>3, <2>4 DEF LiveInv, OnceInv, Untouched, Quiet, Opening, Opened
  <2>7. SourceInv'
    BY <1>b, <2>1, <2>2, <2>3, <2>4 DEF LiveInv, SourceInv, Opening, Opened
  <2>8. CountInv'
    BY <1>b, <2>1, <2>2, <2>3, <2>4 DEF LiveInv, CountInv
  <2>9. Alive' /\ RunsUntilStopped'
    BY <1>b, <2>1, <2>2, <2>3, <2>4 DEF LiveInv, Alive, RunsUntilStopped, TooShort
  <2> QED
    BY <2>5, <2>6, <2>7, <2>8, <2>9 DEF LiveInv
<1>8. CASE MicStopDrop(t)
  BY <1>8, <1>a, <1>b, ThreadsApart, DspAssumption, LiveAssumption
  DEF MicStopDrop, Step
<1>9. CASE MicStopFlag(t)
  BY <1>9, <1>a, <1>b, ThreadsApart, DspAssumption, LiveAssumption
  DEF MicStopFlag, StopReturn, Continue, Return, Rest
<1> QED
  BY <1>1, <1>3, <1>4, <1>5, <1>6, <1>7, <1>8, <1>9 DEF SuspendStep

\* A step of stopDspThread() and releaseIO().
LEMMA LiveStopStep ==
    ASSUME TypeInv, Prepared, StopInv, LiveInv, UNCHANGED <<audioSource, session>>,
           StopStep
    PROVE  LiveInv'
<1> USE DEF fields, streams, pool, locals, history
<1> USE DEF LiveInv, SessionInv, OnceInv, SourceInv, CountInv, Untouched, Quiet, Opening, Opened,
            Alive, RunsUntilStopped, TooShort, StopInv, OwnerStopsOnce, RecorderKept, MicAlone,
            SuspendLabels, Prepared, Goto, PcOK, DataOK, CbSuspends, NoTask, Tasks, RoomToCount
<1>a. DataOK /\ PcOK /\ CbSuspends /\ RoomToCount
  BY DEF TypeInv, TypeOK
<1>1. CASE StopState
  BY <1>1, <1>a, ThreadsApart, DspAssumption, LiveAssumption
  DEF StopState, Step
<1>2. CASE Release
  BY <1>2, <1>a, ThreadsApart, DspAssumption, LiveAssumption
  DEF Release, Step
<1>3. CASE ForgetStream
  BY <1>3, <1>a, ThreadsApart, DspAssumption, LiveAssumption
  DEF ForgetStream, Step
<1>4. CASE ReleaseTrack
  BY <1>4, <1>a, ThreadsApart, DspAssumption, LiveAssumption
  DEF ReleaseTrack, Continue, Return, Rest
<1>5. CASE DropTrack
  BY <1>5, <1>a, ThreadsApart, DspAssumption, LiveAssumption
  DEF DropTrack, Continue, Return, Rest
<1> QED
  BY <1>1, <1>2, <1>3, <1>4, <1>5 DEF StopStep

-----------------------------------------------------------------------------

LEMMA LiveStep ==
    TypeInv /\ Prepared /\ StopInv /\ LiveInv /\ [LiveNext]_liveVars => LiveInv' /\ [Next]_vars
<1> SUFFICES ASSUME TypeInv, Prepared, StopInv, LiveInv, [LiveNext]_liveVars
             PROVE  LiveInv' /\ [Next]_vars
  OBVIOUS
<1> USE DEF fields, streams, pool, locals, history
<1>a. PcOK
  BY DEF TypeInv, TypeOK
<1>b. Owner \in Clients
  BY DspAssumption
<1>1. CASE UNCHANGED liveVars
  BY <1>1
  DEF liveVars, vars, LiveInv, SessionInv, OnceInv, SourceInv, CountInv, Untouched, Quiet,
      Alive, RunsUntilStopped, TooShort
<1>2. CASE Running /\ ToggleOn
  <2>1. Resume /\ session = "on" /\ session' = "running" /\ UNCHANGED audioSource
    BY <1>2 DEF Running, ToggleOn
  <2>2. ~stopped /\ input = "fresh"
    BY <2>1 DEF LiveInv, SessionInv, OnceInv, Untouched
  <2>3. LiveInv'
    BY <2>1, <2>2
    DEF Resume, LiveInv, SessionInv, OnceInv, SourceInv, CountInv, Untouched, Quiet,
        Alive, RunsUntilStopped, TooShort
  <2> QED BY <1>2, <2>1, <2>2, <2>3 DEF Next, Calls
<1>3. CASE Running /\ ToggleOff
  <2>1. BeginStop /\ session = "running" /\ session' = "off" /\ UNCHANGED audioSource
    BY <1>3 DEF Running, ToggleOff
  <2>2. ~stopped /\ state = "PROCESSING" /\ pc[Owner] = "free"
    BY <2>1 DEF LiveInv, SessionInv
  <2>3. /\ pc'["cb"] = pc["cb"] /\ pc'["dsp"] = pc["dsp"] /\ pc'[Owner] = "stop"
        /\ \A c \in Clients \ {Owner} : pc'[c] = pc[c]
    BY <2>1, <1>a, ThreadsApart DEF BeginStop, Goto, PcOK
  <2>4. UNCHANGED <<fields, streams, pool, locals, history, audioSource>>
    BY <2>1 DEF BeginStop
  <2>5. SessionInv' /\ CountInv'
    BY <2>1, <2>2, <2>3, <2>4, <1>b DEF LiveInv, SessionInv, CountInv
  <2>6. OnceInv'
    BY <2>2, <2>3, <2>4 DEF LiveInv, OnceInv, Untouched, Quiet
  <2>7. SourceInv'
    BY <2>2, <2>3, <2>4 DEF LiveInv, SourceInv
  <2>8. Alive' /\ RunsUntilStopped'
    BY <2>2, <2>3, <2>4, <1>b DEF LiveInv, Alive, RunsUntilStopped, TooShort
  <2> QED BY <1>3, <2>1, <2>2, <2>5, <2>6, <2>7, <2>8 DEF LiveInv, Next, Calls
<1>4. CASE Running /\ ThreadStep /\ UNCHANGED session
  <2>1. [Next]_vars /\ UNCHANGED <<audioSource, session>>
    BY <1>4 DEF Next, ThreadStep, Running
  <2>2. CASE DspStep
    BY <2>1, <2>2, LiveDspStep
  <2>3. CASE FireTask \/ PostPeriod \/ DeliverPeriod \/ CbStep
    BY <2>1, <2>3, LiveCbStep
  <2>4. CASE SuspendStep("cb") \/ ClientStep
    BY <2>1, <2>4, LiveSuspendStep, LiveStopStep, ThreadsApart DEF ClientStep
  <2> QED
    BY <1>4, <2>1, <2>2, <2>3, <2>4 DEF ThreadStep
<1> QED
  BY <1>1, <1>2, <1>3, <1>4 DEF LiveNext, liveVars

\* The session begins.
LEMMA LiveBegins == LiveInit => LiveInv
BY ThreadsApart, DspAssumption
DEF LiveInit, Init, Rest, LiveInv, SessionInv, OnceInv, SourceInv, CountInv, Untouched, Quiet,
    Opening, Opened, Alive, RunsUntilStopped, TooShort, SuspendLabels, NoTask

\* What holds throughout a session.
LEMMA LiveInvariant == LiveSpec => [](TypeInv /\ Prepared /\ StopInv /\ LiveInv)
<1> DEFINE Inv == TypeInv /\ Prepared /\ StopInv /\ LiveInv
<1>1. LiveInit => Inv
  BY TypeInit, StopInit, LiveBegins DEF LiveInit
<1>2. Inv /\ [LiveNext]_liveVars => Inv'
  BY LiveStep, TypeStep, PrepareStep, StopStepInv
<1> HIDE DEF Inv
<1>3. LiveSpec => []Inv
  BY <1>1, <1>2, PTL DEF LiveSpec
<1> QED
  BY <1>3 DEF Inv

\* No toggle of the live screen throws on the UI thread, at whatever moment of the
\* DSP thread's and the callback's work it stops the session, and no callback of
\* the microphone, which runs there too (stopDspThread, releaseIO, stopRunning).
THEOREM ToggleNeverCrashesHolds == LiveSpec => []ToggleNeverCrashes
<1>1. LiveInv => ToggleNeverCrashes
  BY DEF LiveInv, ToggleNeverCrashes
<1> QED
  BY <1>1, LiveInvariant, PTL

\* The thread of a session ends only when it was stopped, unless its stream is a
\* WAV file in blocks of fewer than 11 samples (DspThread.run, readLoop).
THEOREM RunsUntilStoppedHolds == LiveSpec => []RunsUntilStopped
<1>1. LiveInv => RunsUntilStopped
  BY DEF LiveInv
<1> QED
  BY <1>1, LiveInvariant, PTL

=============================================================================

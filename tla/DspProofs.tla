----------------------------- MODULE DspProofs ------------------------------
(***************************************************************************)
(* Three safety properties of DspThread, for every set of clients, every    *)
(* set of configurations, either source and every bound: type correctness,  *)
(* no callback before its buffer, and what stopDspThread() achieves when it *)
(* finds the DSP thread waiting.                                           *)
(*                                                                         *)
(* TypeOK alone is not inductive, for two reasons: callbackTicks++ writes    *)
(* one more than what it read, so the count is within its bound only        *)
(* because a callback begins below it; and the callback goes on into        *)
(* releaseIO()'s labels unless op["cb"] says that it is in suspendDsp().     *)
(***************************************************************************)
EXTENDS DspThread, TLAPS


\* What a callback has read of the count leaves room for one more.
RoomToCount ==
    /\ pc["cb"] = "tick" => callbackTicks < TickCap
    /\ pc["cb"] = "count" => ticks < TickCap

\* The callback calls suspendDsp() only.
CbSuspends == op["cb"] = "suspend"

TypeInv == TypeOK /\ RoomToCount /\ CbSuspends

-----------------------------------------------------------------------------

\* The three kinds of thread are apart.
LEMMA ThreadsApart ==
    /\ "dsp" \in Threads /\ "cb" \in Threads /\ Owner \in Threads
    /\ Owner # "dsp" /\ Owner # "cb"
    /\ \A c \in Clients : c \in Threads /\ c # "dsp" /\ c # "cb"
BY DspAssumption DEF Threads

\* A thread's labels are labels.
LEMMA LabelsAreLabels == \A t \in Threads : Labels(t) \subseteq AllLabels
BY DEF Labels, AllLabels

\* A thread that moves to one of its labels leaves every thread at one of its own.
LEMMA GotoTyped ==
    ASSUME PcOK, NEW t \in Threads, NEW l \in Labels(t), Goto(t, l)
    PROVE  PcOK'
BY LabelsAreLabels DEF PcOK, Goto

\* A step of the DSP thread.
LEMMA DspStepTyped ==
    ASSUME TypeInv, UNCHANGED audioSource, DspStep
    PROVE  TypeInv'
<1> USE DEF fields, streams, pool, locals, history
<1>a. DataOK /\ PcOK /\ RoomToCount /\ CbSuspends
  BY DEF TypeInv, TypeOK
<1>1. CASE Top
  <2>0. PICK l \in {"asleep", "setup", "dead"} : Goto("dsp", l)
    BY <1>1, <1>a DEF Top, DataOK
  <2>1. PcOK'
    BY <2>0, <1>a, GotoTyped, ThreadsApart DEF Labels, DspLabels, Parked
  <2>2. RoomToCount' /\ CbSuspends'
    BY <1>1, <1>a, ThreadsApart, DspAssumption
    DEF Top, Step, Goto, RoomToCount, CbSuspends, DataOK, PcOK
  <2>3. DataOK'
    BY <1>1, <1>a, ThreadsApart
    DEF Top, Step, DataOK
  <2> QED
    BY <2>1, <2>2, <2>3 DEF TypeInv, TypeOK
<1>2. CASE Wake
  <2>1. PcOK'
    BY <1>2, <1>a, GotoTyped, ThreadsApart
    DEF Wake, Step, Labels, DspLabels, Parked
  <2>2. RoomToCount' /\ CbSuspends'
    BY <1>2, <1>a, ThreadsApart, DspAssumption
    DEF Wake, Step, Goto, RoomToCount, CbSuspends, DataOK, PcOK
  <2>3. DataOK'
    BY <1>2, <1>a, ThreadsApart
    DEF Wake, Step, DataOK
  <2> QED
    BY <2>1, <2>2, <2>3 DEF TypeInv, TypeOK
<1>3. CASE Setup
  <2>1. PcOK'
    BY <1>3, <1>a, GotoTyped, ThreadsApart
    DEF Setup, Step, Labels, DspLabels, Parked
  <2>2. RoomToCount' /\ CbSuspends'
    BY <1>3, <1>a, ThreadsApart, DspAssumption
    DEF Setup, Step, Goto, RoomToCount, CbSuspends, DataOK, PcOK
  <2>3. audioStream' \in BOOLEAN /\ isRunning' \in BOOLEAN
    BY <1>3, <1>a, Zenon DEF Setup, DataOK
  <2>4. /\ input' \in {input, "consumed"} /\ dspTask' = dspTask
        /\ recorder' \in {recorder, "ready", "null"}
    BY <1>3 DEF Setup
  <2>5. toRead' \in Nat
    BY <1>3, <1>a, DspAssumption DEF Setup, DataOK
  <2>6. DataOK'
    BY <1>3, <2>3, <2>4, <2>5, <1>a DEF Setup, DataOK
  <2> QED
    BY <2>1, <2>2, <2>6 DEF TypeInv, TypeOK
<1>4. CASE CreateBuffer
  <2>1. PcOK'
    BY <1>4, <1>a, GotoTyped, ThreadsApart
    DEF CreateBuffer, Step, Labels, DspLabels, Parked
  <2>2. RoomToCount' /\ CbSuspends'
    BY <1>4, <1>a, ThreadsApart, DspAssumption
    DEF CreateBuffer, Step, Goto, RoomToCount, CbSuspends, DataOK, PcOK
  <2>3. DataOK'
    BY <1>4, <1>a, ThreadsApart
    DEF CreateBuffer, Step, DataOK
  <2> QED
    BY <2>1, <2>2, <2>3 DEF TypeInv, TypeOK
<1>5. CASE CheckTrack
  <2>1. PcOK'
    BY <1>5, <1>a, GotoTyped, ThreadsApart
    DEF CheckTrack, Step, Labels, DspLabels, Parked
  <2>2. RoomToCount' /\ CbSuspends'
    BY <1>5, <1>a, ThreadsApart, DspAssumption
    DEF CheckTrack, Step, Goto, RoomToCount, CbSuspends, DataOK, PcOK
  <2>3. DataOK'
    BY <1>5, <1>a, ThreadsApart
    DEF CheckTrack, Step, DataOK
  <2> QED
    BY <2>1, <2>2, <2>3 DEF TypeInv, TypeOK
<1>6. CASE NewTrack
  <2>1. PcOK'
    BY <1>6, <1>a, GotoTyped, ThreadsApart
    DEF NewTrack, Step, Labels, DspLabels, Parked
  <2>2. RoomToCount' /\ CbSuspends'
    BY <1>6, <1>a, ThreadsApart, DspAssumption
    DEF NewTrack, Step, Goto, RoomToCount, CbSuspends, DataOK, PcOK
  <2>3. DataOK'
    BY <1>6, <1>a, ThreadsApart
    DEF NewTrack, Step, DataOK
  <2> QED
    BY <2>1, <2>2, <2>3 DEF TypeInv, TypeOK
<1>7. CASE ResetDsp
  <2>1. PcOK'
    BY <1>7, <1>a, GotoTyped, ThreadsApart
    DEF ResetDsp, Step, Labels, DspLabels, Parked
  <2>2. RoomToCount' /\ CbSuspends'
    BY <1>7, <1>a, ThreadsApart, DspAssumption
    DEF ResetDsp, Step, Goto, RoomToCount, CbSuspends, DataOK, PcOK
  <2>3. DataOK'
    BY <1>7, <1>a, ThreadsApart, DspAssumption
    DEF ResetDsp, Step, DataOK
  <2> QED
    BY <2>1, <2>2, <2>3 DEF TypeInv, TypeOK
<1>8. CASE CreatePerformBuffer
  <2>1. PcOK'
    BY <1>8, <1>a, GotoTyped, ThreadsApart
    DEF CreatePerformBuffer, Step, Labels, DspLabels, Parked
  <2>2. RoomToCount' /\ CbSuspends'
    BY <1>8, <1>a, ThreadsApart, DspAssumption
    DEF CreatePerformBuffer, Step, Goto, RoomToCount, CbSuspends, DataOK, PcOK
  <2>3. DataOK'
    BY <1>8, <1>a, ThreadsApart, DspAssumption
    DEF CreatePerformBuffer, Step, DataOK
  <2> QED
    BY <2>1, <2>2, <2>3 DEF TypeInv, TypeOK
<1>9. CASE ScheduleNoStream
  <2>1. PcOK'
    BY <1>9, <1>a, GotoTyped, ThreadsApart
    DEF ScheduleNoStream, Step, Labels, DspLabels, Parked
  <2>2. RoomToCount' /\ CbSuspends'
    BY <1>9, <1>a, ThreadsApart, DspAssumption
    DEF ScheduleNoStream, Step, Goto, RoomToCount, CbSuspends, DataOK, PcOK
  <2>3. DataOK'
    BY <1>9, <1>a, ThreadsApart
    DEF ScheduleNoStream, Step, DataOK
  <2> QED
    BY <2>1, <2>2, <2>3 DEF TypeInv, TypeOK
<1>10. CASE WavSchedule
  <2>1. PcOK'
    BY <1>10, <1>a, GotoTyped, ThreadsApart
    DEF WavSchedule, Step, Labels, DspLabels, Parked
  <2>2. RoomToCount' /\ CbSuspends'
    BY <1>10, <1>a, ThreadsApart, DspAssumption
    DEF WavSchedule, Step, Goto, RoomToCount, CbSuspends, DataOK, PcOK
  <2>3. tasks' \subseteq Tasks /\ newTask' \in Tasks \cup {NoTask}
    BY <1>10, <1>a DEF WavSchedule, DataOK
  <2>4. DataOK'
    BY <1>10, <2>3, <1>a DEF WavSchedule, DataOK
  <2> QED
    BY <2>1, <2>2, <2>4 DEF TypeInv, TypeOK
<1>11. CASE WavAssign
  <2>1. PcOK'
    BY <1>11, <1>a, GotoTyped, ThreadsApart
    DEF WavAssign, Step, Labels, DspLabels, Parked
  <2>2. RoomToCount' /\ CbSuspends'
    BY <1>11, <1>a, ThreadsApart, DspAssumption
    DEF WavAssign, Step, Goto, RoomToCount, CbSuspends, DataOK, PcOK
  <2>3. DataOK'
    BY <1>11, <1>a, ThreadsApart
    DEF WavAssign, Step, Tasks, NoTask, DataOK
  <2> QED
    BY <2>1, <2>2, <2>3 DEF TypeInv, TypeOK
<1>12. CASE MicSchedule
  <2>1. PcOK'
    BY <1>12, <1>a, GotoTyped, ThreadsApart
    DEF MicSchedule, Step, Labels, DspLabels, Parked
  <2>2. RoomToCount' /\ CbSuspends'
    BY <1>12, <1>a, ThreadsApart, DspAssumption
    DEF MicSchedule, Step, Goto, RoomToCount, CbSuspends, DataOK, PcOK
  <2>3. DataOK'
    BY <1>12, <1>a, ThreadsApart
    DEF MicSchedule, Step, DataOK
  <2> QED
    BY <2>1, <2>2, <2>3 DEF TypeInv, TypeOK
<1>13. CASE Play
  <2>1. PcOK'
    BY <1>13, <1>a, GotoTyped, ThreadsApart
    DEF Play, Step, Labels, DspLabels, Parked
  <2>2. RoomToCount' /\ CbSuspends'
    BY <1>13, <1>a, ThreadsApart, DspAssumption
    DEF Play, Step, Goto, RoomToCount, CbSuspends, DataOK, PcOK
  <2>3. DataOK'
    BY <1>13, <1>a, ThreadsApart
    DEF Play, Step, DataOK
  <2> QED
    BY <2>1, <2>2, <2>3 DEF TypeInv, TypeOK
<1>14. CASE Enter
  <2>1. PcOK'
    BY <1>14, <1>a, GotoTyped, ThreadsApart
    DEF Enter, Step, Labels, DspLabels, Parked
  <2>2. RoomToCount' /\ CbSuspends'
    BY <1>14, <1>a, ThreadsApart, DspAssumption
    DEF Enter, Step, Goto, RoomToCount, CbSuspends, DataOK, PcOK
  <2>3. DataOK'
    BY <1>14, <1>a, ThreadsApart
    DEF Enter, Step, DataOK
  <2> QED
    BY <2>1, <2>2, <2>3 DEF TypeInv, TypeOK
<1>15. CASE WavReadAll
  <2>0. PICK end \in {"rlSpin", "dead"} : Step("dsp", "rlStart", end)
    BY <1>15 DEF WavReadAll, ReadEnds
  <2>1. PcOK'
    BY <2>0, <1>a, GotoTyped, ThreadsApart DEF Step, Labels, DspLabels, Parked
  <2>2. RoomToCount' /\ CbSuspends'
    BY <1>15, <1>a, ThreadsApart, DspAssumption
    DEF WavReadAll, Step, Goto, RoomToCount, CbSuspends, DataOK, PcOK
  <2>3. DataOK'
    BY <1>15, <1>a, ThreadsApart
    DEF WavReadAll, Step, DataOK
  <2> QED
    BY <2>1, <2>2, <2>3 DEF TypeInv, TypeOK
<1>16. CASE WavReadEnd
  <2>1. PcOK'
    BY <1>16, <1>a, GotoTyped, ThreadsApart
    DEF WavReadEnd, Step, Labels, DspLabels, Parked
  <2>2. RoomToCount' /\ CbSuspends'
    BY <1>16, <1>a, ThreadsApart, DspAssumption
    DEF WavReadEnd, Step, Goto, RoomToCount, CbSuspends, DataOK, PcOK
  <2>3. DataOK'
    BY <1>16, <1>a, ThreadsApart
    DEF WavReadEnd, Step, DataOK
  <2> QED
    BY <2>1, <2>2, <2>3 DEF TypeInv, TypeOK
<1>17. CASE MicReadTest
  <2>1. PcOK'
    BY <1>17, <1>a, GotoTyped, ThreadsApart
    DEF MicReadTest, Step, Labels, DspLabels, Parked
  <2>2. RoomToCount' /\ CbSuspends'
    BY <1>17, <1>a, ThreadsApart, DspAssumption
    DEF MicReadTest, Step, Goto, RoomToCount, CbSuspends, DataOK, PcOK
  <2>3. DataOK'
    BY <1>17, <1>a, ThreadsApart
    DEF MicReadTest, Step, DataOK
  <2> QED
    BY <2>1, <2>2, <2>3 DEF TypeInv, TypeOK
<1>18. CASE MicRead
  <2>1. PcOK'
    BY <1>18, <1>a, GotoTyped, ThreadsApart
    DEF MicRead, Step, Labels, DspLabels, Parked
  <2>2. RoomToCount' /\ CbSuspends'
    BY <1>18, <1>a, ThreadsApart, DspAssumption
    DEF MicRead, Step, Goto, RoomToCount, CbSuspends, DataOK, PcOK
  <2>3. DataOK'
    BY <1>18, <1>a, ThreadsApart
    DEF MicRead, Step, DataOK
  <2> QED
    BY <2>1, <2>2, <2>3 DEF TypeInv, TypeOK
<1> QED
  BY <1>1, <1>2, <1>3, <1>4, <1>5, <1>6, <1>7, <1>8, <1>9, <1>10, <1>11, <1>12, <1>13,
     <1>14, <1>15, <1>16, <1>17, <1>18
  DEF DspStep

\* A step of the callback, or what starts one.
LEMMA CbStepTyped ==
    ASSUME TypeInv, UNCHANGED audioSource, FireTask \/ PostPeriod \/ DeliverPeriod \/ CbStep
    PROVE  TypeInv'
<1> USE DEF fields, streams, pool, locals, history
<1>a. DataOK /\ PcOK /\ RoomToCount /\ CbSuspends
  BY DEF TypeInv, TypeOK
<1>1. CASE FireTask
  <2>1. PcOK'
    BY <1>1, <1>a, GotoTyped, ThreadsApart
    DEF FireTask, Step, Labels, CbLabels, SuspendLabels
  <2>2. RoomToCount' /\ CbSuspends'
    BY <1>1, <1>a, ThreadsApart, DspAssumption
    DEF FireTask, Step, Goto, RoomToCount, CbSuspends, DataOK, PcOK
  <2>3. DataOK'
    BY <1>1, <1>a, ThreadsApart
    DEF FireTask, Step, DataOK, Tasks, NoTask
  <2> QED
    BY <2>1, <2>2, <2>3 DEF TypeInv, TypeOK
<1>2. CASE PostPeriod
  <2>1. PcOK'
    BY <1>2, <1>a DEF PostPeriod, PcOK
  <2>2. RoomToCount' /\ CbSuspends'
    BY <1>2, <1>a DEF PostPeriod, RoomToCount, CbSuspends
  <2>3. DataOK'
    BY <1>2, <1>a, ThreadsApart
    DEF PostPeriod, Step, DataOK
  <2> QED
    BY <2>1, <2>2, <2>3 DEF TypeInv, TypeOK
<1>3. CASE DeliverPeriod
  <2>1. PcOK'
    BY <1>3, <1>a, GotoTyped, ThreadsApart
    DEF DeliverPeriod, Step, Labels, CbLabels, SuspendLabels
  <2>2. RoomToCount' /\ CbSuspends'
    BY <1>3, <1>a, ThreadsApart, DspAssumption
    DEF DeliverPeriod, Step, Goto, RoomToCount, CbSuspends, DataOK, PcOK
  <2>3. posted' \in BOOLEAN
    BY <1>3, Zenon DEF DeliverPeriod
  <2>4. UNCHANGED <<fields, streams, tasks, locals, op, history>>
    BY <1>3 DEF DeliverPeriod, Step
  <2>5. DataOK'
    BY <2>3, <2>4, <1>a DEF DataOK
  <2> QED
    BY <2>1, <2>2, <2>5 DEF TypeInv, TypeOK
<1>4. CASE Tick
  <2>1. PcOK'
    BY <1>4, <1>a, GotoTyped, ThreadsApart
    DEF Tick, Step, Labels, CbLabels, SuspendLabels
  <2>2. RoomToCount' /\ CbSuspends'
    BY <1>4, <1>a, ThreadsApart, DspAssumption
    DEF Tick, Step, Goto, RoomToCount, CbSuspends, DataOK, PcOK
  <2>3. DataOK'
    BY <1>4, <1>a, ThreadsApart
    DEF Tick, Step, DataOK
  <2> QED
    BY <2>1, <2>2, <2>3 DEF TypeInv, TypeOK
<1>5. CASE Count
  <2>1. PcOK'
    BY <1>5, <1>a, GotoTyped, ThreadsApart
    DEF Count, Step, Labels, CbLabels, SuspendLabels
  <2>2. RoomToCount' /\ CbSuspends'
    BY <1>5, <1>a, ThreadsApart, DspAssumption
    DEF Count, Step, Goto, RoomToCount, CbSuspends, DataOK, PcOK
  <2>3. DataOK'
    BY <1>5, <1>a, ThreadsApart, DspAssumption
    DEF Count, Step, RoomToCount, DataOK
  <2> QED
    BY <2>1, <2>2, <2>3 DEF TypeInv, TypeOK
<1>6. CASE Convert
  <2>1. PcOK'
    BY <1>6, <1>a, GotoTyped, ThreadsApart
    DEF Convert, Throw, Continue, Return, Rest, Labels, CbLabels, SuspendLabels
  <2>2. RoomToCount' /\ CbSuspends'
    BY <1>6, <1>a, ThreadsApart, DspAssumption
    DEF Convert, Throw, Continue, Return, Rest, Goto, RoomToCount, CbSuspends, DataOK, PcOK
  <2>3. tasks' \subseteq tasks /\ firing' \in {firing, NoTask}
    BY <1>6 DEF Convert, Throw, Continue, Return
  <2>4. DataOK'
    BY <1>6, <2>3, <1>a DEF Convert, DataOK
  <2> QED
    BY <2>1, <2>2, <2>4 DEF TypeInv, TypeOK
<1>7. CASE Perform
  <2>1. PcOK'
    BY <1>7, <1>a, GotoTyped, ThreadsApart
    DEF Perform, Step, Labels, CbLabels, SuspendLabels
  <2>2. RoomToCount' /\ CbSuspends'
    BY <1>7, <1>a, ThreadsApart, DspAssumption
    DEF Perform, Step, Goto, RoomToCount, CbSuspends, DataOK, PcOK
  <2>3. DataOK'
    BY <1>7, <1>a, ThreadsApart
    DEF Perform, Step, DataOK
  <2> QED
    BY <2>1, <2>2, <2>3 DEF TypeInv, TypeOK
<1>8. CASE Write
  <2>1. PcOK'
    BY <1>8, <1>a, GotoTyped, ThreadsApart
    DEF Write, Throw, Continue, Return, Rest, Labels, CbLabels, SuspendLabels
  <2>2. RoomToCount' /\ CbSuspends'
    BY <1>8, <1>a, ThreadsApart, DspAssumption
    DEF Write, Throw, Continue, Return, Rest, Goto, RoomToCount, CbSuspends, DataOK, PcOK
  <2>3. tasks' \subseteq tasks /\ firing' \in {firing, NoTask}
    BY <1>8 DEF Write, Throw, Continue, Return
  <2>4. DataOK'
    BY <1>8, <2>3, <1>a DEF Write, DataOK
  <2> QED
    BY <2>1, <2>2, <2>4 DEF TypeInv, TypeOK
<1>9. CASE WriteTrack
  <2>1. PcOK'
    BY <1>9, <1>a, GotoTyped, ThreadsApart
    DEF WriteTrack, Throw, Continue, Return, Rest, Labels, CbLabels, SuspendLabels
  <2>2. RoomToCount' /\ CbSuspends'
    BY <1>9, <1>a, ThreadsApart, DspAssumption
    DEF WriteTrack, Throw, Continue, Return, Rest, Goto, RoomToCount, CbSuspends, DataOK,
        PcOK
  <2>3. tasks' \subseteq tasks /\ firing' \in {firing, NoTask}
    BY <1>9 DEF WriteTrack, Throw, Continue, Return
  <2>4. DataOK'
    BY <1>9, <2>3, <1>a DEF WriteTrack, DataOK
  <2> QED
    BY <2>1, <2>2, <2>4 DEF TypeInv, TypeOK
<1>10. CASE Last
  <2>1. PcOK'
    BY <1>10, <1>a, GotoTyped, ThreadsApart
    DEF Last, Continue, Return, Rest, Labels, CbLabels, SuspendLabels
  <2>2. RoomToCount' /\ CbSuspends'
    BY <1>10, <1>a, ThreadsApart, DspAssumption
    DEF Last, Continue, Return, Rest, Goto, RoomToCount, CbSuspends, DataOK, PcOK
  <2>3. DataOK'
    BY <1>10, <1>a, ThreadsApart
    DEF Last, Continue, Return, DataOK, Tasks, NoTask
  <2> QED
    BY <2>1, <2>2, <2>3 DEF TypeInv, TypeOK
<1> QED
  BY <1>1, <1>2, <1>3, <1>4, <1>5, <1>6, <1>7, <1>8, <1>9, <1>10 DEF CbStep

\* A step of suspendDsp() and stopRunning(), in a client or in the callback.
LEMMA SuspendStepTyped ==
    ASSUME TypeInv, UNCHANGED audioSource, NEW t \in Threads \ {"dsp"}, SuspendStep(t)
    PROVE  TypeInv'
<1> USE DEF fields, streams, pool, locals, history
<1>a. DataOK /\ PcOK /\ RoomToCount /\ CbSuspends
  BY DEF TypeInv, TypeOK
<1>1. CASE SuspendState(t)
  <2>1. PcOK'
    BY <1>1, <1>a, GotoTyped, ThreadsApart
    DEF SuspendState, Step, Labels, CbLabels, SuspendLabels, StopLabels
  <2>2. RoomToCount' /\ CbSuspends'
    BY <1>1, <1>a, ThreadsApart, DspAssumption
    DEF SuspendState, Step, Goto, RoomToCount, CbSuspends, DataOK, PcOK
  <2>3. DataOK'
    BY <1>1, <1>a, ThreadsApart
    DEF SuspendState, Step, DataOK
  <2> QED
    BY <2>1, <2>2, <2>3 DEF TypeInv, TypeOK
<1>2. CASE SuspendStream(t)
  <2>1. PcOK'
    BY <1>2, <1>a, GotoTyped, ThreadsApart
    DEF SuspendStream, Throw, Continue, Return, Rest, Labels, CbLabels, SuspendLabels,
        StopLabels
  <2>2. RoomToCount' /\ CbSuspends'
    BY <1>2, <1>a, ThreadsApart, DspAssumption
    DEF SuspendStream, Throw, Continue, Return, Rest, Goto, RoomToCount, CbSuspends, DataOK,
        PcOK
  <2>3. tasks' \subseteq tasks /\ firing' \in {firing, NoTask}
    BY <1>2 DEF SuspendStream, Throw, Continue, Return
  <2>4. DataOK'
    BY <1>2, <2>3, <1>a DEF SuspendStream, DataOK
  <2> QED
    BY <2>1, <2>2, <2>4 DEF TypeInv, TypeOK
<1>3. CASE WavStopFlag(t)
  <2>1. PcOK'
    BY <1>3, <1>a, GotoTyped, ThreadsApart
    DEF WavStopFlag, Step, Labels, CbLabels, SuspendLabels, StopLabels
  <2>2. RoomToCount' /\ CbSuspends'
    BY <1>3, <1>a, ThreadsApart, DspAssumption
    DEF WavStopFlag, Step, Goto, RoomToCount, CbSuspends, DataOK, PcOK
  <2>3. isRunning' \in BOOLEAN
    BY <1>3, Zenon DEF WavStopFlag
  <2>4. UNCHANGED <<fields, input, toRead, dspTask, recorder, pool, locals, op, history>>
    BY <1>3 DEF WavStopFlag, Step
  <2>5. DataOK'
    BY <2>3, <2>4, <1>a DEF DataOK
  <2> QED
    BY <2>1, <2>2, <2>5 DEF TypeInv, TypeOK
<1>4. CASE WavStopTest(t)
  <2>1. PcOK'
    BY <1>4, <1>a, GotoTyped, ThreadsApart
    DEF WavStopTest, StopReturn, Continue, Return, Rest, CbSuspends, Labels, CbLabels,
        SuspendLabels, StopLabels
  <2>2. RoomToCount' /\ CbSuspends'
    BY <1>4, <1>a, ThreadsApart, DspAssumption
    DEF WavStopTest, StopReturn, Continue, Return, Rest, Goto, RoomToCount, CbSuspends,
        DataOK, PcOK
  <2>3. DataOK'
    BY <1>4, <1>a, ThreadsApart
    DEF WavStopTest, StopReturn, Continue, Return, DataOK, Tasks, NoTask
  <2> QED
    BY <2>1, <2>2, <2>3 DEF TypeInv, TypeOK
<1>5. CASE WavStopCancel(t)
  <2>1. PcOK'
    BY <1>5, <1>a, GotoTyped, ThreadsApart
    DEF WavStopCancel, Throw, Continue, Return, Rest, Labels, CbLabels, SuspendLabels,
        StopLabels
  <2>2. RoomToCount' /\ CbSuspends'
    BY <1>5, <1>a, ThreadsApart, DspAssumption
    DEF WavStopCancel, Throw, Continue, Return, Rest, Goto, RoomToCount, CbSuspends, DataOK,
        PcOK
  <2>3. tasks' \subseteq tasks /\ firing' \in {firing, NoTask}
    BY <1>5 DEF WavStopCancel, Throw, Continue, Return
  <2>4. DataOK'
    BY <1>5, <2>3, <1>a DEF WavStopCancel, DataOK
  <2> QED
    BY <2>1, <2>2, <2>4 DEF TypeInv, TypeOK
<1>6. CASE WavStopClear(t)
  <2>1. PcOK'
    BY <1>6, <1>a, GotoTyped, ThreadsApart
    DEF WavStopClear, StopReturn, Continue, Return, Rest, CbSuspends, Labels, CbLabels,
        SuspendLabels, StopLabels
  <2>2. RoomToCount' /\ CbSuspends'
    BY <1>6, <1>a, ThreadsApart, DspAssumption
    DEF WavStopClear, StopReturn, Continue, Return, Rest, Goto, RoomToCount, CbSuspends,
        DataOK, PcOK
  <2>3. DataOK'
    BY <1>6, <1>a, ThreadsApart
    DEF WavStopClear, StopReturn, Continue, Return, DataOK, Tasks, NoTask
  <2> QED
    BY <2>1, <2>2, <2>3 DEF TypeInv, TypeOK
<1>7. CASE MicStopRelease(t)
  <2>1. PcOK'
    BY <1>7, <1>a, GotoTyped, ThreadsApart
    DEF MicStopRelease, Throw, Continue, Return, Rest, Labels, CbLabels, SuspendLabels,
        StopLabels
  <2>2. RoomToCount' /\ CbSuspends'
    BY <1>7, <1>a, ThreadsApart, DspAssumption
    DEF MicStopRelease, Throw, Continue, Return, Rest, Goto, RoomToCount, CbSuspends,
        DataOK, PcOK
  <2>3. tasks' \subseteq tasks /\ firing' \in {firing, NoTask} /\ recorder' \in {recorder,
     "released"}
    BY <1>7 DEF MicStopRelease, Throw, Continue, Return
  <2>4. DataOK'
    BY <1>7, <2>3, <1>a DEF MicStopRelease, DataOK
  <2> QED
    BY <2>1, <2>2, <2>4 DEF TypeInv, TypeOK
<1>8. CASE MicStopDrop(t)
  <2>1. PcOK'
    BY <1>8, <1>a, GotoTyped, ThreadsApart
    DEF MicStopDrop, Step, Labels, CbLabels, SuspendLabels, StopLabels
  <2>2. RoomToCount' /\ CbSuspends'
    BY <1>8, <1>a, ThreadsApart, DspAssumption
    DEF MicStopDrop, Step, Goto, RoomToCount, CbSuspends, DataOK, PcOK
  <2>3. DataOK'
    BY <1>8, <1>a, ThreadsApart
    DEF MicStopDrop, Step, DataOK
  <2> QED
    BY <2>1, <2>2, <2>3 DEF TypeInv, TypeOK
<1>9. CASE MicStopFlag(t)
  <2>1. PcOK'
    BY <1>9, <1>a, GotoTyped, ThreadsApart
    DEF MicStopFlag, StopReturn, Continue, Return, Rest, CbSuspends, Labels, CbLabels,
        SuspendLabels, StopLabels
  <2>2. RoomToCount' /\ CbSuspends'
    BY <1>9, <1>a, ThreadsApart, DspAssumption
    DEF MicStopFlag, StopReturn, Continue, Return, Rest, Goto, RoomToCount, CbSuspends,
        DataOK, PcOK
  <2>3. isRunning' \in BOOLEAN
    BY <1>9, Zenon DEF MicStopFlag
  <2>4. UNCHANGED <<fields, input, toRead, dspTask, recorder, pool, newTask, ticks, op,
     history>> /\ firing' \in {firing, NoTask}
    BY <1>9 DEF MicStopFlag, StopReturn, Continue, Return
  <2>5. DataOK'
    BY <2>3, <2>4, <1>a DEF DataOK
  <2> QED
    BY <2>1, <2>2, <2>5 DEF TypeInv, TypeOK
<1> QED
  BY <1>1, <1>2, <1>3, <1>4, <1>5, <1>6, <1>7, <1>8, <1>9 DEF SuspendStep

\* A step of stopDspThread() and releaseIO().
LEMMA StopStepTyped ==
    ASSUME TypeInv, UNCHANGED audioSource, StopStep
    PROVE  TypeInv'
<1> USE DEF fields, streams, pool, locals, history
<1>a. DataOK /\ PcOK /\ RoomToCount /\ CbSuspends
  BY DEF TypeInv, TypeOK
<1>1. CASE StopState
  <2>1. PcOK'
    BY <1>1, <1>a, GotoTyped, ThreadsApart
    DEF StopState, Step, Labels, SuspendLabels, StopLabels
  <2>2. RoomToCount' /\ CbSuspends'
    BY <1>1, <1>a, ThreadsApart, DspAssumption
    DEF StopState, Step, Goto, RoomToCount, CbSuspends, DataOK, PcOK
  <2>3. DataOK'
    BY <1>1, <1>a, ThreadsApart
    DEF StopState, Step, DataOK
  <2> QED
    BY <2>1, <2>2, <2>3 DEF TypeInv, TypeOK
<1>2. CASE Release
  <2>1. PcOK'
    BY <1>2, <1>a, GotoTyped, ThreadsApart
    DEF Release, Step, Labels, SuspendLabels, StopLabels
  <2>2. RoomToCount' /\ CbSuspends'
    BY <1>2, <1>a, ThreadsApart, DspAssumption
    DEF Release, Step, Goto, RoomToCount, CbSuspends, DataOK, PcOK
  <2>3. DataOK'
    BY <1>2, <1>a, ThreadsApart
    DEF Release, Step, DataOK
  <2> QED
    BY <2>1, <2>2, <2>3 DEF TypeInv, TypeOK
<1>3. CASE ForgetStream
  <2>1. PcOK'
    BY <1>3, <1>a, GotoTyped, ThreadsApart
    DEF ForgetStream, Step, Labels, SuspendLabels, StopLabels
  <2>2. RoomToCount' /\ CbSuspends'
    BY <1>3, <1>a, ThreadsApart, DspAssumption
    DEF ForgetStream, Step, Goto, RoomToCount, CbSuspends, DataOK, PcOK
  <2>3. audioStream' \in BOOLEAN
    BY <1>3, Zenon DEF ForgetStream
  <2>4. UNCHANGED <<state, config, callbackTicks, performLen, track, streams, pool, locals,
     op, history>>
    BY <1>3 DEF ForgetStream, Step
  <2>5. DataOK'
    BY <2>3, <2>4, <1>a DEF DataOK
  <2> QED
    BY <2>1, <2>2, <2>5 DEF TypeInv, TypeOK
<1>4. CASE ReleaseTrack
  <2>1. PcOK'
    BY <1>4, <1>a, GotoTyped, ThreadsApart
    DEF ReleaseTrack, Continue, Return, Rest, Labels, SuspendLabels, StopLabels
  <2>2. RoomToCount' /\ CbSuspends'
    BY <1>4, <1>a, ThreadsApart, DspAssumption
    DEF ReleaseTrack, Continue, Return, Rest, Goto, RoomToCount, CbSuspends, DataOK, PcOK
  <2>3. DataOK'
    BY <1>4, <1>a, ThreadsApart
    DEF ReleaseTrack, Continue, Return, DataOK, Tasks, NoTask
  <2> QED
    BY <2>1, <2>2, <2>3 DEF TypeInv, TypeOK
<1>5. CASE DropTrack
  <2>1. PcOK'
    BY <1>5, <1>a, GotoTyped, ThreadsApart
    DEF DropTrack, Continue, Return, Rest, Labels, SuspendLabels, StopLabels
  <2>2. RoomToCount' /\ CbSuspends'
    BY <1>5, <1>a, ThreadsApart, DspAssumption
    DEF DropTrack, Continue, Return, Rest, Goto, RoomToCount, CbSuspends, DataOK, PcOK
  <2>3. DataOK'
    BY <1>5, <1>a, ThreadsApart
    DEF DropTrack, Continue, Return, DataOK, Tasks, NoTask
  <2> QED
    BY <2>1, <2>2, <2>3 DEF TypeInv, TypeOK
<1> QED
  BY <1>1, <1>2, <1>3, <1>4, <1>5 DEF StopStep

\* A call of a client.
LEMMA CallTyped ==
    ASSUME TypeInv, UNCHANGED audioSource, NEW t \in Clients, NEW c \in Configs,
           Configure(c) \/ Resume \/ BeginSuspend(t) \/ BeginStop
    PROVE  TypeInv'
<1> USE DEF fields, streams, pool, locals, history
<1>a. DataOK /\ PcOK /\ RoomToCount /\ CbSuspends
  BY DEF TypeInv, TypeOK
<1>1. CASE Configure(c)
  <2>1. PcOK'
    BY <1>1, <1>a DEF Configure, PcOK
  <2>2. RoomToCount' /\ CbSuspends'
    BY <1>1, <1>a DEF Configure, RoomToCount, CbSuspends
  <2>3. DataOK'
    BY <1>1, <1>a, ThreadsApart
    DEF Configure, Step, DataOK
  <2> QED
    BY <2>1, <2>2, <2>3 DEF TypeInv, TypeOK
<1>2. CASE Resume
  <2>1. PcOK'
    BY <1>2, <1>a DEF Resume, PcOK
  <2>2. RoomToCount' /\ CbSuspends'
    BY <1>2, <1>a DEF Resume, RoomToCount, CbSuspends
  <2>3. DataOK'
    BY <1>2, <1>a, ThreadsApart
    DEF Resume, Step, DataOK
  <2> QED
    BY <2>1, <2>2, <2>3 DEF TypeInv, TypeOK
<1>3. CASE BeginSuspend(t)
  <2>1. PcOK'
    BY <1>3, <1>a, GotoTyped, ThreadsApart
    DEF BeginSuspend, Step, Free, Labels, SuspendLabels, StopLabels
  <2>2. RoomToCount' /\ CbSuspends'
    BY <1>3, <1>a, ThreadsApart, DspAssumption
    DEF BeginSuspend, Step, Goto, RoomToCount, CbSuspends, DataOK, PcOK
  <2>3. DataOK'
    BY <1>3, <1>a, ThreadsApart
    DEF BeginSuspend, Step, DataOK
  <2> QED
    BY <2>1, <2>2, <2>3 DEF TypeInv, TypeOK
<1>4. CASE BeginStop
  <2>1. PcOK'
    BY <1>4, <1>a, GotoTyped, ThreadsApart
    DEF BeginStop, Step, Free, Labels, SuspendLabels, StopLabels
  <2>2. RoomToCount' /\ CbSuspends'
    BY <1>4, <1>a, ThreadsApart, DspAssumption
    DEF BeginStop, Step, Goto, RoomToCount, CbSuspends, DataOK, PcOK
  <2>3. DataOK'
    BY <1>4, <1>a, ThreadsApart
    DEF BeginStop, Step, DataOK
  <2> QED
    BY <2>1, <2>2, <2>3 DEF TypeInv, TypeOK
<1> QED
  BY <1>1, <1>2, <1>3, <1>4

-----------------------------------------------------------------------------

LEMMA TypeInit == Init => TypeInv
<1> SUFFICES ASSUME Init PROVE TypeInv
  OBVIOUS
<1>1. PcOK
  BY ThreadsApart DEF Init, PcOK, AllLabels, Labels, Rest, DspLabels, CbLabels, Parked
<1>2. audioStream \in BOOLEAN /\ posted \in BOOLEAN /\ stopped \in BOOLEAN /\ parked \in
   BOOLEAN
  BY Zenon DEF Init
<1>3. DataOK
  BY <1>2, DspAssumption DEF Init, DataOK, Tasks, NoTask
<1>4. RoomToCount /\ CbSuspends
  BY ThreadsApart DEF Init, RoomToCount, CbSuspends, Rest
<1> QED
  BY <1>1, <1>3, <1>4 DEF TypeInv, TypeOK

LEMMA TypeStep == TypeInv /\ [Next]_vars => TypeInv'
<1> SUFFICES ASSUME TypeInv, [Next]_vars PROVE TypeInv'
  OBVIOUS
<1>1. CASE UNCHANGED vars
  BY <1>1 DEF vars, fields, streams, pool, locals, history, TypeInv, TypeOK, DataOK, PcOK,
     RoomToCount, CbSuspends
<1>2. CASE Next
  <2>1. UNCHANGED audioSource
    BY <1>2 DEF Next, Running
  <2>2. CASE DspStep
    BY <2>1, <2>2, DspStepTyped
  <2>3. CASE FireTask \/ PostPeriod \/ DeliverPeriod \/ CbStep
    BY <2>1, <2>3, CbStepTyped
  <2>4. CASE SuspendStep("cb")
    BY <2>1, <2>4, SuspendStepTyped, ThreadsApart
  <2>5. CASE ClientStep
    BY <2>1, <2>5, StopStepTyped, SuspendStepTyped, ThreadsApart DEF ClientStep
  <2>6. CASE Calls
    <3>1. PICK t \in Clients, c \in Configs :
             Configure(c) \/ Resume \/ BeginSuspend(t) \/ BeginStop
      BY <2>6, DspAssumption DEF Calls, TypeInv, TypeOK, DataOK
    <3> QED
      BY <2>1, <3>1, CallTyped
  <2> QED
    BY <1>2, <2>2, <2>3, <2>4, <2>5, <2>6 DEF Next
<1> QED
  BY <1>1, <1>2

\* Every field, local and history variable keeps its type and every thread keeps
\* to its own labels; in particular the callback, which shares stopRunning() with
\* stopDspThread(), never goes on into releaseIO(), and the count never passes
\* its bound although its increment is not atomic.
THEOREM DspTypeCorrect == Spec => []TypeOK
<1>1. TypeInv => TypeOK
  BY DEF TypeInv
<1> QED
  BY <1>1, TypeInit, TypeStep, PTL DEF Spec

-----------------------------------------------------------------------------
(* The callback and stopping *)

\* Everything that can start a callback comes after createPerformBuffer(), which
\* comes after the stream was made.
Prepared ==
    /\ audioStream => input = "consumed"
    /\ pc["dsp"] \notin {"top", "asleep", "setup", "dead"} => input = "consumed"
    /\ performLen > 0 => input = "consumed"
    /\ pc["dsp"] = "schedule" => performLen > 0
    /\ tasks # {} => performLen > 0
    /\ posted => performLen > 0
    /\ recorder = "recording" => performLen > 0
    /\ pc["cb"] # "idle" => performLen > 0

\* The Owner calls stopDspThread() once and nothing after it.
OwnerStopsOnce ==
    /\ ~stopped => /\ pc[Owner] \in {"free", "crashed", "stop"} \cup SuspendLabels
                   /\ pc[Owner] = "stop" => op[Owner] = "stop"
                   /\ pc[Owner] \in SuspendLabels => op[Owner] = "suspend"
    /\ stopped => /\ op[Owner] = "stop"
                  /\ pc[Owner] \in {"release", "stop1", "stop2", "stop3", "stop4", "forget",
                                    "relTrack", "dropTrack", "free", "crashed"}

\* With a microphone nobody but the Owner's thread is in the object's methods,
\* and there the callback and the calls take turns.
MicAlone ==
    audioSource = "MIC" =>
        /\ \A c \in Clients \ {Owner} : pc[c] = "free"
        /\ pc["cb"] = "idle" \/ pc[Owner] \in {"free", "crashed"}

\* The recorder goes with the stream: it is dropped before the stream is.
RecorderKept ==
    /\ pc[Owner] \in {"stop1", "stop2", "stop3", "stop4", "forget"} => audioStream
    /\ ~audioStream => recorder = "null"
    /\ audioSource = "WAV" => recorder = "null"
    /\ audioSource = "MIC" /\ pc[Owner] \in {"stop3", "forget"} => recorder = "null"

\* After a stop that found the DSP thread waiting, what releaseIO() has released
\* stays released, because the thread cannot get out of its waiting places.
StaysReleased ==
    stopped /\ parked =>
        /\ pc["dsp"] \in Parked
        /\ state # "PROCESSING"
        /\ pc[Owner] \in {"relTrack", "dropTrack", "free"} => ~audioStream
        /\ pc[Owner] = "free" => track = "null"

StopInv == OwnerStopsOnce /\ MicAlone /\ RecorderKept /\ StaysReleased

\* A step of the DSP thread.
LEMMA PrepareDspStep ==
    ASSUME TypeInv, Prepared, UNCHANGED audioSource, DspStep
    PROVE  Prepared'
<1> USE DEF fields, streams, pool, locals, history
<1>a. DataOK /\ PcOK /\ CbSuspends
  BY DEF TypeInv, TypeOK
<1>1. CASE Top
  BY <1>1, <1>a, ThreadsApart, DspAssumption
  DEF Top, Goto, PcOK, DataOK, Prepared
<1>2. CASE Wake
  BY <1>2, <1>a, ThreadsApart, DspAssumption
  DEF Wake, Step, Goto, PcOK, DataOK, Prepared
<1>3. CASE Setup
  BY <1>3, <1>a, ThreadsApart, DspAssumption
  DEF Setup, Step, Goto, PcOK, DataOK, Prepared
<1>4. CASE CreateBuffer
  BY <1>4, <1>a, ThreadsApart, DspAssumption
  DEF CreateBuffer, Step, Goto, PcOK, DataOK, Prepared
<1>5. CASE CheckTrack
  BY <1>5, <1>a, ThreadsApart, DspAssumption
  DEF CheckTrack, Step, Goto, PcOK, DataOK, Prepared
<1>6. CASE NewTrack
  BY <1>6, <1>a, ThreadsApart, DspAssumption
  DEF NewTrack, Step, Goto, PcOK, DataOK, Prepared
<1>7. CASE ResetDsp
  BY <1>7, <1>a, ThreadsApart, DspAssumption
  DEF ResetDsp, Step, Goto, PcOK, DataOK, Prepared
<1>8. CASE CreatePerformBuffer
  BY <1>8, <1>a, ThreadsApart, DspAssumption
  DEF CreatePerformBuffer, Step, Goto, PcOK, DataOK, Prepared
<1>9. CASE ScheduleNoStream
  BY <1>9, <1>a, ThreadsApart, DspAssumption
  DEF ScheduleNoStream, Step, Goto, PcOK, DataOK, Prepared
<1>10. CASE WavSchedule
  BY <1>10, <1>a, ThreadsApart, DspAssumption
  DEF WavSchedule, Step, Goto, PcOK, DataOK, Prepared
<1>11. CASE WavAssign
  BY <1>11, <1>a, ThreadsApart, DspAssumption
  DEF WavAssign, Step, Goto, PcOK, DataOK, Prepared
<1>12. CASE MicSchedule
  BY <1>12, <1>a, ThreadsApart, DspAssumption
  DEF MicSchedule, Step, Goto, PcOK, DataOK, Prepared
<1>13. CASE Play
  BY <1>13, <1>a, ThreadsApart, DspAssumption
  DEF Play, Step, Goto, PcOK, DataOK, Prepared
<1>14. CASE Enter
  BY <1>14, <1>a, ThreadsApart, DspAssumption
  DEF Enter, Step, Goto, PcOK, DataOK, Prepared
<1>15. CASE WavReadAll
  BY <1>15, <1>a, ThreadsApart, DspAssumption
  DEF WavReadAll, Step, Goto, ReadEnds, PcOK, DataOK, Prepared
<1>16. CASE WavReadEnd
  BY <1>16, <1>a, ThreadsApart, DspAssumption
  DEF WavReadEnd, Step, Goto, PcOK, DataOK, Prepared
<1>17. CASE MicReadTest
  BY <1>17, <1>a, ThreadsApart, DspAssumption
  DEF MicReadTest, Step, Goto, PcOK, DataOK, Prepared
<1>18. CASE MicRead
  BY <1>18, <1>a, ThreadsApart, DspAssumption
  DEF MicRead, Step, Goto, PcOK, DataOK, Prepared
<1> QED
  BY <1>1, <1>2, <1>3, <1>4, <1>5, <1>6, <1>7, <1>8, <1>9, <1>10, <1>11, <1>12, <1>13,
     <1>14, <1>15, <1>16, <1>17, <1>18
  DEF DspStep

\* A step of the callback, or what starts one.
LEMMA PrepareCbStep ==
    ASSUME TypeInv, Prepared, UNCHANGED audioSource, FireTask \/ PostPeriod \/ DeliverPeriod
       \/ CbStep
    PROVE  Prepared'
<1> USE DEF fields, streams, pool, locals, history
<1>a. DataOK /\ PcOK /\ CbSuspends
  BY DEF TypeInv, TypeOK
<1>1. CASE FireTask
  BY <1>1, <1>a, ThreadsApart, DspAssumption
  DEF FireTask, Step, Goto, PcOK, DataOK, Prepared
<1>2. CASE PostPeriod
  BY <1>2, <1>a, ThreadsApart, DspAssumption
  DEF PostPeriod, Goto, PcOK, DataOK, Prepared
<1>3. CASE DeliverPeriod
  BY <1>3, <1>a, ThreadsApart, DspAssumption
  DEF DeliverPeriod, Step, Goto, PcOK, DataOK, Prepared
<1>4. CASE Tick
  BY <1>4, <1>a, ThreadsApart, DspAssumption
  DEF Tick, Step, Goto, PcOK, DataOK, Prepared
<1>5. CASE Count
  BY <1>5, <1>a, ThreadsApart, DspAssumption
  DEF Count, Step, Goto, PcOK, DataOK, Prepared
<1>6. CASE Convert
  BY <1>6, <1>a, ThreadsApart, DspAssumption
  DEF Convert, Throw, Continue, Return, Rest, Goto, PcOK, DataOK, Prepared
<1>7. CASE Perform
  BY <1>7, <1>a, ThreadsApart, DspAssumption
  DEF Perform, Step, Goto, PcOK, DataOK, Prepared
<1>8. CASE Write
  BY <1>8, <1>a, ThreadsApart, DspAssumption
  DEF Write, Throw, Continue, Return, Rest, Goto, PcOK, DataOK, Prepared
<1>9. CASE WriteTrack
  BY <1>9, <1>a, ThreadsApart, DspAssumption
  DEF WriteTrack, Throw, Continue, Return, Rest, Goto, PcOK, DataOK, Prepared
<1>10. CASE Last
  BY <1>10, <1>a, ThreadsApart, DspAssumption
  DEF Last, Continue, Return, Rest, Goto, PcOK, DataOK, Prepared
<1> QED
  BY <1>1, <1>2, <1>3, <1>4, <1>5, <1>6, <1>7, <1>8, <1>9, <1>10 DEF CbStep

\* A step of suspendDsp() and stopRunning(), in a client or in the callback.
LEMMA PrepareSuspendStep ==
    ASSUME TypeInv, Prepared, UNCHANGED audioSource, NEW t \in Threads \ {"dsp"},
       SuspendStep(t)
    PROVE  Prepared'
<1> USE DEF fields, streams, pool, locals, history
<1>a. DataOK /\ PcOK /\ CbSuspends
  BY DEF TypeInv, TypeOK
<1>1. CASE SuspendState(t)
  BY <1>1, <1>a, ThreadsApart, DspAssumption
  DEF SuspendState, Step, Goto, PcOK, DataOK, Prepared
<1>2. CASE SuspendStream(t)
  BY <1>2, <1>a, ThreadsApart, DspAssumption
  DEF SuspendStream, Throw, Continue, Return, Rest, Goto, PcOK, DataOK, Prepared
<1>3. CASE WavStopFlag(t)
  BY <1>3, <1>a, ThreadsApart, DspAssumption
  DEF WavStopFlag, Step, Goto, PcOK, DataOK, Prepared
<1>4. CASE WavStopTest(t)
  BY <1>4, <1>a, ThreadsApart, DspAssumption
  DEF WavStopTest, StopReturn, Continue, Return, Rest, Goto, PcOK, DataOK, Prepared
<1>5. CASE WavStopCancel(t)
  BY <1>5, <1>a, ThreadsApart, DspAssumption
  DEF WavStopCancel, Throw, Continue, Return, Rest, Goto, PcOK, DataOK, Prepared
<1>6. CASE WavStopClear(t)
  BY <1>6, <1>a, ThreadsApart, DspAssumption
  DEF WavStopClear, StopReturn, Continue, Return, Rest, Goto, PcOK, DataOK, Prepared
<1>7. CASE MicStopRelease(t)
  BY <1>7, <1>a, ThreadsApart, DspAssumption
  DEF MicStopRelease, Throw, Continue, Return, Rest, Goto, PcOK, DataOK, Prepared
<1>8. CASE MicStopDrop(t)
  BY <1>8, <1>a, ThreadsApart, DspAssumption
  DEF MicStopDrop, Step, Goto, PcOK, DataOK, Prepared
<1>9. CASE MicStopFlag(t)
  BY <1>9, <1>a, ThreadsApart, DspAssumption
  DEF MicStopFlag, StopReturn, Continue, Return, Rest, Goto, PcOK, DataOK, Prepared
<1> QED
  BY <1>1, <1>2, <1>3, <1>4, <1>5, <1>6, <1>7, <1>8, <1>9 DEF SuspendStep

\* A step of stopDspThread() and releaseIO().
LEMMA PrepareStopStep ==
    ASSUME TypeInv, Prepared, UNCHANGED audioSource, StopStep
    PROVE  Prepared'
<1> USE DEF fields, streams, pool, locals, history
<1>a. DataOK /\ PcOK /\ CbSuspends
  BY DEF TypeInv, TypeOK
<1>1. CASE StopState
  BY <1>1, <1>a, ThreadsApart, DspAssumption
  DEF StopState, Step, Goto, PcOK, DataOK, Prepared
<1>2. CASE Release
  BY <1>2, <1>a, ThreadsApart, DspAssumption
  DEF Release, Step, Goto, PcOK, DataOK, Prepared
<1>3. CASE ForgetStream
  BY <1>3, <1>a, ThreadsApart, DspAssumption
  DEF ForgetStream, Step, Goto, PcOK, DataOK, Prepared
<1>4. CASE ReleaseTrack
  BY <1>4, <1>a, ThreadsApart, DspAssumption
  DEF ReleaseTrack, Continue, Return, Rest, Goto, PcOK, DataOK, Prepared
<1>5. CASE DropTrack
  BY <1>5, <1>a, ThreadsApart, DspAssumption
  DEF DropTrack, Continue, Return, Rest, Goto, PcOK, DataOK, Prepared
<1> QED
  BY <1>1, <1>2, <1>3, <1>4, <1>5 DEF StopStep

\* A step of the DSP thread.
LEMMA StopDspStep ==
    ASSUME TypeInv, StopInv, UNCHANGED audioSource, DspStep
    PROVE  StopInv'
<1> USE DEF fields, streams, pool, locals, history
<1>a. DataOK /\ PcOK /\ CbSuspends
  BY DEF TypeInv, TypeOK
<1>1. CASE Top
  <2>0. PICK l \in {"asleep", "setup", "dead"} :
            Goto("dsp", l) /\ (state # "PROCESSING" => l # "setup")
    BY <1>1, <1>a DEF Top, DataOK
  <2>1. OwnerStopsOnce' /\ MicAlone'
    BY <1>1, <1>a, ThreadsApart
    DEF Top, Goto, PcOK, StopInv, OwnerStopsOnce, MicAlone, CbSuspends, SuspendLabels
  <2>2. RecorderKept'
    BY <1>1, <1>a, ThreadsApart, DspAssumption
    DEF Top, Goto, PcOK, DataOK, StopInv, OwnerStopsOnce, MicAlone, RecorderKept, CbSuspends
  <2>3. StaysReleased'
    BY <1>1, <2>0, <1>a, ThreadsApart
    DEF Top, Goto, PcOK, StopInv, OwnerStopsOnce, StaysReleased, Parked, CbSuspends
  <2> QED
    BY <2>1, <2>2, <2>3 DEF StopInv
<1>2. CASE Wake
  BY <1>2, <1>a, ThreadsApart, DspAssumption
  DEF Wake, Step, Goto, PcOK, DataOK, StopInv, OwnerStopsOnce, MicAlone, RecorderKept,
      StaysReleased,
      SuspendLabels, Parked, CbSuspends
<1>3. CASE Setup
  BY <1>3, <1>a, ThreadsApart, DspAssumption
  DEF Setup, Step, Goto, PcOK, DataOK, StopInv, OwnerStopsOnce, MicAlone, RecorderKept,
      StaysReleased,
      SuspendLabels, Parked, CbSuspends
<1>4. CASE CreateBuffer
  BY <1>4, <1>a, ThreadsApart, DspAssumption
  DEF CreateBuffer, Step, Goto, PcOK, DataOK, StopInv, OwnerStopsOnce, MicAlone,
      RecorderKept, StaysReleased,
      SuspendLabels, Parked, CbSuspends
<1>5. CASE CheckTrack
  BY <1>5, <1>a, ThreadsApart, DspAssumption
  DEF CheckTrack, Step, Goto, PcOK, DataOK, StopInv, OwnerStopsOnce, MicAlone, RecorderKept,
      StaysReleased,
      SuspendLabels, Parked, CbSuspends
<1>6. CASE NewTrack
  BY <1>6, <1>a, ThreadsApart, DspAssumption
  DEF NewTrack, Step, Goto, PcOK, DataOK, StopInv, OwnerStopsOnce, MicAlone, RecorderKept,
      StaysReleased,
      SuspendLabels, Parked, CbSuspends
<1>7. CASE ResetDsp
  BY <1>7, <1>a, ThreadsApart, DspAssumption
  DEF ResetDsp, Step, Goto, PcOK, DataOK, StopInv, OwnerStopsOnce, MicAlone, RecorderKept,
      StaysReleased,
      SuspendLabels, Parked, CbSuspends
<1>8. CASE CreatePerformBuffer
  BY <1>8, <1>a, ThreadsApart, DspAssumption
  DEF CreatePerformBuffer, Step, Goto, PcOK, DataOK, StopInv, OwnerStopsOnce, MicAlone,
      RecorderKept, StaysReleased,
      SuspendLabels, Parked, CbSuspends
<1>9. CASE ScheduleNoStream
  BY <1>9, <1>a, ThreadsApart, DspAssumption
  DEF ScheduleNoStream, Step, Goto, PcOK, DataOK, StopInv, OwnerStopsOnce, MicAlone,
      RecorderKept, StaysReleased,
      SuspendLabels, Parked, CbSuspends
<1>10. CASE WavSchedule
  BY <1>10, <1>a, ThreadsApart, DspAssumption
  DEF WavSchedule, Step, Goto, PcOK, DataOK, StopInv, OwnerStopsOnce, MicAlone,
      RecorderKept, StaysReleased,
      SuspendLabels, Parked, CbSuspends
<1>11. CASE WavAssign
  BY <1>11, <1>a, ThreadsApart, DspAssumption
  DEF WavAssign, Step, Goto, PcOK, DataOK, StopInv, OwnerStopsOnce, MicAlone, RecorderKept,
      StaysReleased,
      SuspendLabels, Parked, CbSuspends
<1>12. CASE MicSchedule
  BY <1>12, <1>a, ThreadsApart, DspAssumption
  DEF MicSchedule, Step, Goto, PcOK, DataOK, StopInv, OwnerStopsOnce, MicAlone,
      RecorderKept, StaysReleased,
      SuspendLabels, Parked, CbSuspends
<1>13. CASE Play
  BY <1>13, <1>a, ThreadsApart, DspAssumption
  DEF Play, Step, Goto, PcOK, DataOK, StopInv, OwnerStopsOnce, MicAlone, RecorderKept,
      StaysReleased,
      SuspendLabels, Parked, CbSuspends
<1>14. CASE Enter
  BY <1>14, <1>a, ThreadsApart, DspAssumption
  DEF Enter, Step, Goto, PcOK, DataOK, StopInv, OwnerStopsOnce, MicAlone, RecorderKept,
      StaysReleased,
      SuspendLabels, Parked, CbSuspends
<1>15. CASE WavReadAll
  BY <1>15, <1>a, ThreadsApart, DspAssumption
  DEF WavReadAll, Step, Goto, ReadEnds, PcOK, DataOK, StopInv, OwnerStopsOnce, MicAlone,
      RecorderKept, StaysReleased,
      SuspendLabels, Parked, CbSuspends
<1>16. CASE WavReadEnd
  BY <1>16, <1>a, ThreadsApart, DspAssumption
  DEF WavReadEnd, Step, Goto, PcOK, DataOK, StopInv, OwnerStopsOnce, MicAlone, RecorderKept,
      StaysReleased,
      SuspendLabels, Parked, CbSuspends
<1>17. CASE MicReadTest
  BY <1>17, <1>a, ThreadsApart, DspAssumption
  DEF MicReadTest, Step, Goto, PcOK, DataOK, StopInv, OwnerStopsOnce, MicAlone,
      RecorderKept, StaysReleased,
      SuspendLabels, Parked, CbSuspends
<1>18. CASE MicRead
  BY <1>18, <1>a, ThreadsApart, DspAssumption
  DEF MicRead, Step, Goto, PcOK, DataOK, StopInv, OwnerStopsOnce, MicAlone, RecorderKept,
      StaysReleased,
      SuspendLabels, Parked, CbSuspends
<1> QED
  BY <1>1, <1>2, <1>3, <1>4, <1>5, <1>6, <1>7, <1>8, <1>9, <1>10, <1>11, <1>12, <1>13,
     <1>14, <1>15, <1>16, <1>17, <1>18
  DEF DspStep

\* A step of the callback, or what starts one.
LEMMA StopCbStep ==
    ASSUME TypeInv, StopInv, UNCHANGED audioSource, FireTask \/ PostPeriod \/ DeliverPeriod
       \/ CbStep
    PROVE  StopInv'
<1> USE DEF fields, streams, pool, locals, history
<1>a. DataOK /\ PcOK /\ CbSuspends
  BY DEF TypeInv, TypeOK
<1>1. CASE FireTask
  BY <1>1, <1>a, ThreadsApart, DspAssumption
  DEF FireTask, Step, Goto, PcOK, DataOK, StopInv, OwnerStopsOnce, MicAlone, RecorderKept,
      StaysReleased,
      SuspendLabels, Parked, CbSuspends
<1>2. CASE PostPeriod
  BY <1>2, <1>a, ThreadsApart, DspAssumption
  DEF PostPeriod, Goto, PcOK, DataOK, StopInv, OwnerStopsOnce, MicAlone, RecorderKept,
      StaysReleased,
      SuspendLabels, Parked, CbSuspends
<1>3. CASE DeliverPeriod
  BY <1>3, <1>a, ThreadsApart, DspAssumption
  DEF DeliverPeriod, Step, Goto, PcOK, DataOK, StopInv, OwnerStopsOnce, MicAlone,
      RecorderKept, StaysReleased,
      SuspendLabels, Parked, CbSuspends
<1>4. CASE Tick
  BY <1>4, <1>a, ThreadsApart, DspAssumption
  DEF Tick, Step, Goto, PcOK, DataOK, StopInv, OwnerStopsOnce, MicAlone, RecorderKept,
      StaysReleased,
      SuspendLabels, Parked, CbSuspends
<1>5. CASE Count
  BY <1>5, <1>a, ThreadsApart, DspAssumption
  DEF Count, Step, Goto, PcOK, DataOK, StopInv, OwnerStopsOnce, MicAlone, RecorderKept,
      StaysReleased,
      SuspendLabels, Parked, CbSuspends
<1>6. CASE Convert
  BY <1>6, <1>a, ThreadsApart, DspAssumption
  DEF Convert, Throw, Continue, Return, Rest, Goto, PcOK, DataOK, StopInv, OwnerStopsOnce,
      MicAlone, RecorderKept, StaysReleased,
      SuspendLabels, Parked, CbSuspends
<1>7. CASE Perform
  BY <1>7, <1>a, ThreadsApart, DspAssumption
  DEF Perform, Step, Goto, PcOK, DataOK, StopInv, OwnerStopsOnce, MicAlone, RecorderKept,
      StaysReleased,
      SuspendLabels, Parked, CbSuspends
<1>8. CASE Write
  BY <1>8, <1>a, ThreadsApart, DspAssumption
  DEF Write, Throw, Continue, Return, Rest, Goto, PcOK, DataOK, StopInv, OwnerStopsOnce,
      MicAlone, RecorderKept, StaysReleased,
      SuspendLabels, Parked, CbSuspends
<1>9. CASE WriteTrack
  BY <1>9, <1>a, ThreadsApart, DspAssumption
  DEF WriteTrack, Throw, Continue, Return, Rest, Goto, PcOK, DataOK, StopInv,
      OwnerStopsOnce, MicAlone, RecorderKept, StaysReleased,
      SuspendLabels, Parked, CbSuspends
<1>10. CASE Last
  <2>0. op'[Owner] = op[Owner]
    BY <1>10, <1>a, ThreadsApart DEF Last, DataOK
  <2>1. OwnerStopsOnce' /\ MicAlone'
    BY <1>10, <2>0, <1>a, ThreadsApart
    DEF Last, Continue, Return, Rest, Goto, PcOK, StopInv, OwnerStopsOnce, MicAlone,
        CbSuspends, SuspendLabels
  <2>2. RecorderKept'
    BY <1>10, <1>a, ThreadsApart, DspAssumption
    DEF Last, Continue, Return, Rest, Goto, PcOK, DataOK, StopInv, OwnerStopsOnce, MicAlone,
        RecorderKept, CbSuspends
  <2>3. StaysReleased'
    BY <1>10, <1>a, ThreadsApart
    DEF Last, Continue, Return, Rest, Goto, PcOK, StopInv, OwnerStopsOnce, StaysReleased,
        Parked, CbSuspends
  <2> QED
    BY <2>1, <2>2, <2>3 DEF StopInv
<1> QED
  BY <1>1, <1>2, <1>3, <1>4, <1>5, <1>6, <1>7, <1>8, <1>9, <1>10 DEF CbStep

\* A step of suspendDsp() and stopRunning(), in a client or in the callback.
LEMMA StopSuspendStep ==
    ASSUME TypeInv, StopInv, UNCHANGED audioSource, NEW t \in Threads \ {"dsp"},
       SuspendStep(t)
    PROVE  StopInv'
<1> USE DEF fields, streams, pool, locals, history
<1>a. DataOK /\ PcOK /\ CbSuspends
  BY DEF TypeInv, TypeOK
<1>1. CASE SuspendState(t)
  BY <1>1, <1>a, ThreadsApart, DspAssumption
  DEF SuspendState, Step, Goto, PcOK, DataOK, StopInv, OwnerStopsOnce, MicAlone,
      RecorderKept, StaysReleased,
      SuspendLabels, Parked, CbSuspends
<1>2. CASE SuspendStream(t)
  BY <1>2, <1>a, ThreadsApart, DspAssumption
  DEF SuspendStream, Throw, Continue, Return, Rest, Goto, PcOK, DataOK, StopInv,
      OwnerStopsOnce, MicAlone, RecorderKept, StaysReleased,
      SuspendLabels, Parked, CbSuspends
<1>3. CASE WavStopFlag(t)
  BY <1>3, <1>a, ThreadsApart, DspAssumption
  DEF WavStopFlag, Step, Goto, PcOK, DataOK, StopInv, OwnerStopsOnce, MicAlone,
      RecorderKept, StaysReleased,
      SuspendLabels, Parked, CbSuspends
<1>4. CASE WavStopTest(t)
  BY <1>4, <1>a, ThreadsApart, DspAssumption
  DEF WavStopTest, StopReturn, Continue, Return, Rest, Goto, PcOK, DataOK, StopInv,
      OwnerStopsOnce, MicAlone, RecorderKept, StaysReleased,
      SuspendLabels, Parked, CbSuspends
<1>5. CASE WavStopCancel(t)
  BY <1>5, <1>a, ThreadsApart, DspAssumption
  DEF WavStopCancel, Throw, Continue, Return, Rest, Goto, PcOK, DataOK, StopInv,
      OwnerStopsOnce, MicAlone, RecorderKept, StaysReleased,
      SuspendLabels, Parked, CbSuspends
<1>6. CASE WavStopClear(t)
  BY <1>6, <1>a, ThreadsApart, DspAssumption
  DEF WavStopClear, StopReturn, Continue, Return, Rest, Goto, PcOK, DataOK, StopInv,
      OwnerStopsOnce, MicAlone, RecorderKept, StaysReleased,
      SuspendLabels, Parked, CbSuspends
<1>7. CASE MicStopRelease(t)
  BY <1>7, <1>a, ThreadsApart, DspAssumption
  DEF MicStopRelease, Throw, Continue, Return, Rest, Goto, PcOK, DataOK, StopInv,
      OwnerStopsOnce, MicAlone, RecorderKept, StaysReleased,
      SuspendLabels, Parked, CbSuspends
<1>8. CASE MicStopDrop(t)
  BY <1>8, <1>a, ThreadsApart, DspAssumption
  DEF MicStopDrop, Step, Goto, PcOK, DataOK, StopInv, OwnerStopsOnce, MicAlone,
      RecorderKept, StaysReleased,
      SuspendLabels, Parked, CbSuspends
<1>9. CASE MicStopFlag(t)
  BY <1>9, <1>a, ThreadsApart, DspAssumption
  DEF MicStopFlag, StopReturn, Continue, Return, Rest, Goto, PcOK, DataOK, StopInv,
      OwnerStopsOnce, MicAlone, RecorderKept, StaysReleased,
      SuspendLabels, Parked, CbSuspends
<1> QED
  BY <1>1, <1>2, <1>3, <1>4, <1>5, <1>6, <1>7, <1>8, <1>9 DEF SuspendStep

\* A step of stopDspThread() and releaseIO().
LEMMA StopStopStep ==
    ASSUME TypeInv, StopInv, UNCHANGED audioSource, StopStep
    PROVE  StopInv'
<1> USE DEF fields, streams, pool, locals, history
<1>a. DataOK /\ PcOK /\ CbSuspends
  BY DEF TypeInv, TypeOK
<1>1. CASE StopState
  BY <1>1, <1>a, ThreadsApart, DspAssumption
  DEF StopState, Step, Goto, PcOK, DataOK, StopInv, OwnerStopsOnce, MicAlone, RecorderKept,
      StaysReleased,
      SuspendLabels, Parked, CbSuspends
<1>2. CASE Release
  BY <1>2, <1>a, ThreadsApart, DspAssumption
  DEF Release, Step, Goto, PcOK, DataOK, StopInv, OwnerStopsOnce, MicAlone, RecorderKept,
      StaysReleased,
      SuspendLabels, Parked, CbSuspends
<1>3. CASE ForgetStream
  BY <1>3, <1>a, ThreadsApart, DspAssumption
  DEF ForgetStream, Step, Goto, PcOK, DataOK, StopInv, OwnerStopsOnce, MicAlone,
      RecorderKept, StaysReleased,
      SuspendLabels, Parked, CbSuspends
<1>4. CASE ReleaseTrack
  BY <1>4, <1>a, ThreadsApart, DspAssumption
  DEF ReleaseTrack, Continue, Return, Rest, Goto, PcOK, DataOK, StopInv, OwnerStopsOnce,
      MicAlone, RecorderKept, StaysReleased,
      SuspendLabels, Parked, CbSuspends
<1>5. CASE DropTrack
  BY <1>5, <1>a, ThreadsApart, DspAssumption
  DEF DropTrack, Continue, Return, Rest, Goto, PcOK, DataOK, StopInv, OwnerStopsOnce,
      MicAlone, RecorderKept, StaysReleased,
      SuspendLabels, Parked, CbSuspends
<1> QED
  BY <1>1, <1>2, <1>3, <1>4, <1>5 DEF StopStep

-----------------------------------------------------------------------------
(* Calls, and the two theorems *)

\* A call of a client.
LEMMA PrepareCall == ASSUME TypeInv, Prepared, UNCHANGED audioSource, Calls PROVE Prepared'
<1> USE DEF fields, streams, pool, locals, history
<1>1. PcOK
  BY DEF TypeInv, TypeOK
<1>2. CASE \E c \in Configs : Configure(c)
  BY <1>2 DEF Configure, Prepared
<1>3. CASE Resume
  BY <1>3 DEF Resume, Prepared
<1>4. CASE \E t \in Clients : BeginSuspend(t)
  BY <1>1, <1>4, ThreadsApart DEF BeginSuspend, Goto, PcOK, Prepared
<1>5. CASE BeginStop
  BY <1>1, <1>5, ThreadsApart DEF BeginStop, Goto, PcOK, Prepared
<1> QED
  BY <1>2, <1>3, <1>4, <1>5, DspAssumption DEF Calls

LEMMA StopCall == ASSUME TypeInv, StopInv, UNCHANGED audioSource, Calls PROVE StopInv'
<1> USE DEF fields, streams, pool, locals, history
<1>1. PcOK /\ op \in [Threads \ {"dsp"} -> {"suspend", "stop"}]
  BY DEF TypeInv, TypeOK, DataOK
<1>2. CASE ~stopped /\ \E c \in Configs : Configure(c)
  BY <1>2 DEF Configure, StopInv, OwnerStopsOnce, MicAlone, RecorderKept, StaysReleased
<1>3. CASE ~stopped /\ Resume
  BY <1>3 DEF Resume, StopInv, OwnerStopsOnce, MicAlone, RecorderKept, StaysReleased
<1>4. CASE ~stopped /\ audioSource = "WAV" /\ BeginSuspend(Owner)
  BY <1>1, <1>4, ThreadsApart
  DEF BeginSuspend, Goto, PcOK, SuspendLabels, StopInv, OwnerStopsOnce, MicAlone,
      RecorderKept, StaysReleased
<1>5. CASE ~stopped /\ BeginStop
  BY <1>1, <1>5, ThreadsApart
  DEF BeginStop, Free, Goto, PcOK, SuspendLabels, StopInv, OwnerStopsOnce, MicAlone,
      RecorderKept, StaysReleased
<1>6. CASE audioSource = "WAV" /\ \E c \in Clients \ {Owner} : BeginSuspend(c)
  BY <1>1, <1>6, ThreadsApart
  DEF BeginSuspend, Goto, PcOK, StopInv, OwnerStopsOnce, MicAlone, RecorderKept,
      StaysReleased
<1> QED
  BY <1>2, <1>3, <1>4, <1>5, <1>6 DEF Calls

LEMMA PrepareStep == TypeInv /\ Prepared /\ [Next]_vars => Prepared'
<1> SUFFICES ASSUME TypeInv, Prepared, [Next]_vars PROVE Prepared'
  OBVIOUS
<1>1. CASE UNCHANGED vars
  BY <1>1 DEF vars, fields, streams, pool, Prepared
<1>2. CASE Next
  <2>1. UNCHANGED audioSource
    BY <1>2 DEF Next, Running
  <2>2. CASE DspStep
    BY <2>1, <2>2, PrepareDspStep
  <2>3. CASE FireTask \/ PostPeriod \/ DeliverPeriod \/ CbStep
    BY <2>1, <2>3, PrepareCbStep
  <2>4. CASE SuspendStep("cb") \/ ClientStep
    BY <2>1, <2>4, PrepareSuspendStep, PrepareStopStep, ThreadsApart DEF ClientStep
  <2>5. CASE Calls
    BY <2>1, <2>5, PrepareCall
  <2> QED
    BY <1>2, <2>2, <2>3, <2>4, <2>5 DEF Next
<1> QED
  BY <1>1, <1>2

LEMMA StopStepInv == TypeInv /\ StopInv /\ [Next]_vars => StopInv'
<1> SUFFICES ASSUME TypeInv, StopInv, [Next]_vars PROVE StopInv'
  OBVIOUS
<1>1. CASE UNCHANGED vars
  BY <1>1 DEF vars, fields, streams, history, StopInv, OwnerStopsOnce, MicAlone,
     RecorderKept, StaysReleased
<1>2. CASE Next
  <2>1. UNCHANGED audioSource
    BY <1>2 DEF Next, Running
  <2>2. CASE DspStep
    BY <2>1, <2>2, StopDspStep
  <2>3. CASE FireTask \/ PostPeriod \/ DeliverPeriod \/ CbStep
    BY <2>1, <2>3, StopCbStep
  <2>4. CASE SuspendStep("cb") \/ ClientStep
    BY <2>1, <2>4, StopSuspendStep, StopStopStep, ThreadsApart DEF ClientStep
  <2>5. CASE Calls
    BY <2>1, <2>5, StopCall
  <2> QED
    BY <1>2, <2>2, <2>3, <2>4, <2>5 DEF Next
<1> QED
  BY <1>1, <1>2

LEMMA StopInit == Init => Prepared /\ StopInv
BY ThreadsApart
DEF Init, Rest, Prepared, StopInv, OwnerStopsOnce, MicAlone, RecorderKept, StaysReleased

\* A callback runs only when performBuffer exists and its stream was made: the
\* hazard is a callback between the scheduling and the assignment of the task,
\* or one that comes after the stop.
THEOREM DspCallbackAfterSetup == Spec => []CallbackAfterSetup
<1>1. TypeInv /\ Prepared => CallbackAfterSetup
  BY DEF Prepared, CallbackAfterSetup
<1> QED
  BY <1>1, TypeInit, TypeStep, StopInit, PrepareStep, PTL DEF Spec

\* A stop that finds the DSP thread waiting is final: the stream, the track and
\* the recorder are gone when it returns, whatever the callback (whose
\* suspendDsp() may still overwrite STATE_STOPPED) and the other clients do
\* meanwhile, and the thread never opens them again.
THEOREM DspParkedStopReleases == Spec => []ParkedStopReleases
<1>1. StopInv => ParkedStopReleases
  BY DEF StopInv, RecorderKept, StaysReleased, ParkedStopReleases, Over
<1> QED
  BY <1>1, TypeInit, TypeStep, StopInit, StopStepInv, PTL DEF Spec

=============================================================================

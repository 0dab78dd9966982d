---------------------------- MODULE LiveSession -----------------------------
(***************************************************************************)
(* One session of the live screen (activities/LiveActivity.java): the       *)
(* toggle creates a DspThread with the chosen block size, algorithm and     *)
(* source, starts and resumes it; the next toggle (or "back", or any change *)
(* of a choice, which restarts the session) stops it and drops it.  Objects *)
(* of two sessions share nothing, so one session is modelled.               *)
(***************************************************************************)
EXTENDS DspThread

\* setMaxDspCycles() is never called by the live screen.
ASSUME LiveAssumption == MaxDspCycles = 0

VARIABLE session    \* what the user sees: "on" until resumed, "running", "off"

liveVars == <<vars, session>>

LiveTypeOK == TypeOK /\ session \in {"on", "running", "off"}

\* toggleDSP(), the ON branch up to dt.start().
LiveInit == Init /\ session = "on"

\* dt.resumeDsp(), the last call of the ON branch.
ToggleOn ==
    /\ session = "on"
    /\ Resume
    /\ session' = "running"

\* A bug: the OFF branch suspends the object and forgets it.
ToggleOffSuspends ==
    /\ session = "running"
    /\ BeginSuspend(Owner)
    /\ session' = "off"

\* toggleDSP(), the OFF branch: dt.stopDspThread(), at any moment of the session.
ToggleOff ==
    /\ session = "running"
    /\ BeginStop
    /\ session' = "off"

ThreadStep ==
    \/ DspStep
    \/ FireTask \/ PostPeriod \/ DeliverPeriod
    \/ CbStep \/ SuspendStep("cb")
    \/ ClientStep

\* The session may be left on for ever, and a session that is off is over.
LiveNext ==
    /\ Running
    /\ \/ ToggleOn
       \/ ToggleOff
       \/ ThreadStep /\ UNCHANGED session

LiveSpec ==
    /\ LiveInit /\ [][LiveNext]_liveVars /\ Fairness
    /\ WF_liveVars(Running /\ ToggleOn)

-----------------------------------------------------------------------------
(* Properties *)

\* No toggle, at whatever moment of the other threads' work, throws on the UI
\* thread, and no callback of the microphone, which runs there too, does.
ToggleNeverCrashes == Alive

\* Turning processing off while the DSP thread waits (in its read loop, say)
\* kills it, and nothing it used is left behind: no stream, no track, no
\* recorder and no periodic task.
ParkedStopKills ==
    [](session = "off" /\ Over /\ parked =>
        <>[](/\ pc["dsp"] = "dead" /\ pc["cb"] = "idle"
             /\ ~audioStream /\ track = "null" /\ recorder = "null" /\ tasks = {}))

\* A WAV stream whose last block does not fit its buffer: two blocks are fewer
\* than the 22 shorts of the header that is skipped a second time.
TooShort == audioSource = "WAV" /\ Block(config) < 11

\* A session that is on comes to its read loop and stays there until the user
\* turns it off, unless its blocks are too short for it.
Plays ==
    session = "running" ~>
        [](session = "off" \/ TooShort \/ pc["dsp"] \in {"rlSpin", "rlRead", "rlDeref"})

\* What the class promises of the stop ("to kill the thread, use
\* stopDspThread()"), at whatever moment it comes.  It fails when the stop comes
\* while the thread is opening its I/O.
StopKills == session = "off" ~> pc["dsp"] = "dead"

\* The thread "runs until stopDspThread() is called", with one exception: with
\* the block sizes the screen offers below 11, a WAV stream throws in its first
\* reading, and the thread ends with its state unchanged.
RunsUntilStopped == pc["dsp"] = "dead" => stopped \/ TooShort
=============================================================================

---------------------------- MODULE TestsProofs -----------------------------
(***************************************************************************)
(* AllTests for every plan and every number of cycles.  With any timing: the *)
(* handshake between the control thread and the looper, the order of the     *)
(* rows, the refinement of TestPlan, and the types.  The DSP thread takes no *)
(* part in the first three: no step of it touches what the two talk through. *)
(* With sleeps that are long enough, and nobody breaking off: what the       *)
(* sleeps are there for, which is about all the threads together.            *)
(***************************************************************************)
EXTENDS AllTests, DspProofs

\* The message the control thread waits for at a label.
Sent == [label \in {"afterLaunch", "afterRelease", "afterStore", "afterFinish"} |->
            CASE label = "afterLaunch" -> "launch" [] label = "afterRelease" -> "release"
              [] label = "afterStore" -> "store"   [] label = "afterFinish" -> "finish"]

\* The handshake, with the places where the looper owes an answer.
TalkInv ==
    /\ ctl \in CtlLabels /\ ui \in UiLabels
    /\ running \in BOOLEAN /\ done \in BOOLEAN /\ replying \in BOOLEAN
    /\ queue = <<>> \/ (queue = <<Head(queue)>> /\ queue # <<>>)
    /\ queue # <<>> => /\ Awaiting /\ ~done /\ ~replying
                       /\ Head(queue).action \in {Sent[ctl], "reply"}
    /\ replying => Awaiting /\ ~done
    /\ Awaiting /\ ~done => replying \/ queue # <<>>
    /\ ui \in {"resume", "reply"} => replying

-----------------------------------------------------------------------------
(* Queues of one message *)

\* Sending to an empty queue and taking from a queue of one.
LEMMA QueueFacts ==
    /\ \A m : Append(<<>>, m) = <<m>> /\ Head(<<m>>) = m /\ Tail(<<m>>) = <<>> /\ <<m>> # <<>>
    /\ Len(<<>>) = 0
    /\ \A m : Len(<<m>>) = 1
  OBVIOUS

\* A message is sent while nothing is under way, and is then all there is.
LEMMA SendTalk ==
    ASSUME TalkInv,
           NEW from \in CtlLabels, NEW to \in {"afterLaunch", "afterRelease", "afterStore", "afterFinish"},
           NEW msg, msg.action = Sent[to],
           from \notin {"afterLaunch", "afterRelease", "afterStore", "afterFinish"},
           Send(from, to, msg)
    PROVE  TalkInv'
  <1>1. queue = <<>> /\ ~replying
    BY DEF TalkInv, Awaiting, Send, CtlGoto
  <1>2. queue' = <<msg>> /\ Head(queue') = msg /\ queue' # <<>>
    BY <1>1, QueueFacts DEF Send
  <1>3. ctl' = to /\ done' = FALSE /\ running' = running /\ replying' = replying /\ ui' = ui
    BY DEF Send, CtlGoto, uiVars
  <1> QED BY <1>1, <1>2, <1>3 DEF TalkInv, Awaiting, CtlLabels

\* Waiting is over: the flag is set and nothing is on its way.
LEMMA AwaitTalk ==
    ASSUME TalkInv,
           NEW from \in {"afterLaunch", "afterRelease", "afterStore", "afterFinish"},
           NEW to \in CtlLabels,
           to \notin {"afterLaunch", "afterRelease", "afterStore", "afterFinish"},
           Await(from, to)
    PROVE  TalkInv' /\ queue = <<>> /\ ~replying
  <1>1. queue = <<>> /\ ~replying
    BY DEF TalkInv, Awaiting, Await
  <1>2. /\ ctl' = to /\ done' = done /\ running' = running /\ replying' = replying /\ ui' = ui
        /\ queue' = queue
    BY DEF Await, CtlGoto, uiVars
  <1> QED BY <1>1, <1>2 DEF TalkInv, Awaiting

\* Any other step of the control thread is between two messages.
LEMMA QuietTalk ==
    ASSUME TalkInv, ~Awaiting, ~Awaiting', ctl' \in CtlLabels, running' \in BOOLEAN,
           UNCHANGED <<queue, done, replying, ui>>
    PROVE  TalkInv'
  BY DEF TalkInv

LEMMA TalkInit == TestsInit => TalkInv
  BY QueueFacts DEF TestsInit, TalkInv, Awaiting, CtlLabels, UiLabels

LEMMA TalkCtl == ASSUME TalkInv, CtlStep PROVE TalkInv'
  <1> USE DEF CtlLabels
  <1>1. CASE CtlStart
    <2>1. ~Awaiting /\ ~Awaiting' /\ ctl' \in CtlLabels /\ running' \in BOOLEAN
      BY <1>1 DEF CtlStart, CtlGoto, Awaiting
    <2> QED BY <1>1, <2>1, QuietTalk DEF CtlStart, uiVars
  <1>2. CASE CtlHead \/ CtlProbe \/ CtlWait \/ CtlJudge \/ CtlSleep \/ CtlTail \/ CtlScreen
    <2>1. ~Awaiting /\ ~Awaiting' /\ ctl' \in CtlLabels /\ running' = running
      BY <1>2 DEF CtlHead, CtlProbe, CtlWait, CtlJudge, CtlSleep, CtlTail, CtlScreen, Awaiting,
                  WaitExit
    <2>2. UNCHANGED <<queue, done, uiVars>>
      BY <1>2 DEF CtlHead, CtlProbe, CtlWait, CtlJudge, CtlSleep, CtlTail, CtlScreen
    <2> QED BY <2>1, <2>2, QuietTalk DEF uiVars, TalkInv
  <1>3. CASE CtlSeesSuspended \/ CtlSeesBusy \/ CtlBreaksOff \/ CtlMeasure
    <2>1. ~Awaiting /\ ~Awaiting' /\ ctl' \in CtlLabels /\ running' = running
      BY <1>3 DEF CtlSeesSuspended, CtlSeesBusy, CtlBreaksOff, CtlMeasure, CtlGoto, Awaiting,
                  WaitExit
    <2>2. UNCHANGED <<queue, done, uiVars>>
      BY <1>3 DEF CtlSeesSuspended, CtlSeesBusy, CtlBreaksOff, CtlMeasure
    <2> QED BY <2>1, <2>2, QuietTalk DEF uiVars, TalkInv
  <1>4. CASE CtlNoThread
    BY <1>4 DEF CtlNoThread, ctlVars, uiVars, TalkInv, Awaiting
  <1>5. CASE \E from \in {"launch", "release", "store", "finish"},
                to \in {"wait", "sleep", "again", "tail", "over"} : Skip(from, to)
    <2>1. ~Awaiting /\ ~Awaiting' /\ ctl' \in CtlLabels /\ running' = running
      BY <1>5 DEF Skip, CtlGoto, Awaiting
    <2>2. UNCHANGED <<queue, done, uiVars>>
      BY <1>5 DEF Skip
    <2> QED BY <2>1, <2>2, QuietTalk DEF uiVars, TalkInv
  <1>6. ASSUME NEW from \in {"afterLaunch", "afterRelease", "afterStore", "afterFinish"},
               NEW to \in {"wait", "sleep", "again", "tail", "over"}, Await(from, to)
        PROVE  TalkInv'
    BY <1>6, AwaitTalk
  <1>7. CASE CtlLaunch
    <2>1. CASE Send("launch", "afterLaunch", [action |-> "launch", config |-> CurrentConfig])
      BY <2>1, SendTalk DEF Sent
    <2> QED BY <1>5, <1>6, <1>7, <2>1 DEF CtlLaunch
  <1>8. CASE CtlRelease
    <2>1. CASE Send("release", "afterRelease", [action |-> "release"])
      BY <2>1, SendTalk DEF Sent
    <2>2. AfterRelease \in {"sleep", "again"}
      BY DEF AfterRelease
    <2> QED BY <1>5, <1>6, <1>8, <2>1, <2>2 DEF CtlRelease
  <1>9. CASE CtlStore
    <2> DEFINE msg == [action |-> "store", unit |-> unit,
                       stress |-> IF InPhase2(unit) THEN search.m ELSE 0]
    <2>1. CASE Send("store", "afterStore", msg)
      <3>1. msg.action = Sent["afterStore"]
        BY DEF Sent
      <3> QED BY <2>1, <3>1, SendTalk
    <2> QED BY <1>5, <1>6, <1>9, <2>1 DEF CtlStore
  <1>10. CASE CtlFinish
    <2>1. CASE Send("finish", "afterFinish", [action |-> "finish"])
      BY <2>1, SendTalk DEF Sent
    <2> QED BY <1>5, <1>6, <1>10, <2>1 DEF CtlFinish
  <1> QED BY <1>1, <1>2, <1>3, <1>4, <1>7, <1>8, <1>9, <1>10 DEF CtlStep

\* The looper takes a message: it is the one the control thread waits for.
LEMMA ReceiveTalk ==
    ASSUME TalkInv, NEW action, Receive(action), action # "reply"
    PROVE  /\ Awaiting /\ ~done /\ ~replying /\ action = Sent[ctl]
           /\ queue' = <<>> /\ replying' = TRUE
  BY QueueFacts DEF TalkInv, Receive

LEMMA TalkUi == ASSUME TalkInv, UiStep PROVE TalkInv'
  <1> USE DEF UiLabels
  <1>1. CASE UiLaunch \/ UiLaunchThrows \/ UiRelease \/ UiStore \/ UiFinish \/ UiNoThread
    <2>1. PICK action \in {"launch", "release", "store", "finish"} : Receive(action)
      BY <1>1 DEF UiLaunch, UiLaunchThrows, UiRelease, UiStore, UiFinish, UiNoThread
    <2>2. Awaiting /\ ~done /\ queue' = <<>> /\ replying' = TRUE
      BY <2>1, ReceiveTalk
    <2>3. UNCHANGED ctlVars /\ ui' \in {"looper", "resume", "reply", "close"}
      BY <1>1 DEF UiLaunch, UiLaunchThrows, UiRelease, UiStore, UiFinish, UiNoThread, Receive
    <2> QED BY <2>2, <2>3 DEF TalkInv, Awaiting, ctlVars
  <1>2. CASE UiResume
    BY <1>2 DEF UiResume, TalkInv, Awaiting, ctlVars
  <1>3. CASE UiReply
    <2>1. Awaiting /\ ~done /\ queue = <<>>
      BY <1>3 DEF UiReply, TalkInv
    <2> DEFINE answer == [action |-> "reply"]
    <2>2. queue' = <<answer>> /\ Head(queue') = answer /\ queue' # <<>>
      BY <1>3, <2>1, QueueFacts DEF UiReply
    <2>3. answer.action = "reply"
      OBVIOUS
    <2> HIDE DEF answer
    <2> QED BY <1>3, <2>1, <2>2, <2>3 DEF UiReply, TalkInv, Awaiting, ctlVars
  <1>4. CASE UiDone
    <2>1. Awaiting /\ ~replying /\ queue' = <<>>
      BY <1>4, QueueFacts DEF UiDone, TalkInv
    <2> QED BY <1>4, <2>1, QueueFacts DEF UiDone, TalkInv, Awaiting, uiVars
  <1>5. CASE UiClose
    BY <1>5 DEF UiClose, TalkInv, Awaiting, ctlVars
  <1>6. CASE UiQuit
    BY <1>6 DEF UiQuit, TalkInv, Awaiting
  <1>7. CASE UiSuspend \/ UiSleep \/ UiStop
    BY <1>7 DEF UiSuspend, UiSleep, UiStop, TalkInv, Awaiting, ctlVars
  <1>8. CASE UiDrop
    BY <1>8 DEF UiDrop, TalkInv, Awaiting, ctlVars
  <1> QED BY <1>1, <1>2, <1>3, <1>4, <1>5, <1>6, <1>7, <1>8 DEF UiStep

LEMMA TalkStep == ASSUME TalkInv, [TestsNext]_testVars PROVE TalkInv'
  <1>1. CASE UNCHANGED <<ctlVars, queue, uiVars>>
    BY <1>1 DEF ctlVars, uiVars, TalkInv, Awaiting
  <1>2. CASE BackPressed \/ DialogNo
    BY <1>2 DEF BackPressed, DialogNo, ctlVars, TalkInv, Awaiting
  <1>3. CASE DialogYes
    BY <1>3 DEF DialogYes, ctlVars, TalkInv, Awaiting, UiLabels
  <1> QED BY <1>1, <1>2, <1>3, TalkCtl, TalkUi DEF TestsNext, testVars

\* The control thread and the looper talk in turns, for every plan and with
\* nothing assumed of the sleeps: at most one message or reply is under way, and
\* only while the control thread waits for it (sendMessage, mHandler, cHandler).
THEOREM HandshakeHolds == TestsSpec => []Handshake
  <1>1. TalkInv => Handshake
    BY QueueFacts DEF TalkInv, Handshake
  <1> QED BY <1>1, TalkInit, TalkStep, PTL DEF TestsSpec

-----------------------------------------------------------------------------
(* The rows *)

\* A message that the looper has not taken.
Pending(action) == queue # <<>> /\ Head(queue).action = action

InUnit == {"probe", "launch", "wait", "look", "judge", "measure", "release", "sleep", "again",
           "store", "tail", "afterLaunch", "afterRelease", "afterStore"}
Measured == {"wait", "look", "judge", "measure", "release", "afterRelease", "sleep", "again",
             "store"}

\* A control thread that was told to stop skips every message but the one it waits for.
Going == running \/ Awaiting

\* The row of the unit the loops are at has been stored.
RowStored == ctl = "tail" \/ (ctl = "afterStore" /\ ~Pending("store"))

\* While the activity holds the DSP thread, the rows keep pace with the loops.
PlanInv ==
    /\ unit \in Int /\ launched \in BOOLEAN
    /\ ctl \in InUnit => unit <= UnitCount
    /\ ctl = "start" => unit = 1 /\ Len(results) = 0
    /\ Going /\ ctl \in InUnit \cup {"head"} =>
           Len(results) = IF RowStored THEN unit ELSE unit - 1
    /\ Going /\ ctl \in Measured => launched
    /\ ctl = "afterLaunch" =>
           launched \/ Pending("launch") \/ (replying /\ ui \notin {"resume", "reply"})
    /\ Pending("store") => launched /\ Head(queue).unit = unit
    /\ running /\ ctl = "probe" => launched \/ search = Fresh

RowsInv ==
    /\ \E S : results \in Seq(S)
    /\ RowsInOrder
    /\ dt \in BOOLEAN
    /\ dt => PlanInv

LEMMA UnitFacts == UnitCount \in Int /\ Len(Phase1) * Len(BlockSizes) \in Int
  <1>1. Len(Phase1) \in Int /\ Len(Phase2) \in Int /\ Len(BlockSizes) \in Int
    BY UnitsAssumption
  <1> QED BY <1>1 DEF UnitCount

\* A search always starts with a test.
LEMMA FreshSearches == Searching(Fresh)
  BY SearchAssumption DEF Searching, Fresh

\* One more element.
LEMMA AppendOne ==
    ASSUME NEW S, NEW s \in Seq(S), NEW r
    PROVE  /\ Append(s, r) \in Seq(S \cup {r})
           /\ Len(s) \in Nat /\ Len(Append(s, r)) = Len(s) + 1
           /\ \A i \in 1..Len(s) : Append(s, r)[i] = s[i]
           /\ Append(s, r)[Len(s) + 1] = r
  <1>1. s \in Seq(S \cup {r})
    OBVIOUS
  <1> QED BY <1>1

LEMMA RowsInit == TestsInit => RowsInv
  <1> SUFFICES ASSUME TestsInit PROVE RowsInv
    OBVIOUS
  <1>1. results \in Seq({}) /\ Len(results) = 0
    BY DEF TestsInit
  <1>2. /\ ctl = "start" /\ unit = 1 /\ launched = FALSE /\ queue = <<>> /\ running = FALSE
        /\ dt = TRUE
    BY DEF TestsInit
  <1>3. PlanInv
    <2>1. ~Going /\ ~Pending("store") /\ ctl \notin InUnit /\ ctl # "probe" /\ ctl # "afterLaunch"
      BY <1>2 DEF Going, Awaiting, InUnit, Pending
    <2>2. unit \in Int
      BY <1>2
    <2>5. launched \in BOOLEAN
      BY <1>2, Zenon
    <2>3. ctl = "start" => unit = 1 /\ Len(results) = 0
      BY <1>1, <1>2
    <2>4. ctl \notin Measured
      BY <1>2 DEF Measured
    <2> QED BY <2>1, <2>2, <2>3, <2>4, <2>5 DEF PlanInv
  <1>4. RowsInOrder
    BY <1>1 DEF RowsInOrder
  <1> QED BY <1>1, <1>2, <1>3, <1>4 DEF RowsInv

\* A step of the control thread.
LEMMA PlanCtl == ASSUME TalkInv, PlanInv, dt, CtlStep PROVE PlanInv'
  <1> USE DEF InUnit, Measured, Awaiting, Going
  <1>0. UNCHANGED <<results, launched>>
    BY DEF CtlStep, CtlStart, CtlHead, CtlProbe, CtlLaunch, CtlWait, CtlSeesSuspended, CtlSeesBusy,
           CtlBreaksOff, CtlNoThread, CtlJudge, CtlMeasure, CtlRelease, CtlSleep, CtlStore,
           CtlTail, CtlScreen, CtlFinish, Send, Skip, Await, uiVars
  <1>u. UNCHANGED <<replying, ui>>
    BY DEF CtlStep, CtlStart, CtlHead, CtlProbe, CtlLaunch, CtlWait, CtlSeesSuspended, CtlSeesBusy,
           CtlBreaksOff, CtlNoThread, CtlJudge, CtlMeasure, CtlRelease, CtlSleep, CtlStore,
           CtlTail, CtlScreen, CtlFinish, Send, Skip, Await, uiVars
  <1>q. ctl \notin {"afterLaunch", "afterRelease", "afterStore", "afterFinish"} =>
            ~Pending("store") /\ ~Pending("launch")
    BY DEF TalkInv, Pending
  <1>1. CASE CtlStart
    BY <1>0, <1>u, <1>1, <1>q DEF CtlStart, CtlGoto, PlanInv, RowStored, Pending
  <1>2. CASE CtlHead
    BY <1>0, <1>u, <1>2, <1>q, UnitFacts DEF CtlHead, PlanInv, RowStored, Pending
  <1>3. CASE CtlProbe
    BY <1>0, <1>u, <1>3, <1>q, FreshSearches DEF CtlProbe, PlanInv, RowStored, Pending
  <1>4. CASE CtlWait \/ CtlJudge \/ CtlSleep
    <2>1. /\ UNCHANGED <<unit, running, queue>>
          /\ ctl \in Measured /\ ctl' \in Measured \cup {"probe"}
          /\ ~RowStored /\ ~RowStored' /\ ctl \in InUnit
      BY <1>4 DEF CtlWait, CtlJudge, CtlSleep, WaitExit, RowStored
    <2>2. ctl # "afterRelease" /\ ctl' # "afterRelease"
      BY <1>4 DEF CtlWait, CtlJudge, CtlSleep, WaitExit
    <2> QED BY <1>0, <1>u, <1>q, <2>1, <2>2 DEF PlanInv, Pending
  <1>5. CASE CtlSeesSuspended \/ CtlSeesBusy \/ CtlBreaksOff \/ CtlMeasure
    BY <1>0, <1>u, <1>5, <1>q DEF CtlSeesSuspended, CtlSeesBusy, CtlBreaksOff, CtlMeasure, CtlGoto,
                            WaitExit, PlanInv, RowStored, Pending
  <1>6. CASE CtlNoThread
    BY <1>6 DEF CtlNoThread
  <1>7. CASE CtlTail
    <2>1. unit' \in Int
      BY <1>7, UnitFacts DEF CtlTail, PlanInv
    <2>2. CASE running
      <3>1. ctl' = "head" /\ unit' = unit + 1 /\ running' = running /\ queue' = queue
        BY <1>7, <2>2 DEF CtlTail
      <3>2. Len(results) = unit /\ ctl = "tail"
        BY <1>7, <2>2 DEF CtlTail, PlanInv, RowStored
      <3> QED BY <1>0, <1>u, <1>q, <2>1, <3>1, <3>2 DEF PlanInv, RowStored, Pending
    <2>3. CASE ~running
      <3>1. ctl' \in {"head", "screen"} /\ ~running' /\ queue' = queue /\ ctl = "tail"
        BY <1>7, <2>3 DEF CtlTail
      <3> QED BY <1>0, <1>u, <1>q, <2>1, <3>1 DEF PlanInv, Pending
    <2> QED BY <2>2, <2>3
  <1>15. CASE CtlScreen
    <2>1. ctl = "screen" /\ ctl' \in {"screen", "finish"} /\ UNCHANGED <<unit, running, queue>>
      BY <1>15 DEF CtlScreen
    <2> QED BY <1>0, <1>u, <1>q, <2>1 DEF PlanInv, RowStored, Pending
  <1>8. CASE \E from \in {"launch", "release", "store", "finish"},
                to \in {"wait", "sleep", "again", "tail", "over"} :
                /\ Skip(from, to)
                /\ from = "finish" => to = "over"
    BY <1>0, <1>u, <1>8, <1>q DEF Skip, CtlGoto, PlanInv, RowStored, Pending
  <1>9. ASSUME NEW from \in {"afterLaunch", "afterRelease", "afterStore", "afterFinish"},
               NEW to \in {"wait", "sleep", "again", "tail", "over"},
               Await(from, to),
               (from = "afterStore") <=> (to = "tail"), from = "afterFinish" => to = "over"
        PROVE  PlanInv'
    <2>1. queue = <<>> /\ ~replying
      BY <1>9, AwaitTalk DEF CtlLabels
    <2> QED BY <1>0, <1>u, <1>9, <2>1 DEF Await, CtlGoto, PlanInv, RowStored, Pending
  <1>10. ASSUME NEW from \in {"launch", "release", "store", "finish"},
                NEW to \in {"afterLaunch", "afterRelease", "afterStore", "afterFinish"},
                NEW msg, Send(from, to, msg), msg.action = from,
                (from = "launch") <=> (to = "afterLaunch"),
                (from = "store") <=> (to = "afterStore"),
                (from = "finish") <=> (to = "afterFinish"),
                from = "store" => msg.unit = unit
         PROVE  PlanInv'
    <2>1. queue = <<>>
      BY <1>10 DEF TalkInv, Send, CtlGoto
    <2>2. queue' # <<>> /\ Head(queue') = msg
      BY <1>10, <2>1, QueueFacts DEF Send
    <2> QED BY <1>0, <1>u, <1>10, <2>2 DEF Send, CtlGoto, PlanInv, RowStored, Pending
  <1>11. CASE CtlLaunch
    <2> DEFINE msg == [action |-> "launch", config |-> CurrentConfig]
    <2>1. msg.action = "launch"
      OBVIOUS
    <2>2. CASE Send("launch", "afterLaunch", msg)
      <3> HIDE DEF msg
      <3> QED BY <1>10, <2>1, <2>2
    <2> QED BY <1>8, <1>9, <1>11, <2>2 DEF CtlLaunch
  <1>12. CASE CtlRelease
    <2> DEFINE msg == [action |-> "release"]
    <2>1. msg.action = "release"
      OBVIOUS
    <2>2. CASE Send("release", "afterRelease", msg)
      <3> HIDE DEF msg
      <3> QED BY <1>10, <2>1, <2>2
    <2>3. AfterRelease \in {"sleep", "again"}
      BY DEF AfterRelease
    <2> QED BY <1>8, <1>9, <1>12, <2>2, <2>3 DEF CtlRelease
  <1>13. CASE CtlStore
    <2> DEFINE msg == [action |-> "store", unit |-> unit,
                       stress |-> IF InPhase2(unit) THEN search.m ELSE 0]
    <2>1. msg.action = "store" /\ msg.unit = unit
      OBVIOUS
    <2>2. CASE Send("store", "afterStore", msg)
      <3> HIDE DEF msg
      <3> QED BY <1>10, <2>1, <2>2
    <2> QED BY <1>8, <1>9, <1>13, <2>2 DEF CtlStore
  <1>14. CASE CtlFinish
    <2> DEFINE msg == [action |-> "finish"]
    <2>1. msg.action = "finish"
      OBVIOUS
    <2>2. CASE Send("finish", "afterFinish", msg)
      <3> HIDE DEF msg
      <3> QED BY <1>10, <2>1, <2>2
    <2> QED BY <1>8, <1>9, <1>14, <2>2 DEF CtlFinish
  <1> QED BY <1>1, <1>2, <1>3, <1>4, <1>5, <1>6, <1>7, <1>11, <1>12, <1>13, <1>14,
            <1>15 DEF CtlStep

\* A step of the looper other than storing a row.
LEMMA PlanUi ==
    ASSUME TalkInv, PlanInv, dt, dt', UiStep, ~UiStore
    PROVE  PlanInv' /\ UNCHANGED results
  <1> USE DEF InUnit, Measured, Awaiting, Going
  <1>1. CASE UiLaunch
    <2>1. Awaiting /\ Sent[ctl] = "launch" /\ queue' = <<>>
      BY <1>1, ReceiveTalk DEF UiLaunch
    <2>2. ctl = "afterLaunch"
      BY <2>1 DEF Sent
    <2> QED BY <1>1, <2>1, <2>2 DEF UiLaunch, ctlVars, PlanInv, RowStored, Pending
  <1>2. CASE UiRelease \/ UiFinish
    <2>1. Awaiting /\ Sent[ctl] \in {"release", "finish"} /\ queue' = <<>>
      BY <1>2, ReceiveTalk DEF UiRelease, UiFinish
    <2>2. ctl \in {"afterRelease", "afterFinish"}
      BY <2>1 DEF Sent
    <2>3. UNCHANGED <<ctlVars, results, launched>>
      BY <1>2 DEF UiRelease, UiFinish
    <2> QED BY <2>1, <2>2, <2>3 DEF ctlVars, PlanInv, RowStored, Pending
  <1>3. CASE UiNoThread
    BY <1>3 DEF UiNoThread
  <1>9. CASE UiLaunchThrows
    <2>1. Awaiting /\ Sent[ctl] = "launch" /\ queue' = <<>>
      BY <1>9, ReceiveTalk DEF UiLaunchThrows
    <2>2. ctl = "afterLaunch"
      BY <2>1 DEF Sent
    <2>3. /\ UNCHANGED <<ctlVars, results, launched>>
          /\ replying' = TRUE /\ ui' = "looper"
      BY <1>9 DEF UiLaunchThrows, Receive
    <2> QED BY <2>1, <2>2, <2>3 DEF ctlVars, PlanInv, RowStored, Pending
  <1>4. CASE UiReply
    <2> DEFINE answer == [action |-> "reply"]
    <2>1. queue = <<>> /\ Awaiting
      BY <1>4 DEF UiReply, TalkInv
    <2>2. Head(queue') = answer
      BY <1>4, <2>1, QueueFacts DEF UiReply
    <2>3. answer.action = "reply"
      OBVIOUS
    <2> HIDE DEF answer
    <2>4. ~Pending("store")' /\ ~Pending("launch")' /\ ~Pending("store") /\ ~Pending("launch")
      BY <2>1, <2>2, <2>3 DEF Pending
    <2>5. ctl = "afterLaunch" => launched
      BY <1>4, <2>4 DEF UiReply, PlanInv
    <2>6. UNCHANGED <<ctlVars, results, launched>>
      BY <1>4 DEF UiReply
    <2> QED BY <2>4, <2>5, <2>6 DEF ctlVars, PlanInv, RowStored
  <1>5. CASE UiDone
    <2>1. queue' = <<>> /\ ~Pending("store") /\ ~Pending("launch")
      BY <1>5, QueueFacts DEF UiDone, TalkInv, Pending
    <2>2. ~Pending("store")' /\ ~Pending("launch")'
      BY <2>1 DEF Pending
    <2>3. ctl = "afterLaunch" => launched
      BY <1>5, <2>1 DEF UiDone, TalkInv, PlanInv
    <2>4. UNCHANGED <<ctl, unit, search, running, results, launched>>
      BY <1>5 DEF UiDone, uiVars
    <2> QED BY <2>1, <2>2, <2>3, <2>4 DEF PlanInv, RowStored
  <1>6. CASE UiQuit
    BY <1>6 DEF UiQuit, PlanInv, RowStored, Pending
  <1>7. CASE UiResume \/ UiClose \/ UiSuspend \/ UiSleep \/ UiStop
    <2>1. UNCHANGED <<ctlVars, queue, replying, results, launched>>
      BY <1>7 DEF UiResume, UiClose, UiSuspend, UiSleep, UiStop
    <2>2. ui = "resume" \/ ui' \notin {"resume", "reply"}
      BY <1>7 DEF UiResume, UiClose, UiSuspend, UiSleep, UiStop
    <2> QED BY <2>1, <2>2 DEF ctlVars, PlanInv, RowStored, Pending
  <1>8. CASE UiDrop
    BY <1>8 DEF UiDrop
  <1> QED BY <1>1, <1>2, <1>3, <1>4, <1>5, <1>6, <1>7, <1>8, <1>9 DEF UiStep

\* A row is stored: it is the unit's, and comes next.
LEMMA PlanStore ==
    ASSUME TalkInv, RowsInv, dt, UiStore
    PROVE  /\ RowsInv' /\ PlanInv' /\ launched /\ launched' = FALSE /\ dt' = dt
           /\ Len(results') = Len(results) + 1
  <1> USE DEF InUnit, Measured, Awaiting, Going
  <1> DEFINE row == [unit |-> Head(queue).unit, stress |-> Head(queue).stress,
                     config |-> config, ticks |-> callbackTicks, used |-> used]
  <1>1. Sent[ctl] = "store" /\ queue' = <<>> /\ Pending("store") /\ Awaiting
    BY ReceiveTalk DEF UiStore, Receive, Pending
  <1>2. ctl = "afterStore"
    BY <1>1 DEF Sent
  <1>3. PlanInv
    BY DEF RowsInv
  <1>4. launched /\ Head(queue).unit = unit /\ Len(results) = unit - 1 /\ unit \in Int
        /\ unit <= UnitCount
    BY <1>1, <1>2, <1>3 DEF PlanInv, RowStored
  <1>5. PICK S : results \in Seq(S)
    BY DEF RowsInv
  <1>6. row.unit = unit
    BY <1>4
  <1>7. results' = Append(results, row)
    BY DEF UiStore
  <1> HIDE DEF row
  <1>8. /\ results' \in Seq(S \cup {row})
        /\ Len(results) \in Nat /\ Len(results') = Len(results) + 1
        /\ \A i \in 1..Len(results) : results'[i] = results[i]
        /\ results'[Len(results) + 1] = row
    BY <1>5, <1>7, AppendOne
  <1>9. RowsInOrder'
    BY <1>4, <1>6, <1>8 DEF RowsInv, RowsInOrder
  <1>10. UNCHANGED <<ctlVars, dt>> /\ launched' = FALSE /\ ~Pending("store")'
    BY <1>1 DEF UiStore, Pending
  <1>11. PlanInv'
    <2>1. ctl' = "afterStore" /\ unit' = unit /\ RowStored' /\ ctl' \notin Measured
      BY <1>2, <1>10 DEF ctlVars, RowStored
    <2>2. Len(results') = unit
      BY <1>4, <1>8
    <2>3. launched' \in BOOLEAN
      BY <1>10
    <2> QED BY <1>4, <1>10, <2>1, <2>2, <2>3 DEF PlanInv
  <1> QED BY <1>4, <1>8, <1>9, <1>10, <1>11 DEF RowsInv

\* Without the DSP thread nothing more is stored.
LEMMA DroppedStep ==
    ASSUME RowsInv, ~dt, [TestsNext]_testVars
    PROVE  UNCHANGED <<results, launched, dt>>
  <1>1. CASE CtlStep
    BY <1>1 DEF CtlStep, CtlStart, CtlHead, CtlProbe, CtlLaunch, CtlWait, CtlSeesSuspended,
           CtlSeesBusy, CtlBreaksOff, CtlNoThread, CtlJudge, CtlMeasure, CtlRelease, CtlSleep,
           CtlStore, CtlTail, CtlScreen, CtlFinish, Send, Skip, Await, uiVars
  <1>2. CASE UiStep
    BY <1>2 DEF RowsInv, UiStep, UiLaunch, UiLaunchThrows, UiResume, UiRelease, UiStore, UiFinish, UiNoThread,
       UiReply,
           UiDone, UiClose, UiQuit, UiSuspend, UiSleep, UiStop, UiDrop, uiVars
  <1>3. CASE BackPressed \/ DialogNo \/ DialogYes
    BY <1>3 DEF BackPressed, DialogNo, DialogYes
  <1> QED BY <1>1, <1>2, <1>3 DEF TestsNext, testVars, uiVars

LEMMA RowsStep == ASSUME TalkInv, RowsInv, [TestsNext]_testVars PROVE RowsInv'
  <1>1. CASE ~dt
    BY <1>1, DroppedStep DEF RowsInv, RowsInOrder
  <1>2. CASE dt /\ UNCHANGED <<ctlVars, queue, results, launched, dt, ui, replying>>
    <2>1. PlanInv'
      BY <1>2 DEF RowsInv, ctlVars, PlanInv, RowStored, Going, Awaiting, Pending
    <2> QED BY <1>2, <2>1 DEF RowsInv, RowsInOrder
  <1>3. CASE dt /\ CtlStep
    <2>1. UNCHANGED <<results, dt>>
      BY <1>3 DEF CtlStep, CtlStart, CtlHead, CtlProbe, CtlLaunch, CtlWait, CtlSeesSuspended,
           CtlSeesBusy, CtlBreaksOff, CtlNoThread, CtlJudge, CtlMeasure, CtlRelease, CtlSleep,
           CtlStore, CtlTail, CtlScreen, CtlFinish, Send, Skip, Await, uiVars
    <2> QED BY <1>3, <2>1, PlanCtl DEF RowsInv, RowsInOrder
  <1>4. CASE dt /\ UiStep /\ ~UiStore
    <2>1. dt' \in BOOLEAN /\ UNCHANGED results
      BY <1>4 DEF RowsInv, UiStep, UiLaunch, UiLaunchThrows, UiResume, UiRelease, UiFinish, UiNoThread, UiReply,
           UiDone, UiClose, UiQuit, UiSuspend, UiSleep, UiStop, UiDrop, uiVars
    <2> QED BY <1>4, <2>1, PlanUi DEF RowsInv, RowsInOrder
  <1>5. CASE dt /\ UiStore
    BY <1>5, PlanStore
  <1>6. CASE dt /\ (BackPressed \/ DialogNo)
    BY <1>2, <1>6 DEF BackPressed, DialogNo
  <1>7. CASE dt /\ DialogYes
    <2>1. UNCHANGED <<ctlVars, queue, results, launched, dt, replying>> /\ ui' = "close"
      BY <1>7 DEF DialogYes
    <2>2. PlanInv'
      BY <1>7, <2>1 DEF RowsInv, ctlVars, PlanInv, RowStored, Going, Awaiting, Pending, DialogYes
    <2> QED BY <1>7, <2>1, <2>2 DEF RowsInv, RowsInOrder
  <1> QED BY <1>1, <1>2, <1>3, <1>4, <1>5, <1>6, <1>7 DEF RowsInv, TestsNext, testVars, uiVars

\* The rows are those of the plan's first units, each once and in the plan's
\* order, whatever is broken off and when (storeResults() on the looper, the
\* loops on the control thread).
THEOREM RowsInOrderHolds == TestsSpec => []RowsInOrder
  <1>1. RowsInv => RowsInOrder
    BY DEF RowsInv
  <1> QED BY <1>1, TalkInit, TalkStep, RowsInit, RowsStep, PTL DEF TestsSpec

-----------------------------------------------------------------------------
(* The refinement *)

LEMMA PlanMapsInit == TestsInit => Plan!Init
  BY DEF TestsInit, Plan!Init

LEMMA PlanMapsStep ==
    ASSUME TalkInv, RowsInv, [TestsNext]_testVars
    PROVE  [Plan!Next]_(Plan!planVars)
  <1> USE DEF Plan!planVars
  <1>1. CASE UNCHANGED <<results, launched, dt>>
    BY <1>1
  <1>2. CASE dt /\ UiLaunch
    <2>1. Awaiting /\ Sent[ctl] = "launch" /\ Pending("launch")
      BY <1>2, ReceiveTalk DEF UiLaunch, Receive, Pending
    <2>2. ctl = "afterLaunch"
      BY <2>1 DEF Sent, Awaiting
    <2>3. Len(results) < UnitCount
      BY <1>2, <2>1, <2>2, UnitFacts DEF RowsInv, PlanInv, Going, InUnit, RowStored
    <2> QED BY <1>2, <2>3 DEF UiLaunch, Plan!Next, Plan!Launch
  <1>3. CASE dt /\ UiStore
    BY <1>3, PlanStore DEF Plan!Next, Plan!Store
  <1>4. CASE dt /\ UiDrop
    BY <1>4 DEF UiDrop, Plan!Next, Plan!End
  <1>5. CASE CtlStep
    BY <1>1, <1>5 DEF CtlStep, CtlStart, CtlHead, CtlProbe, CtlLaunch, CtlWait, CtlSeesSuspended,
           CtlSeesBusy, CtlBreaksOff, CtlNoThread, CtlJudge, CtlMeasure, CtlRelease, CtlSleep,
           CtlStore, CtlTail, CtlScreen, CtlFinish, Send, Skip, Await, uiVars
  <1>6. CASE UiStep /\ ~UiLaunch /\ ~UiStore /\ ~UiDrop
    BY <1>1, <1>6 DEF UiStep, UiLaunchThrows, UiResume, UiRelease, UiFinish, UiNoThread, UiReply,
           UiDone, UiClose, UiQuit, UiSuspend, UiSleep, UiStop, uiVars
  <1>7. CASE BackPressed \/ DialogNo \/ DialogYes
    BY <1>1, <1>7 DEF BackPressed, DialogNo, DialogYes
  <1>8. CASE ~dt
    BY <1>1, <1>8, DroppedStep
  <1> QED BY <1>1, <1>2, <1>3, <1>4, <1>5, <1>6, <1>7, <1>8 DEF TestsNext, testVars, uiVars

\* The detailed run implements the plan of the class comment: one unit after the
\* other is tested and gives one row, for every plan and with no assumption on
\* the sleeps, the callbacks or the moment the user breaks off.
THEOREM TestsImplementPlan == TestsSpec => ImplementsPlan
  <1> QED BY TalkInit, TalkStep, RowsInit, RowsStep, PlanMapsInit, PlanMapsStep, PTL
          DEF TestsSpec, ImplementsPlan, Plan!Spec

-----------------------------------------------------------------------------
(* Types *)

\* From the choice of a parameter to the judgement on it.
Trying == InPhase2(unit) /\ ctl \in {"launch", "afterLaunch", "wait", "look", "judge", "measure"}

\* The bracket of the search when its last test is judged, and when the parameter
\* of the next is chosen.
Decided(s) ==
    /\ s \in Searches
    /\ IF s.reachedPeak THEN s.m < s.M /\ s.stressParam \in {s.m, s.M}
                        ELSE s.M = MaxParam /\ s.m \in Doubles /\ s.stressParam = s.m

Chosen(s) ==
    /\ s \in Searches
    /\ IF s.reachedPeak THEN s.m < s.stressParam /\ s.stressParam < s.M
                        ELSE /\ s.M = MaxParam /\ s.m \in Doubles /\ s.m # MaxParam
                             /\ s.stressParam = 2 * s.m

SearchInv ==
    /\ ctl \in {"probe", "judge", "measure", "again"} => InPhase2(unit)
    /\ IF Trying THEN Chosen(search) ELSE Decided(search)

\* What a message that is not taken yet says.
MessageInv ==
    /\ Pending("launch") => Head(queue).config = CurrentConfig
    /\ Pending("store") => /\ Head(queue).unit = unit
                           /\ Head(queue).stress = IF InPhase2(unit) THEN search.m ELSE 0

LoopInv ==
    /\ unit \in 1..(UnitCount + 1)
    /\ ctl \in InUnit => unit <= UnitCount
    /\ SearchInv /\ MessageInv

ScreenTypes ==
    /\ inputStream \in BOOLEAN /\ dt \in BOOLEAN /\ dialog \in BOOLEAN /\ checked \in BOOLEAN
    /\ launched \in BOOLEAN

TestsTypeInv == TypeInv /\ LoopInv /\ ScreenTypes /\ results \in Seq(Rows)

LEMMA FreshDecided == Decided(Fresh)
  BY SearchAssumption DEF Decided, Fresh, Searches, Params

\* The next parameter is one, and inside the bracket if there is one.
LEMMA ProbedChosen == ASSUME NEW s, Decided(s), Searching(s) PROVE Chosen(Probed(s))
  <1> DEFINE next == NextParam(s)
  <1>1. /\ s.m \in Params /\ s.M \in Params /\ s.stressParam \in Params /\ s.reachedPeak \in BOOLEAN
        /\ s.m < s.M - 1 /\ s \in Searches
    BY DEF Decided, Searches, Searching
  <1>2. CASE s.reachedPeak
    <2>1. next \in Int /\ s.m < next /\ next < s.M
      BY <1>1, <1>2 DEF NextParam, Params
    <2>2. next \in Params
      BY <1>1, <2>1, SearchAssumption DEF Params
    <2> HIDE DEF next
    <2>3. Probed(s) = [s EXCEPT !.stressParam = next]
      BY DEF Probed, next
    <2> QED BY <1>1, <1>2, <2>1, <2>2, <2>3 DEF Chosen, Searches
  <1>3. CASE ~s.reachedPeak
    <2>1. s.M = MaxParam /\ s.m \in Doubles /\ s.m # MaxParam /\ next = 2 * s.m
      BY <1>1, <1>3, SearchAssumption DEF Decided, NextParam, Params
    <2>2. next \in Params
      BY <2>1, SearchAssumption DEF Params
    <2> HIDE DEF next
    <2>3. Probed(s) = [s EXCEPT !.stressParam = next]
      BY DEF Probed, next
    <2> QED BY <1>1, <1>3, <2>1, <2>2, <2>3 DEF Chosen, Searches
  <1> QED BY <1>1, <1>2, <1>3

\* Either outcome narrows the bracket.
LEMMA JudgedDecided == ASSUME NEW s, Chosen(s), NEW feasible \in BOOLEAN PROVE Decided(Judged(s, feasible))
  <1>1. /\ s.m \in Params /\ s.M \in Params /\ s.stressParam \in Params /\ s.reachedPeak \in BOOLEAN
        /\ s \in Searches
    BY DEF Chosen, Searches
  <1>2. CASE feasible
    <2>1. Judged(s, feasible) = [s EXCEPT !.m = s.stressParam]
      BY <1>2 DEF Judged
    <2>2. ~s.reachedPeak => s.stressParam \in Doubles
      BY SearchAssumption DEF Chosen
    <2> QED BY <1>1, <2>1, <2>2 DEF Chosen, Decided, Searches
  <1>3. CASE ~feasible
    <2>1. Judged(s, feasible) = [s EXCEPT !.M = s.stressParam, !.reachedPeak = TRUE]
      BY <1>3 DEF Judged
    <2>2. s.m < s.stressParam
      BY <1>1, SearchAssumption DEF Chosen, Params
    <2> QED BY <1>1, <2>1, <2>2 DEF Decided, Searches
  <1> QED BY <1>2, <1>3

\* Judging does not change the parameter that was tested.
LEMMA JudgedTested ==
    ASSUME NEW s \in Searches, NEW feasible \in BOOLEAN
    PROVE  Judged(s, feasible).stressParam = s.stressParam
  BY DEF Judged, Searches

\* What is launched can be configured.
LEMMA CurrentTyped == ASSUME LoopInv, ctl \in InUnit PROVE CurrentConfig \in Configs
  <1>1. unit \in 1..UnitCount
    BY UnitFacts DEF LoopInv
  <1>2. search.stressParam \in 0..MaxParam /\ 0 \in 0..MaxParam
    BY SearchAssumption DEF LoopInv, SearchInv, Chosen, Decided, Searches, Params
  <1> QED BY <1>1, <1>2, TestsAssumption DEF CurrentConfig

LEMMA LoopBegins == TestsInit => LoopInv
  <1> SUFFICES ASSUME TestsInit PROVE LoopInv
    OBVIOUS
  <1>1. UnitCount \in Nat
    BY UnitsAssumption DEF UnitCount
  <1>2. unit = 1 /\ ctl = "start" /\ search = Fresh /\ queue = <<>>
    BY DEF TestsInit
  <1>3. ~Trying /\ ctl \notin InUnit /\ ~Pending("launch") /\ ~Pending("store")
    BY <1>2 DEF Trying, InUnit, Pending
  <1> QED BY <1>1, <1>2, <1>3, FreshDecided DEF LoopInv, SearchInv, MessageInv

\* A step of the control thread that leaves the search and the unit alone.
LEMMA LoopSame ==
    ASSUME LoopInv, UNCHANGED <<unit, search>>, (Trying' <=> Trying),
           ctl' \in InUnit => unit <= UnitCount,
           ctl' \in {"probe", "judge", "measure", "again"} => InPhase2(unit),
           MessageInv'
    PROVE  LoopInv'
  <1>1. CASE Trying
    BY <1>1 DEF LoopInv, SearchInv
  <1>2. CASE ~Trying
    BY <1>2 DEF LoopInv, SearchInv
  <1> QED BY <1>1, <1>2

\* A message to an empty queue is the one that is pending.
LEMMA SendPending ==
    ASSUME TalkInv, NEW from \in {"launch", "release", "store", "finish"}, NEW to, NEW msg,
           Send(from, to, msg)
    PROVE  \A action : Pending(action)' <=> msg.action = action
  <1>1. queue = <<>>
    BY DEF TalkInv, Send, CtlGoto, Awaiting
  <1>2. queue' # <<>> /\ Head(queue') = msg
    BY <1>1, QueueFacts DEF Send
  <1> QED BY <1>2 DEF Pending

LEMMA LoopCtl == ASSUME TalkInv, LoopInv, CtlStep PROVE LoopInv'
  <1> USE DEF InUnit
  <1>0. ~Awaiting => ~Pending("store") /\ ~Pending("launch")
    BY DEF TalkInv, Pending
  <1>1. ASSUME ~Awaiting, UNCHANGED queue PROVE MessageInv'
    <2>1. ~Pending("launch")' /\ ~Pending("store")'
      BY <1>0, <1>1 DEF Pending
    <2> QED BY <2>1 DEF MessageInv
  <1>2. CASE CtlStart \/ CtlWait \/ CtlSleep \/ CtlScreen
    <2>1. UNCHANGED <<unit, search, queue>> /\ ~Awaiting /\ (Trying' <=> Trying)
      BY <1>2, Zenon DEF CtlStart, CtlWait, CtlSleep, CtlScreen, CtlGoto, Awaiting, Trying, WaitExit
    <2>2. MessageInv'
      BY <1>1, <2>1
    <2>3. ctl' \in InUnit => unit <= UnitCount
      BY <1>2 DEF CtlStart, CtlWait, CtlSleep, CtlScreen, CtlGoto, LoopInv
    <2>4. ctl' \in {"probe", "judge", "measure", "again"} => InPhase2(unit)
      BY <1>2 DEF CtlStart, CtlWait, CtlSleep, CtlScreen, CtlGoto, WaitExit, LoopInv, SearchInv
    <2> QED BY <2>1, <2>2, <2>3, <2>4, LoopSame
  <1>3. CASE CtlHead
    <2>1. ~Awaiting /\ ctl = "head" /\ UNCHANGED <<unit, queue>> /\ ~Trying
      BY <1>3 DEF CtlHead, Awaiting, Trying
    <2>2. CASE unit > UnitCount
      <3>1. ctl' = "screen" /\ search' = search /\ ~Trying'
        BY <1>3, <2>2 DEF CtlHead, Trying
      <3> QED BY <1>1, <2>1, <3>1, LoopSame
    <2>3. CASE unit <= UnitCount /\ InPhase2(unit)
      <3>1. ctl' = "probe" /\ search' = Fresh /\ ~Trying'
        BY <1>3, <2>3, UnitFacts DEF CtlHead, Trying, LoopInv
      <3> QED BY <1>1, <2>1, <2>3, <3>1, FreshDecided DEF LoopInv, SearchInv
    <2>4. CASE unit <= UnitCount /\ ~InPhase2(unit)
      <3>1. ctl' = "launch" /\ search' = search /\ ~Trying'
        BY <1>3, <2>1, <2>4, UnitFacts DEF CtlHead, Trying, LoopInv
      <3> QED BY <1>1, <2>1, <2>4, <3>1, LoopSame
    <2> QED BY <2>2, <2>3, <2>4, UnitFacts DEF LoopInv
  <1>4. CASE CtlProbe
    <2>1. ~Awaiting /\ ctl = "probe" /\ UNCHANGED <<unit, queue>> /\ ~Trying /\ InPhase2(unit)
      BY <1>4 DEF CtlProbe, Awaiting, Trying, LoopInv, SearchInv
    <2>2. CASE Searching(search)
      <3>1. ctl' = "launch" /\ search' = Probed(search) /\ Trying'
        BY <1>4, <2>1, <2>2 DEF CtlProbe, Trying
      <3>2. Chosen(search')
        BY <2>1, <2>2, <3>1, ProbedChosen DEF LoopInv, SearchInv
      <3> QED BY <1>1, <2>1, <3>1, <3>2 DEF LoopInv, SearchInv
    <2>3. CASE ~Searching(search)
      <3>1. ctl' = "store" /\ search' = search /\ ~Trying'
        BY <1>4, <2>3 DEF CtlProbe, Trying
      <3> QED BY <1>1, <2>1, <3>1, LoopSame DEF LoopInv
    <2> QED BY <2>2, <2>3
  <1>5. CASE CtlJudge \/ CtlMeasure
    <2>1. /\ ~Awaiting /\ ctl \in {"judge", "measure"} /\ UNCHANGED <<unit, queue>> /\ Trying
          /\ ctl' \in {"measure", "release"}
      BY <1>5 DEF CtlJudge, CtlMeasure, CtlGoto, Awaiting, Trying, LoopInv, SearchInv
    <2>2. CASE ctl' = "measure"
      <3>1. search' = search /\ Trying'
        BY <1>5, <2>1, <2>2 DEF CtlJudge, CtlMeasure, CtlGoto, Trying
      <3> QED BY <1>1, <2>1, <2>2, <3>1, LoopSame DEF LoopInv, SearchInv
    <2>3. CASE ctl' = "release"
      <3>1. \E feasible \in BOOLEAN : search' = Judged(search, feasible)
        BY <1>5, <2>1, <2>3 DEF CtlJudge, CtlMeasure
      <3>2. Decided(search') /\ ~Trying'
        BY <2>1, <2>3, <3>1, JudgedDecided DEF LoopInv, SearchInv, Trying
      <3> QED BY <1>1, <2>1, <2>3, <3>2 DEF LoopInv, SearchInv
    <2> QED BY <2>1, <2>2, <2>3
  <1>6. CASE CtlSeesSuspended \/ CtlSeesBusy \/ CtlBreaksOff
    <2>1. /\ UNCHANGED <<unit, search, queue>> /\ ~Awaiting /\ ctl = "look"
          /\ ctl' \in {"wait", WaitExit}
      BY <1>6 DEF CtlSeesSuspended, CtlSeesBusy, CtlBreaksOff, CtlGoto, Awaiting
    <2>2. Trying' <=> Trying
      BY <2>1, Zenon DEF Trying, WaitExit
    <2> QED BY <1>1, <2>1, <2>2, LoopSame DEF WaitExit, LoopInv
  <1>7. CASE CtlNoThread
    BY <1>7 DEF CtlNoThread, ctlVars, LoopInv, SearchInv, MessageInv, Trying, Pending, CurrentConfig
  <1>8. CASE CtlTail
    <2>1. /\ search' = search /\ ~Awaiting /\ ~Trying /\ queue' = queue /\ ctl = "tail"
          /\ ctl' \in {"head", "screen"}
      BY <1>8 DEF CtlTail, Awaiting, Trying
    <2>2. ~Trying'
      BY <2>1 DEF Trying
    <2>3. unit' \in 1..(UnitCount + 1)
      <3> DEFINE first == Len(Phase1) * Len(BlockSizes)
                 second == Len(Phase2) * Len(BlockSizes)
      <3>1. first \in Nat /\ second \in Nat /\ UnitCount = first + second
        BY UnitsAssumption DEF UnitCount
      <3>2. unit' \in {unit, unit + 1, first + 1} /\ unit \in 1..UnitCount
        BY <1>8, <2>1, UnitFacts DEF CtlTail, LoopInv
      <3> HIDE DEF first, second
      <3> QED BY <3>1, <3>2
    <2> QED BY <1>1, <2>1, <2>2, <2>3 DEF LoopInv, SearchInv
  <1>9. ASSUME NEW from \in {"launch", "release", "store", "finish"},
               NEW to \in {"wait", "tail", "over", AfterRelease}, Skip(from, to),
               (from = "launch") <=> (to = "wait"), (from = "finish") <=> (to = "over")
        PROVE  LoopInv'
    <2>1. /\ UNCHANGED <<unit, search, queue>> /\ ~Awaiting /\ ctl = from /\ ctl' = to
      BY <1>9 DEF Skip, CtlGoto, Awaiting
    <2>2. Trying' <=> Trying
      BY <1>9, <2>1, Zenon DEF Trying, AfterRelease
    <2> QED BY <1>1, <1>9, <2>1, <2>2, LoopSame DEF AfterRelease, LoopInv
  <1>10. ASSUME NEW from \in {"afterLaunch", "afterRelease", "afterStore", "afterFinish"},
                NEW to \in {"wait", "tail", "over", AfterRelease}, Await(from, to),
                (from = "afterLaunch") <=> (to = "wait"), (from = "afterFinish") <=> (to = "over")
         PROVE  LoopInv'
    <2>1. /\ UNCHANGED <<unit, search, queue>> /\ ctl = from /\ ctl' = to /\ queue = <<>>
      BY <1>10, AwaitTalk DEF Await, CtlGoto, TalkInv, CtlLabels, AfterRelease
    <2>2. Trying' <=> Trying
      BY <1>10, <2>1, Zenon DEF Trying, AfterRelease
    <2>3. MessageInv'
      BY <2>1 DEF MessageInv, Pending
    <2> QED BY <1>10, <2>1, <2>2, <2>3, LoopSame DEF AfterRelease, LoopInv
  <1>11. ASSUME NEW from \in {"launch", "release", "store", "finish"},
                NEW to \in {"afterLaunch", "afterRelease", "afterStore", "afterFinish"},
                NEW msg, Send(from, to, msg), msg.action = from,
                (from = "launch") <=> (to = "afterLaunch"),
                (from = "finish") <=> (to = "afterFinish"),
                from = "launch" => msg.config = CurrentConfig,
                from = "store" => msg.unit = unit /\ msg.stress = IF InPhase2(unit) THEN search.m ELSE 0
         PROVE  LoopInv'
    <2>1. /\ UNCHANGED <<unit, search>> /\ ctl = from /\ ctl' = to /\ queue' # <<>> /\ Head(queue') = msg
      <3>1. queue = <<>>
        BY <1>11 DEF TalkInv, Send, CtlGoto, Awaiting
      <3> QED BY <1>11, <3>1, QueueFacts DEF Send, CtlGoto
    <2>2. Trying' <=> Trying
      BY <1>11, <2>1, Zenon DEF Trying
    <2>3. CurrentConfig' = CurrentConfig
      BY <2>1 DEF CurrentConfig
    <2>4. MessageInv'
      BY <1>11, <2>1, <2>3 DEF MessageInv, Pending
    <2> QED BY <1>11, <2>1, <2>2, <2>4, LoopSame DEF LoopInv
  <1>12. CASE CtlLaunch
    <2> DEFINE msg == [action |-> "launch", config |-> CurrentConfig]
    <2>1. msg.action = "launch" /\ msg.config = CurrentConfig
      OBVIOUS
    <2>2. CASE Send("launch", "afterLaunch", msg)
      <3> HIDE DEF msg
      <3> QED BY <1>11, <2>1, <2>2
    <2> QED BY <1>9, <1>10, <1>12, <2>2 DEF CtlLaunch
  <1>13. CASE CtlRelease
    <2> DEFINE msg == [action |-> "release"]
    <2>1. msg.action = "release"
      OBVIOUS
    <2>2. CASE Send("release", "afterRelease", msg)
      <3> HIDE DEF msg
      <3> QED BY <1>11, <2>1, <2>2
    <2>3. AfterRelease \notin {"wait", "over"}
      BY DEF AfterRelease
    <2> QED BY <1>9, <1>10, <1>13, <2>2, <2>3 DEF CtlRelease
  <1>14. CASE CtlStore
    <2> DEFINE stress == IF InPhase2(unit) THEN search.m ELSE 0
               msg == [action |-> "store", unit |-> unit, stress |-> stress]
    <2>1. msg.action = "store" /\ msg.unit = unit /\ msg.stress = stress
      OBVIOUS
    <2>2. CASE Send("store", "afterStore", msg)
      <3> HIDE DEF msg
      <3> QED BY <1>11, <2>1, <2>2
    <2> QED BY <1>9, <1>10, <1>14, <2>2 DEF CtlStore
  <1>15. CASE CtlFinish
    <2> DEFINE msg == [action |-> "finish"]
    <2>1. msg.action = "finish"
      OBVIOUS
    <2>2. CASE Send("finish", "afterFinish", msg)
      <3> HIDE DEF msg
      <3> QED BY <1>11, <2>1, <2>2
    <2> QED BY <1>9, <1>10, <1>15, <2>2 DEF CtlFinish
  <1> QED BY <1>2, <1>3, <1>4, <1>5, <1>6, <1>7, <1>8, <1>12, <1>13, <1>14, <1>15 DEF CtlStep

\* The looper takes messages and answers.
LEMMA LoopUi == ASSUME TalkInv, LoopInv, UiStep PROVE LoopInv'
  <1>1. UNCHANGED <<unit, search, ctl>>
    BY DEF UiStep, UiLaunch, UiLaunchThrows, UiResume, UiRelease, UiStore, UiFinish, UiNoThread, UiReply,
           UiDone, UiClose, UiQuit, UiSuspend, UiSleep, UiStop, UiDrop, ctlVars
  <1>2. queue' = queue \/ queue' = <<>> \/ (queue' # <<>> /\ Head(queue').action = "reply")
    <2>1. CASE UiLaunch \/ UiLaunchThrows \/ UiRelease \/ UiStore \/ UiFinish \/ UiNoThread
      <3>1. PICK action \in {"launch", "release", "store", "finish"} : Receive(action)
        BY <2>1 DEF UiLaunch, UiLaunchThrows, UiRelease, UiStore, UiFinish, UiNoThread
      <3> QED BY <3>1, ReceiveTalk
    <2>2. CASE UiReply
      <3> DEFINE answer == [action |-> "reply"]
      <3>1. queue = <<>> /\ answer.action = "reply"
        BY <2>2 DEF UiReply, TalkInv
      <3>2. queue' # <<>> /\ Head(queue') = answer
        BY <2>2, <3>1, QueueFacts DEF UiReply
      <3> QED BY <3>1, <3>2
    <2>3. CASE UiDone
      BY <2>3, QueueFacts DEF UiDone, TalkInv
    <2> QED BY <2>1, <2>2, <2>3
            DEF UiStep, UiResume, UiClose, UiQuit, UiSuspend, UiSleep, UiStop, UiDrop
  <1>3. MessageInv'
    BY <1>1, <1>2 DEF LoopInv, MessageInv, Pending, CurrentConfig
  <1> QED BY <1>1, <1>3, LoopSame DEF LoopInv, Trying, SearchInv

LEMMA LoopStep == ASSUME TalkInv, LoopInv, [TestsNext]_testVars PROVE LoopInv'
  <1>1. CASE UNCHANGED <<ctlVars, queue>>
    BY <1>1 DEF ctlVars, LoopInv, SearchInv, MessageInv, Trying, Pending, CurrentConfig
  <1> QED BY <1>1, LoopCtl, LoopUi
          DEF TestsNext, testVars, uiVars, BackPressed, DialogNo, DialogYes

\* Any step but one of DspThread leaves it as it is.
LEMMA TypeSame == ASSUME TypeInv, UNCHANGED vars PROVE TypeInv'
  BY DEF vars, fields, streams, pool, locals, history, TypeInv, TypeOK, DataOK, PcOK,
         RoomToCount, CbSuspends

\* A client that uses a dropped DSP thread ends the process.
LEMMA TypeCrash ==
    ASSUME TypeInv, NEW c \in Clients, Goto(c, "crashed"),
           UNCHANGED <<audioSource, fields, streams, pool, locals, op, history>>
    PROVE  TypeInv'
  <1>1. DataOK /\ PcOK /\ RoomToCount /\ CbSuspends
    BY DEF TypeInv, TypeOK
  <1>2. PcOK'
    BY <1>1, GotoTyped, ThreadsApart DEF Labels
  <1>3. RoomToCount' /\ CbSuspends'
    BY <1>1, ThreadsApart DEF Goto, RoomToCount, CbSuspends, PcOK, fields, locals
  <1>4. DataOK'
    BY <1>1 DEF DataOK, fields, streams, pool, locals, history
  <1> QED BY <1>2, <1>3, <1>4 DEF TypeInv, TypeOK

LEMMA TypeThread ==
    ASSUME TypeInv, UNCHANGED audioSource, ThreadStep
    PROVE  TypeInv'
  <1>1. CASE DspStep
    BY <1>1, DspStepTyped
  <1>2. CASE TaskFires \/ CbStep
    BY <1>2, CbStepTyped DEF TaskFires
  <1>3. CASE SuspendStep("cb")
    BY <1>3, SuspendStepTyped, ThreadsApart
  <1>4. CASE ClientStep
    BY <1>4, StopStepTyped, SuspendStepTyped, ThreadsApart DEF ClientStep
  <1> QED BY <1>1, <1>2, <1>3, <1>4 DEF ThreadStep

LEMMA TypeTests ==
    ASSUME TalkInv, LoopInv, TypeInv, [TestsNext]_testVars
    PROVE  TypeInv'
  <1> USE TestsAssumption
  <1>1. CASE UNCHANGED vars
    BY <1>1, TypeSame
  <1>2. CASE UNCHANGED audioSource /\ ThreadStep
    BY <1>2, TypeThread
  <1>3. CASE CtlBreaksOff
    <2>1. BeginSuspend("ctl") /\ UNCHANGED audioSource
      BY <1>3 DEF CtlBreaksOff
    <2>2. config \in Configs
      BY DEF TypeInv, TypeOK, DataOK
    <2> QED BY <2>1, <2>2, CallTyped
  <1>4. CASE CtlNoThread
    BY <1>4, TypeCrash DEF CtlNoThread
  <1>12. CASE CtlScreen
    BY <1>1, <1>12, TypeCrash DEF CtlScreen
  <1>5. CASE UiLaunch
    <2>1. Awaiting /\ Sent[ctl] = "launch" /\ Pending("launch")
      BY <1>5, ReceiveTalk DEF UiLaunch, Receive, Pending
    <2>2. ctl = "afterLaunch"
      BY <2>1 DEF Sent, Awaiting
    <2>3. Head(queue).config \in Configs
      BY <2>1, <2>2, CurrentTyped DEF LoopInv, MessageInv, InUnit
    <2> QED BY <1>5, <2>3, CallTyped DEF UiLaunch
  <1>6. CASE UiResume \/ UiRelease \/ UiSuspend \/ UiStop
    <2>1. UNCHANGED audioSource /\ (Resume \/ BeginSuspend("ui") \/ BeginStop)
      BY <1>6 DEF UiResume, UiRelease, UiSuspend, UiStop
    <2>2. config \in Configs
      BY DEF TypeInv, TypeOK, DataOK
    <2> QED BY <2>1, <2>2, CallTyped
  <1>7. CASE UiNoThread \/ UiLaunchThrows
    BY <1>7, TypeCrash DEF UiNoThread, UiLaunchThrows
  <1>8. CASE UiClose
    <2>1. CASE inputStream
      <3>1. DataOK /\ PcOK /\ RoomToCount /\ CbSuspends
        BY DEF TypeInv, TypeOK
      <3>2. /\ input' = "consumed" /\ pc' = pc
            /\ UNCHANGED <<audioSource, fields, isRunning, toRead, dspTask, recorder, pool, locals,
                           op, history>>
        BY <1>8, <2>1 DEF UiClose
      <3> QED BY <3>1, <3>2 DEF fields, pool, locals, history, TypeInv, TypeOK, DataOK, PcOK,
                                RoomToCount, CbSuspends
    <2>2. CASE ~inputStream
      BY <1>8, <2>2, TypeCrash DEF UiClose, streams
    <2> QED BY <2>1, <2>2
  <1>9. CASE CtlStep /\ ~CtlBreaksOff /\ ~CtlNoThread /\ ~CtlScreen
    BY <1>1, <1>9 DEF CtlStep, CtlStart, CtlHead, CtlProbe, CtlLaunch, CtlWait, CtlSeesSuspended,
           CtlSeesBusy, CtlJudge, CtlMeasure, CtlRelease, CtlSleep, CtlStore,
           CtlTail, CtlFinish, Send, Skip, Await
  <1>10. CASE UiStore \/ UiFinish \/ UiReply \/ UiDone \/ UiQuit \/ UiSleep \/ UiDrop
    BY <1>1, <1>10 DEF UiStore, UiFinish, UiReply, UiDone, UiQuit, UiSleep, UiDrop
  <1>11. CASE BackPressed \/ DialogNo \/ DialogYes
    BY <1>1, <1>11 DEF BackPressed, DialogNo, DialogYes
  <1> QED BY <1>1, <1>2, <1>3, <1>4, <1>5, <1>6, <1>7, <1>8, <1>9, <1>10, <1>11, <1>12
          DEF TestsNext, testVars, UiStep, Running

LEMMA ScreenStep == ASSUME ScreenTypes, [TestsNext]_testVars PROVE ScreenTypes'
  <1>1. CASE UNCHANGED uiVars
    BY <1>1 DEF uiVars, screenVars, ScreenTypes
  <1>2. CASE CtlStep
    BY <1>1, <1>2 DEF CtlStep, CtlStart, CtlHead, CtlProbe, CtlLaunch, CtlWait, CtlSeesSuspended,
           CtlSeesBusy, CtlBreaksOff, CtlNoThread, CtlJudge, CtlMeasure, CtlRelease, CtlSleep,
           CtlStore, CtlTail, CtlScreen, CtlFinish, Send, Skip, Await
  <1>3. CASE UiLaunch \/ UiStore \/ UiDrop \/ UiClose \/ BackPressed \/ DialogNo \/ DialogYes
    BY <1>3, Zenon DEF UiLaunch, UiStore, UiDrop, UiClose, BackPressed, DialogNo, DialogYes,
                ScreenTypes, screenVars
  <1>4. CASE \/ UiLaunchThrows \/ UiResume \/ UiRelease \/ UiFinish \/ UiNoThread \/ UiReply
             \/ UiDone \/ UiQuit
             \/ UiSuspend \/ UiSleep \/ UiStop
    BY <1>4 DEF UiLaunchThrows, UiResume, UiRelease, UiFinish, UiNoThread, UiReply, UiDone, UiQuit,
             UiSuspend, UiSleep, UiStop, ScreenTypes, screenVars, uiVars
  <1> QED BY <1>1, <1>2, <1>3, <1>4 DEF TestsNext, testVars, UiStep, UiClose

\* A row has the unit and the search of the loops, and what dt says.
LEMMA RowTyped ==
    ASSUME TalkInv, LoopInv, TypeInv, UiStore
    PROVE  [unit |-> Head(queue).unit, stress |-> Head(queue).stress,
            config |-> config, ticks |-> callbackTicks, used |-> used] \in Rows
  <1>1. Awaiting /\ Sent[ctl] = "store" /\ Pending("store")
    BY ReceiveTalk DEF UiStore, Receive, Pending
  <1>2. ctl = "afterStore"
    BY <1>1 DEF Sent, Awaiting
  <1>3. Head(queue).unit \in 1..UnitCount
    BY <1>1, <1>2, UnitFacts DEF LoopInv, MessageInv, InUnit
  <1>4. search.m \in Nat
    BY SearchAssumption DEF LoopInv, SearchInv, Chosen, Decided, Searches, Params
  <1>5. Head(queue).stress \in Nat
    BY <1>1, <1>4 DEF LoopInv, MessageInv
  <1>6. config \in Configs /\ callbackTicks \in 0..TickCap /\ used \in SUBSET Configs
    BY DEF TypeInv, TypeOK, DataOK
  <1> QED BY <1>3, <1>5, <1>6 DEF Rows

LEMMA ResultsSame ==
    ASSUME [TestsNext]_testVars, ~UiStore
    PROVE  results' = results
  <1>1. CASE CtlStep
    BY <1>1 DEF CtlStep, CtlStart, CtlHead, CtlProbe, CtlLaunch, CtlWait, CtlSeesSuspended,
           CtlSeesBusy, CtlBreaksOff, CtlNoThread, CtlJudge, CtlMeasure, CtlRelease, CtlSleep,
           CtlStore, CtlTail, CtlScreen, CtlFinish, Send, Skip, Await, uiVars
  <1>2. CASE UiStep
    BY <1>2 DEF UiStep, UiLaunch, UiLaunchThrows, UiResume, UiRelease, UiFinish, UiNoThread, UiReply,
           UiDone, UiClose, UiQuit, UiSuspend, UiSleep, UiStop, UiDrop, uiVars
  <1> QED BY <1>1, <1>2 DEF TestsNext, BackPressed, DialogNo, DialogYes, testVars, uiVars

LEMMA ResultsTyped ==
    ASSUME TalkInv, LoopInv, TypeInv, results \in Seq(Rows), [TestsNext]_testVars
    PROVE  results' \in Seq(Rows)
  <1>1. CASE UiStore
    <2> DEFINE row == [unit |-> Head(queue).unit, stress |-> Head(queue).stress,
                       config |-> config, ticks |-> callbackTicks, used |-> used]
    <2>1. row \in Rows /\ results' = Append(results, row)
      BY <1>1, RowTyped DEF UiStore
    <2> HIDE DEF row
    <2> QED BY <2>1
  <1>2. CASE ~UiStore
    BY <1>2, ResultsSame
  <1> QED BY <1>1, <1>2

LEMMA TestsTypeBegins == TestsInit => TestsTypeInv
  <1> SUFFICES ASSUME TestsInit PROVE TestsTypeInv
    OBVIOUS
  <1>1. ScreenTypes
    BY Zenon DEF TestsInit, ScreenTypes
  <1>2. results \in Seq(Rows)
    BY DEF TestsInit
  <1> QED BY <1>1, <1>2, LoopBegins, TypeInit DEF TestsInit, TestsTypeInv

LEMMA TestsTypeStep == TalkInv /\ TestsTypeInv /\ [TestsNext]_testVars => TestsTypeInv'
  BY LoopStep, TypeTests, ScreenStep, ResultsTyped DEF TestsTypeInv

\* Every variable of a run of the tests keeps its type, with nothing assumed of the
\* sleeps: what the looper configures is a configuration of the plan, the parameter
\* searched for stays between 1 and the ceiling, and every row names a unit.
THEOREM TestsTypeCorrect == TestsSpec => []TestsTypeOK
  <1>1. TalkInv /\ TestsTypeInv => TestsTypeOK
    <2> SUFFICES ASSUME TalkInv, TestsTypeInv PROVE TestsTypeOK
      OBVIOUS
    <2>1. \A i \in 1..Len(queue) : queue[i].action \in Actions
      <3>1. CASE queue = <<>>
        BY <3>1
      <3>2. CASE queue # <<>>
        <4> DEFINE first == Head(queue)
        <4>1. queue = <<first>> /\ first.action \in {Sent[ctl], "reply"} /\ Awaiting
          BY <3>2 DEF TalkInv
        <4>2. first.action \in Actions
          BY <4>1 DEF Sent, Awaiting, Actions
        <4> HIDE DEF first
        <4>3. Len(<<first>>) = 1 /\ <<first>>[1] = first
          OBVIOUS
        <4>4. \A i \in 1..Len(queue) : i = 1
          BY <4>1, <4>3
        <4>5. queue[1] = first
          BY <4>1, <4>3
        <4> QED BY <4>2, <4>4, <4>5
      <3> QED BY <3>1, <3>2
    <2>2. \A i \in 1..Len(results) : results[i] \in Rows
      BY DEF TestsTypeInv
    <2>3. search \in Searches
      BY DEF TestsTypeInv, LoopInv, SearchInv, Chosen, Decided
    <2>4. /\ ctl \in CtlLabels /\ ui \in UiLabels /\ running \in BOOLEAN /\ done \in BOOLEAN
          /\ replying \in BOOLEAN
      BY DEF TalkInv
    <2>5. TypeOK /\ unit \in 1..(UnitCount + 1)
      BY DEF TestsTypeInv, TypeInv, LoopInv
    <2>6. /\ inputStream \in BOOLEAN /\ dt \in BOOLEAN /\ dialog \in BOOLEAN /\ checked \in BOOLEAN
          /\ launched \in BOOLEAN
      BY DEF TestsTypeInv, ScreenTypes
    <2> QED BY <2>1, <2>2, <2>3, <2>4, <2>5, <2>6, Zenon DEF TestsTypeOK
  <1> QED BY <1>1, TalkInit, TalkStep, TestsTypeBegins, TestsTypeStep, PTL DEF TestsSpec

-----------------------------------------------------------------------------
(* With time enough, and nobody pressing "back" *)

\* What the sleeps and polls are for, and a plan with something to test in blocks
\* that can be read.
Timely ==
    /\ Prompt /\ ~MayAbort
    /\ MaxDspCycles > 0 /\ UnitCount > 0
    /\ \A c \in Configs : ~Underflows(Block(c))

\* The DSP thread is not in the stream, or has only to see that its loop is over.
Away == pc["dsp"] \in {"top", "asleep"} \/ (pc["dsp"] = "rlSpin" /\ ~isRunning)

\* It is setting up, up to scheduling the task; or it has scheduled it.
Preparing ==
    pc["dsp"] \in {"setup", "buffer", "track", "newTrack", "reset", "performBuffer", "schedule"}
Scheduled ==
    pc["dsp"] \in {"assign", "play", "enter", "rlStart"} \/ (pc["dsp"] = "rlSpin" /\ isRunning)

\* There is no callback and nothing to start one.
Quiet == pc["cb"] = "idle" /\ tasks = {} /\ dspTask = NoTask /\ newTask = NoTask

\* The last callback is past state = STATE_SUSPENDED, and past the flag that ends the
\* DSP thread's loop.
Leaving == pc["cb"] \in {"stream", "stop1", "stop2", "stop3", "stop4"}
Ending == pc["cb"] \in {"stop2", "stop3", "stop4"}

\* finishTests() has begun to stop the DSP thread, or has done so.
Stopping == ui = "drop" \/ ~dt

\* Where the DSP thread and the callback are together.
PlaceInv ==
    /\ state # "STOPPED"
    /\ Away \/ Preparing \/ Scheduled
    /\ Away => IF Leaving THEN /\ state = "SUSPENDED" /\ newTask = NoTask
                               /\ tasks \subseteq {dspTask}
                          ELSE Quiet
    /\ pc["cb"] = "stop4" \/ pc["ui"] = "stop4" => tasks = {}
    /\ pc["ui"] \in {"stop2", "stop3", "stop4"} => Away
    /\ Preparing => state = "PROCESSING" /\ Quiet
    /\ Scheduled =>
           /\ ~Ending
           /\ state = IF pc["cb"] \in {"stream", "stop1"} THEN "SUSPENDED" ELSE "PROCESSING"
           /\ IF pc["dsp"] = "assign"
              THEN newTask # NoTask /\ tasks = {newTask} /\ dspTask = NoTask
              ELSE dspTask # NoTask /\ tasks = {dspTask} /\ newTask = NoTask

\* What the stream, the track and the buffers are made for.
EquipInv ==
    /\ ~audioStream => pc["dsp"] \in {"top", "asleep", "setup"} /\ (inputStream => input = "fresh")
    /\ track \in {"null", "open"}
    /\ ~(Away \/ pc["dsp"] \in {"setup", "buffer", "track", "newTrack"}) => track = "open"
    /\ \/ toRead = 0
       \/ /\ toRead = Block(config)
          /\ (Preparing \/ Scheduled) /\ pc["dsp"] \notin {"setup", "rlSpin"}
    /\ Scheduled \/ pc["dsp"] = "schedule" \/ pc["cb"] # "idle" => performLen = Block(config)

\* The cycles of the test under way, and the configurations they ran with.
CycleInv ==
    /\ callbackTicks <= MaxDspCycles
    /\ pc["dsp"] \in {"performBuffer", "schedule"} => callbackTicks = 0 /\ used = {}
    /\ Scheduled /\ pc["cb"] = "idle" => callbackTicks < MaxDspCycles
    /\ Scheduled => used \subseteq {config}
    /\ Scheduled /\ callbackTicks > 0 /\ pc["cb"] \notin {"convert", "perform"} => used = {config}
    /\ pc["cb"] \in {"tick", "count"} => callbackTicks < MaxDspCycles
    /\ pc["cb"] = "count" => ticks = callbackTicks
    /\ pc["cb"] \in {"convert", "perform", "write", "writeDeref", "last"} => callbackTicks > 0
    /\ pc["cb"] \in SuspendLabels => callbackTicks = MaxDspCycles /\ used = {config}
    /\ pc["cb"] \in {"tick", "count"} /\ callbackTicks + 1 = MaxDspCycles => pc["dsp"] = "rlSpin"
    /\ callbackTicks = MaxDspCycles /\ Scheduled => pc["dsp"] = "rlSpin"

\* The test that was launched is under way or has suspended itself.
InTest ==
    ctl \in {"wait", "look"} \/ (ctl = "afterLaunch" /\ ~Pending("launch") /\ ui # "resume")

\* It has been seen to be over.
Tested ==
    \/ ctl \in {"judge", "measure", "release", "afterRelease", "sleep", "again", "store"}
    \/ ctl = "afterStore" /\ Pending("store")
    \/ ctl = "probe" /\ search # Fresh

\* It was seen to be over and no sleep has passed since: the callback that suspended
\* it may still be in suspendDsp().
JustTested == ctl \in {"judge", "measure", "release", "afterRelease", "sleep"}

\* All cycles of a test of the current configuration were run.
Complete == config = CurrentConfig /\ callbackTicks = MaxDspCycles /\ used = {config}

\* How far the tests are, and what the DSP thread and its callback do then.
StageInv ==
    /\ ~InTest => state = "SUSPENDED" /\ (pc["cb"] = "idle" \/ (Leaving /\ JustTested))
    /\ InTest \/ ui = "resume" => config = CurrentConfig
    /\ InTest /\ state = "SUSPENDED" => Complete /\ audioStream
    /\ Tested => Complete
    /\ Tested \/ ctl \in {"afterStore", "tail"} \/ unit > 1 => audioStream
    /\ ctl = "sleep" => ~InPhase2(unit)
    /\ InPhase2(unit) /\ (ctl = "store" \/ Pending("store")) => ~Searching(search)
    /\ \/ pc["ui"] = "free"
       \/ /\ pc["ui"] \in SuspendLabels /\ op["ui"] = "suspend"
          /\ \/ ui = "reply" /\ ctl = "afterRelease"
             \/ ui = "sleep" /\ pc["ui"] \notin {"stop3", "stop4"}
    /\ ui = "stop" => pc["dsp"] \in {"top", "asleep"}

\* The looper and the control thread, when only the end of the plan ends the tests.
LooperInv ==
    /\ ~dialog /\ pc["ctl"] = "free"
    /\ ctl \notin {"start", "afterFinish", "over"} => running
    /\ ui = "resume" => ctl = "afterLaunch"
    /\ ui \in {"close", "quit", "suspend", "sleep", "stop", "drop"} =>
           replying /\ ctl = "afterFinish" /\ dt
    /\ ctl = "afterFinish" /\ dt =>
           Pending("finish") \/ ui \in {"close", "quit", "suspend", "sleep", "stop", "drop"}
    /\ ctl \in {"screen", "finish", "afterFinish"} => unit > UnitCount
    /\ ~dt => ctl \in {"afterFinish", "over"}
    /\ ctl = "over" => ~dt
    /\ Pending("finish") => dt
    /\ dt /\ ui \notin {"quit", "suspend", "sleep", "stop", "drop"} => inputStream

\* From the stop on.
EndInv ==
    /\ pc["dsp"] \in {"top", "asleep", "dead"} /\ Quiet /\ callbackTicks <= MaxDspCycles
    /\ op["ui"] = "stop"
    /\ pc["ui"] \in {"free", "stop", "release", "stop1", "stop2", "forget", "relTrack", "dropTrack"}
    /\ ui # "drop" => pc["ui"] = "free"
    /\ state = IF pc["ui"] = "stop" THEN "SUSPENDED" ELSE "STOPPED"
    /\ pc["dsp"] = "dead" => state = "STOPPED"
    /\ pc["ui"] = "stop1" => audioStream

\* While the tests go on.
TestInv == PlaceInv /\ EquipInv /\ CycleInv /\ StageInv

TimelyInv ==
    /\ Timely /\ LooperInv
    /\ ~Stopping => TestInv
    /\ Stopping => EndInv
    /\ RowsFaithful

\* What is left when something was thrown.
Ended == ~Alive /\ Timely /\ RowsFaithful /\ WithinMaxCycles /\ TasksHeld /\ OnlyKnownThrows

\* While no client has thrown, the only thread that may be dead is the DSP thread,
\* and it was stopped.
LEMMA TimelyAlive ==
    ASSUME TimelyInv
    PROVE  /\ Alive /\ WithinMaxCycles /\ TasksHeld /\ OnlyKnownThrows
           /\ pc["dsp"] = "dead" => state = "STOPPED"
  <1>1. pc["ctl"] = "free" /\ pc["ui"] # "crashed"
    BY DEF TimelyInv, LooperInv, TestInv, StageInv, EndInv, SuspendLabels
  <1>2. pc["dsp"] = "dead" => state = "STOPPED"
    BY DEF TimelyInv, TestInv, PlaceInv, Away, Preparing, Scheduled, EndInv
  <1>3. Alive
    BY <1>1, TestsAssumption DEF Alive
  <1>4. WithinMaxCycles
    BY DEF TimelyInv, TestInv, CycleInv, EndInv, WithinMaxCycles
  <1>5. TasksHeld
    BY DEF TimelyInv, TestInv, PlaceInv, Quiet, Away, Preparing, Scheduled, EndInv, TasksHeld
  <1> QED BY <1>1, <1>2, <1>3, <1>4, <1>5 DEF OnlyKnownThrows

\* A client throws, and nothing else happens.
LEMMA Throwing ==
    ASSUME TimelyInv, PcOK, NEW c \in Clients, Goto(c, "crashed"), UNCHANGED <<config, results>>,
           UNCHANGED <<state, callbackTicks, tasks, dspTask, newTask>>,
           \/ c = "ctl" /\ ctl' = "screen"
           \/ c = "ui" /\ ctl' = "afterLaunch" /\ LaunchThrows(CurrentConfig)'
           \/ c = "ui" /\ ctl' = "afterRelease" /\ audioStream' /\ dspTask = NoTask
    PROVE  Ended'
  <1>1. /\ pc'[c] = "crashed" /\ pc'["dsp"] = pc["dsp"]
        /\ \A d \in Clients \ {c} : pc'[d] = pc[d]
    BY TestsAssumption, ThreadsApart DEF Goto, PcOK, Threads
  <1>2. ~Alive'
    BY <1>1 DEF Alive
  <1>3. Timely' /\ RowsFaithful' /\ WithinMaxCycles' /\ TasksHeld'
    BY TimelyAlive DEF TimelyInv, Timely, RowsFaithful, WithinMaxCycles, TasksHeld
  <1>4. pc["ctl"] = "free" /\ pc["ui"] # "crashed"
    BY DEF TimelyInv, LooperInv, TestInv, StageInv, EndInv, SuspendLabels
  <1>5. OnlyKnownThrows'
    BY <1>1, <1>4, TimelyAlive, TestsAssumption DEF OnlyKnownThrows
  <1> QED BY <1>2, <1>3, <1>5 DEF Ended

\* A step of the DSP thread.
LEMMA TimelyDspStep ==
    ASSUME TypeInv, TimelyInv, UNCHANGED <<audioSource, ctlVars, queue, uiVars>>, DspStep
    PROVE  TimelyInv'
  <1> USE DEF fields, streams, pool, locals, history, ctlVars, uiVars, screenVars
  <1> USE DEF TimelyInv, Timely, LooperInv, TestInv, EndInv, PlaceInv, EquipInv, CycleInv, StageInv,
              Away, Preparing, Scheduled, Quiet, Leaving, Ending, Stopping, InTest, Tested,
              JustTested, Complete, Pending, CurrentConfig, RowsFaithful, SuspendLabels
  <1>a. DataOK /\ PcOK
    BY DEF TypeInv, TypeOK
  <1>b. audioSource = "WAV"
    BY <1>a, TestsAssumption DEF DataOK
  <1>1. CASE Top
    <2>1. /\ pc["dsp"] = "top" /\ UNCHANGED <<fields, streams, pool, locals, op, history>>
          /\ \A t \in Threads \ {"dsp"} : pc'[t] = pc[t]
      BY <1>1, <1>a DEF Top, Goto, PcOK
    <2>2. \/ state = "SUSPENDED" /\ pc'["dsp"] = "asleep"
          \/ state = "PROCESSING" /\ pc'["dsp"] = "setup"
          \/ state = "STOPPED" /\ pc'["dsp"] = "dead"
      BY <1>1, <1>a, ThreadsApart DEF Top, Goto, PcOK, DataOK
    <2> QED
      BY <2>1, <2>2, <1>b, ThreadsApart, DspAssumption, TestsAssumption
  <1>2. CASE Wake
    BY <1>2, <1>a, <1>b, ThreadsApart, DspAssumption, TestsAssumption
    DEF Wake, Step, Goto, PcOK, DataOK, NoTask, Tasks
  <1>3. CASE Setup
    BY <1>3, <1>a, <1>b, ThreadsApart, DspAssumption, TestsAssumption
    DEF Setup, Step, Goto, PcOK, DataOK, NoTask, Tasks
  <1>4. CASE CreateBuffer
    BY <1>4, <1>a, <1>b, ThreadsApart, DspAssumption, TestsAssumption
    DEF CreateBuffer, Step, Goto, PcOK, DataOK, NoTask, Tasks
  <1>5. CASE CheckTrack
    BY <1>5, <1>a, <1>b, ThreadsApart, DspAssumption, TestsAssumption
    DEF CheckTrack, Step, Goto, PcOK, DataOK, NoTask, Tasks
  <1>6. CASE NewTrack
    BY <1>6, <1>a, <1>b, ThreadsApart, DspAssumption, TestsAssumption
    DEF NewTrack, Step, Goto, PcOK, DataOK, NoTask, Tasks
  <1>7. CASE ResetDsp
    BY <1>7, <1>a, <1>b, ThreadsApart, DspAssumption, TestsAssumption
    DEF ResetDsp, Step, Goto, PcOK, DataOK, NoTask, Tasks
  <1>8. CASE CreatePerformBuffer
    BY <1>8, <1>a, <1>b, ThreadsApart, DspAssumption, TestsAssumption
    DEF CreatePerformBuffer, Step, Goto, PcOK, DataOK, NoTask, Tasks
  <1>9. CASE ScheduleNoStream
    BY <1>9, <1>a, <1>b, ThreadsApart, DspAssumption, TestsAssumption
    DEF ScheduleNoStream, Step, Goto, PcOK, DataOK, NoTask, Tasks
  <1>10. CASE WavSchedule
    <2>1. pc["dsp"] = "schedule" /\ Preparing /\ ~Stopping
      BY <1>10 DEF WavSchedule, Step, TimelyInv, EndInv, Preparing
    <2>2. tasks = {} /\ dspTask = NoTask /\ newTask = NoTask
      BY <2>1 DEF TimelyInv, TestInv, PlaceInv, Quiet
    <2>3. newTask' # NoTask /\ tasks' = {newTask'} /\ pc'["dsp"] = "assign"
      BY <1>10, <2>2, <1>a, ThreadsApart DEF WavSchedule, Step, Goto, PcOK, Tasks, NoTask
    <2>4. /\ UNCHANGED <<fields, streams, posted, firing, ticks, op, history>>
          /\ \A t \in Threads \ {"dsp"} : pc'[t] = pc[t]
      BY <1>10, <1>a DEF WavSchedule, Step, Goto, PcOK
    <2> QED
      BY <2>1, <2>2, <2>3, <2>4, <1>b, ThreadsApart, DspAssumption, TestsAssumption
  <1>11. CASE WavAssign
    BY <1>11, <1>a, <1>b, ThreadsApart, DspAssumption, TestsAssumption
    DEF WavAssign, Step, Goto, PcOK, DataOK, NoTask, Tasks
  <1>12. CASE MicSchedule
    BY <1>12, <1>a, <1>b, ThreadsApart, DspAssumption, TestsAssumption
    DEF MicSchedule, Step, Goto, PcOK, DataOK, NoTask, Tasks
  <1>13. CASE Play
    BY <1>13, <1>a, <1>b, ThreadsApart, DspAssumption, TestsAssumption
    DEF Play, Step, Goto, PcOK, DataOK, NoTask, Tasks
  <1>14. CASE Enter
    BY <1>14, <1>a, <1>b, ThreadsApart, DspAssumption, TestsAssumption
    DEF Enter, Step, Goto, PcOK, DataOK, NoTask, Tasks
  <1>15. CASE WavReadAll
    BY <1>15, <1>a, <1>b, ThreadsApart, DspAssumption, TestsAssumption
    DEF WavReadAll, Step, Goto, PcOK, DataOK, NoTask, Tasks, ReadEnds
  <1>16. CASE WavReadEnd
    BY <1>16, <1>a, <1>b, ThreadsApart, DspAssumption, TestsAssumption
    DEF WavReadEnd, Step, Goto, PcOK, DataOK, NoTask, Tasks
  <1>17. CASE MicReadTest
    BY <1>17, <1>a, <1>b, ThreadsApart, DspAssumption, TestsAssumption
    DEF MicReadTest, Step, Goto, PcOK, DataOK, NoTask, Tasks
  <1>18. CASE MicRead
    BY <1>18, <1>a, <1>b, ThreadsApart, DspAssumption, TestsAssumption
    DEF MicRead, Step, Goto, PcOK, DataOK, NoTask, Tasks
  <1> QED
    BY <1>1, <1>2, <1>3, <1>4, <1>5, <1>6, <1>7, <1>8, <1>9, <1>10, <1>11, <1>12, <1>13, <1>14,
       <1>15, <1>16, <1>17, <1>18 DEF DspStep

\* A step of the callback, or what starts one.
LEMMA TimelyCbStep ==
    ASSUME TypeInv, TimelyInv, UNCHANGED <<audioSource, ctlVars, queue, uiVars>>,
           TaskFires \/ CbStep
    PROVE  TimelyInv'
  <1> USE DEF fields, streams, pool, locals, history, ctlVars, uiVars, screenVars
  <1> USE DEF TimelyInv, Timely, LooperInv, TestInv, EndInv, PlaceInv, EquipInv, CycleInv, StageInv,
              Away, Preparing, Scheduled, Quiet, Leaving, Ending, Stopping, InTest, Tested,
              JustTested, Complete, Pending, CurrentConfig, RowsFaithful, SuspendLabels
  <1>a. DataOK /\ PcOK
    BY DEF TypeInv, TypeOK
  <1>b. audioSource = "WAV"
    BY <1>a, TestsAssumption DEF DataOK
  <1>1. CASE FireTask /\ (callbackTicks + 1 = MaxDspCycles => pc["dsp"] = "rlSpin")
    BY <1>1, <1>a, <1>b, ThreadsApart, DspAssumption, TestsAssumption
    DEF FireTask, Step, Goto, PcOK, DataOK, NoTask, Tasks
  <1>2. CASE Tick
    BY <1>2, <1>a, <1>b, ThreadsApart, DspAssumption, TestsAssumption
    DEF Tick, Step, Goto, PcOK, DataOK, NoTask, Tasks
  <1>3. CASE Count
    BY <1>3, <1>a, <1>b, ThreadsApart, DspAssumption, TestsAssumption
    DEF Count, Step, Goto, PcOK, DataOK, NoTask, Tasks
  <1>4. CASE Convert
    BY <1>4, <1>a, <1>b, ThreadsApart, DspAssumption, TestsAssumption
    DEF Convert, Overruns, Throw, Continue, Return, Rest, Goto, PcOK, DataOK, NoTask, Tasks
  <1>5. CASE Perform
    BY <1>5, <1>a, <1>b, ThreadsApart, DspAssumption, TestsAssumption
    DEF Perform, Step, Goto, PcOK, DataOK, NoTask, Tasks
  <1>6. CASE Write
    BY <1>6, <1>a, <1>b, ThreadsApart, DspAssumption, TestsAssumption
    DEF Write, Overruns, Throw, Continue, Return, Rest, Goto, PcOK, DataOK, NoTask, Tasks
  <1>7. CASE WriteTrack
    BY <1>7, <1>a, <1>b, ThreadsApart, DspAssumption, TestsAssumption
    DEF WriteTrack, Throw, Continue, Return, Rest, Goto, PcOK, DataOK, NoTask, Tasks
  <1>8. CASE Last
    BY <1>8, <1>a, <1>b, ThreadsApart, DspAssumption, TestsAssumption
    DEF Last, Continue, Return, Rest, Goto, PcOK, DataOK, NoTask, Tasks
  <1> QED
    BY <1>1, <1>2, <1>3, <1>4, <1>5, <1>6, <1>7, <1>8 DEF CbStep, TaskFires, TimelyInv, Timely

\* A step of the callback's suspendDsp().
LEMMA TimelyCbSuspend ==
    ASSUME TypeInv, TimelyInv, UNCHANGED <<audioSource, ctlVars, queue, uiVars>>,
           SuspendStep("cb")
    PROVE  TimelyInv'
  <1> USE DEF fields, streams, pool, locals, history, ctlVars, uiVars, screenVars
  <1> USE DEF TimelyInv, Timely, LooperInv, TestInv, EndInv, PlaceInv, EquipInv, CycleInv, StageInv,
              Away, Preparing, Scheduled, Quiet, Leaving, Ending, Stopping, InTest, Tested,
              JustTested, Complete, Pending, CurrentConfig, RowsFaithful, SuspendLabels
  <1>a. DataOK /\ PcOK /\ op["cb"] = "suspend"
    BY DEF TypeInv, TypeOK, CbSuspends
  <1>b. audioSource = "WAV"
    BY <1>a, TestsAssumption DEF DataOK
  <1>1. CASE SuspendState("cb")
    BY <1>1, <1>a, <1>b, ThreadsApart, DspAssumption, TestsAssumption
    DEF SuspendState, Step, Goto, PcOK, DataOK, NoTask, Tasks
  <1>c. pc["cb"] \in SuspendLabels /\ ~Stopping /\ (Stopping' <=> Stopping) /\ TestInv
    <2>1. pc["cb"] \in SuspendLabels
      BY DEF SuspendStep, SuspendState, SuspendStream, WavStopFlag, WavStopTest, WavStopCancel,
             WavStopClear, MicStopRelease, MicStopDrop, MicStopFlag, Step
    <2> QED BY <2>1
  <1>2. CASE SuspendStream("cb")
    <2>1. pc["cb"] = "stream"
      BY <1>2 DEF SuspendStream
    <2>2. audioStream
      BY <1>c, <2>1
    <2>3. pc' = [pc EXCEPT !["cb"] = "stop1"] /\ UNCHANGED <<firing, tasks>>
      BY <1>2, <2>2 DEF SuspendStream, Continue, Goto
    <2>4. \A t \in Threads : pc'[t] = IF t = "cb" THEN "stop1" ELSE pc[t]
      BY <1>a, <2>3 DEF PcOK
    <2>5. pc'["cb"] = "stop1" /\ pc'["dsp"] = pc["dsp"] /\ pc'["ui"] = pc["ui"] /\ pc'["ctl"] = pc["ctl"]
      BY <2>4, ThreadsApart, TestsAssumption
    <2>6. UNCHANGED <<fields, streams, posted, newTask, ticks, op, history>>
      BY <1>2 DEF SuspendStream
    <2>7. PlaceInv' /\ EquipInv'
      BY <1>c, <2>1, <2>3, <2>5, <2>6
    <2>8. CycleInv' /\ StageInv' /\ LooperInv'
      BY <1>c, <2>1, <2>3, <2>5, <2>6
    <2> QED BY <1>c, <2>7, <2>8
  <1>3. CASE WavStopFlag("cb")
    BY <1>3, <1>a, <1>b, ThreadsApart, DspAssumption, TestsAssumption
    DEF WavStopFlag, Step, Goto, PcOK, DataOK, NoTask, Tasks
  <1>4. CASE WavStopTest("cb")
    BY <1>4, <1>a, <1>b, ThreadsApart, DspAssumption, TestsAssumption
    DEF WavStopTest, StopReturn, Continue, Return, Rest, Goto, PcOK, DataOK, NoTask, Tasks
  <1>5. CASE WavStopCancel("cb")
    <2>1. pc["cb"] = "stop3" /\ Away /\ state = "SUSPENDED" /\ newTask = NoTask
      BY <1>5, <1>c DEF WavStopCancel
    <2>2. UNCHANGED <<fields, streams, posted, newTask, ticks, op, history>>
      BY <1>5 DEF WavStopCancel
    <2>3. CASE dspTask = NoTask
      <3>1. tasks = {}
        BY <1>a, <1>c, <2>1, <2>3, DspAssumption DEF DataOK, NoTask, Tasks
      <3>2. pc' = [pc EXCEPT !["cb"] = "idle"] /\ tasks' = {}
        BY <1>5, <1>b, <2>3, <3>1 DEF WavStopCancel, Throw, Return, Rest, Goto
      <3>3. \A t \in Threads : pc'[t] = IF t = "cb" THEN "idle" ELSE pc[t]
        BY <1>a, <3>2 DEF PcOK
      <3>4. pc'["cb"] = "idle" /\ pc'["dsp"] = pc["dsp"] /\ pc'["ui"] = pc["ui"] /\ pc'["ctl"] = pc["ctl"]
        BY <3>3, ThreadsApart, TestsAssumption
      <3>5. PlaceInv' /\ EquipInv'
        BY <1>c, <2>1, <2>2, <2>3, <3>1, <3>2, <3>4
      <3>6. CycleInv' /\ StageInv' /\ LooperInv'
        BY <1>c, <2>1, <2>2, <3>1, <3>2, <3>4
      <3> QED BY <1>c, <3>5, <3>6
    <2>4. CASE dspTask # NoTask
      <3>1. tasks' = {} /\ pc' = [pc EXCEPT !["cb"] = "stop4"] /\ UNCHANGED firing
        BY <1>5, <1>c, <2>1, <2>4 DEF WavStopCancel, Continue, Goto
      <3>3. \A t \in Threads : pc'[t] = IF t = "cb" THEN "stop4" ELSE pc[t]
        BY <1>a, <3>1 DEF PcOK
      <3>4. pc'["cb"] = "stop4" /\ pc'["dsp"] = pc["dsp"] /\ pc'["ui"] = pc["ui"] /\ pc'["ctl"] = pc["ctl"]
        BY <3>3, ThreadsApart, TestsAssumption
      <3>5. PlaceInv' /\ EquipInv'
        BY <1>c, <2>1, <2>2, <2>4, <3>1, <3>4
      <3>6. CycleInv' /\ StageInv' /\ LooperInv'
        BY <1>c, <2>1, <2>2, <3>1, <3>4
      <3> QED BY <1>c, <3>5, <3>6
    <2> QED BY <2>3, <2>4
  <1>6. CASE WavStopClear("cb")
    BY <1>6, <1>a, <1>b, ThreadsApart, DspAssumption, TestsAssumption
    DEF WavStopClear, StopReturn, Continue, Return, Rest, Goto, PcOK, DataOK, NoTask, Tasks
  <1>7. CASE MicStopRelease("cb") \/ MicStopDrop("cb") \/ MicStopFlag("cb")
    BY <1>7, <1>b DEF MicStopRelease, MicStopDrop, MicStopFlag
  <1> QED
    BY <1>1, <1>2, <1>3, <1>4, <1>5, <1>6, <1>7 DEF SuspendStep

\* A step of suspendDsp() on the looper, or of stopDspThread()'s stopRunning().
LEMMA TimelyUiSuspend ==
    ASSUME TestsTypeInv, TimelyInv, UNCHANGED <<audioSource, ctlVars, queue, uiVars>>,
           NEW c \in Clients, SuspendStep(c)
    PROVE  TimelyInv' \/ Ended'
  <1> USE DEF fields, streams, pool, locals, history, ctlVars, uiVars, screenVars
  <1> USE DEF TimelyInv, Timely, LooperInv, TestInv, EndInv, PlaceInv, EquipInv, CycleInv, StageInv,
              Away, Preparing, Scheduled, Quiet, Leaving, Ending, Stopping, InTest, Tested,
              JustTested, Complete, Pending, CurrentConfig, RowsFaithful, SuspendLabels
  <1>a. DataOK /\ PcOK
    BY DEF TestsTypeInv, TypeInv, TypeOK
  <1>b. audioSource = "WAV"
    BY <1>a, TestsAssumption DEF DataOK
  <1>c. c = "ui"
    <2>1. pc[c] \in SuspendLabels
      BY DEF SuspendStep, SuspendState, SuspendStream, WavStopFlag, WavStopTest, WavStopCancel,
             WavStopClear, MicStopRelease, MicStopDrop, MicStopFlag, Step, SuspendLabels
    <2> QED BY <2>1, TestsAssumption DEF TimelyInv, LooperInv, SuspendLabels
  <1>d. unit \in Int /\ UnitCount \in Int
    BY UnitFacts DEF TestsTypeInv, LoopInv
  <1>1. CASE SuspendState("ui")
    BY <1>1, <1>a, <1>b, ThreadsApart, DspAssumption, TestsAssumption
    DEF SuspendState, Step, Goto, PcOK, DataOK, NoTask, Tasks
  <1>2. CASE SuspendStream("ui")
    <2>1. pc["ui"] = "stream" /\ ~Stopping /\ dt
      BY <1>2 DEF SuspendStream, TimelyInv, EndInv, Stopping
    <2>2. ui = "sleep" \/ ctl = "afterRelease"
      BY <2>1 DEF TimelyInv, TestInv, StageInv
    <2>3. audioStream
      BY <1>d, <2>1, <2>2 DEF TimelyInv, Timely, LooperInv, TestInv, StageInv, Tested
    <2>4. Goto("ui", "stop1") /\ UNCHANGED <<fields, streams, pool, locals, op, history>>
      BY <1>2, <2>3 DEF SuspendStream, Continue
    <2> QED
      BY <2>1, <2>2, <2>4, <1>a, <1>b, ThreadsApart, DspAssumption, TestsAssumption
      DEF Goto, PcOK, DataOK
  <1>3. CASE WavStopFlag("ui")
    BY <1>3, <1>a, <1>b, ThreadsApart, DspAssumption, TestsAssumption
    DEF WavStopFlag, Step, Goto, PcOK, DataOK, NoTask, Tasks
  <1>4. CASE WavStopTest("ui")
    BY <1>4, <1>a, <1>b, ThreadsApart, DspAssumption, TestsAssumption
    DEF WavStopTest, StopReturn, Continue, Return, Rest, Goto, PcOK, DataOK, NoTask, Tasks
  <1>5. CASE WavStopCancel("ui") /\ dspTask # NoTask
    BY <1>5, <1>a, <1>b, ThreadsApart, DspAssumption, TestsAssumption
    DEF WavStopCancel, Throw, Continue, Return, Rest, Goto, PcOK, DataOK, NoTask, Tasks
  <1>8. CASE WavStopCancel("ui") /\ dspTask = NoTask
    <2>1. pc["ui"] = "stop3" /\ ~Stopping
      BY <1>8 DEF WavStopCancel, TimelyInv, EndInv
    <2>2. ctl = "afterRelease" /\ audioStream
      BY <2>1 DEF TimelyInv, TestInv, StageInv, Tested
    <2>3. Goto("ui", "crashed") /\ UNCHANGED <<fields, streams, pool, locals, history>>
      BY <1>8, <1>b, ThreadsApart, TestsAssumption DEF WavStopCancel, Throw, Continue
    <2> HIDE DEF TimelyInv, RowsFaithful
    <2> QED BY <1>8, <2>2, <2>3, <1>a, Throwing, TestsAssumption
  <1>6. CASE WavStopClear("ui")
    BY <1>6, <1>a, <1>b, ThreadsApart, DspAssumption, TestsAssumption
    DEF WavStopClear, StopReturn, Continue, Return, Rest, Goto, PcOK, DataOK, NoTask, Tasks
  <1>7. CASE MicStopRelease("ui") \/ MicStopDrop("ui") \/ MicStopFlag("ui")
    BY <1>7, <1>b DEF MicStopRelease, MicStopDrop, MicStopFlag
  <1> QED
    BY <1>c, <1>1, <1>2, <1>3, <1>4, <1>5, <1>6, <1>7, <1>8 DEF SuspendStep

\* A step of stopDspThread() and releaseIO().
LEMMA TimelyStopStep ==
    ASSUME TypeInv, TimelyInv, UNCHANGED <<audioSource, ctlVars, queue, uiVars>>,
           StopStep
    PROVE  TimelyInv'
  <1> USE DEF fields, streams, pool, locals, history, ctlVars, uiVars, screenVars
  <1> USE DEF TimelyInv, Timely, LooperInv, TestInv, EndInv, PlaceInv, EquipInv, CycleInv, StageInv,
              Away, Preparing, Scheduled, Quiet, Leaving, Ending, Stopping, InTest, Tested,
              JustTested, Complete, Pending, CurrentConfig, RowsFaithful, SuspendLabels
  <1>a. DataOK /\ PcOK
    BY DEF TypeInv, TypeOK
  <1>b. audioSource = "WAV"
    BY <1>a, TestsAssumption DEF DataOK
  <1>1. CASE StopState
    BY <1>1, <1>a, <1>b, ThreadsApart, DspAssumption, TestsAssumption
    DEF StopState, Step, Goto, PcOK, DataOK, NoTask, Tasks
  <1>2. CASE Release
    BY <1>2, <1>a, <1>b, ThreadsApart, DspAssumption, TestsAssumption
    DEF Release, Step, Goto, PcOK, DataOK, NoTask, Tasks
  <1>3. CASE ForgetStream
    BY <1>3, <1>a, <1>b, ThreadsApart, DspAssumption, TestsAssumption
    DEF ForgetStream, Step, Goto, PcOK, DataOK, NoTask, Tasks
  <1>4. CASE ReleaseTrack
    BY <1>4, <1>a, <1>b, ThreadsApart, DspAssumption, TestsAssumption
    DEF ReleaseTrack, Continue, Return, Rest, Goto, PcOK, DataOK, NoTask, Tasks
  <1>5. CASE DropTrack
    BY <1>5, <1>a, <1>b, ThreadsApart, DspAssumption, TestsAssumption
    DEF DropTrack, Return, Rest, Goto, PcOK, DataOK, NoTask, Tasks
  <1> QED
    BY <1>1, <1>2, <1>3, <1>4, <1>5 DEF StopStep

\* A step of one of the threads.
LEMMA TimelyThread ==
    ASSUME TestsTypeInv, TimelyInv, UNCHANGED <<audioSource, ctlVars, queue, uiVars>>, ThreadStep
    PROVE  TimelyInv' \/ Ended'
  BY TimelyDspStep, TimelyCbStep, TimelyCbSuspend, TimelyUiSuspend, TimelyStopStep
     DEF TestsTypeInv, ThreadStep, ClientStep

\* A step that leaves the DSP thread and the screen as they are.
LEMMA TimelySame ==
    ASSUME TimelyInv, UNCHANGED <<vars, uiVars>>, LooperInv', ~Stopping => StageInv'
    PROVE  TimelyInv'
  <1>1. (Stopping' <=> Stopping) /\ Timely' /\ RowsFaithful'
    BY DEF TimelyInv, Timely, RowsFaithful, Stopping, uiVars
  <1>2. ASSUME ~Stopping PROVE PlaceInv' /\ EquipInv' /\ CycleInv'
    BY <1>2 DEF TimelyInv, TestInv, PlaceInv, EquipInv, CycleInv, Away, Preparing, Scheduled, Quiet,
                Leaving, Ending, vars, uiVars, fields, streams, pool, locals, history
  <1>3. ASSUME Stopping PROVE EndInv'
    BY <1>3 DEF TimelyInv, EndInv, Quiet, vars, uiVars, fields, streams, pool, locals, history
  <1> QED
    BY <1>1, <1>2, <1>3 DEF TimelyInv, TestInv

\* What such a step leaves alone, variable by variable.
LEMMA StillVars ==
    ASSUME UNCHANGED <<vars, uiVars>>
    PROVE  /\ state' = state /\ config' = config /\ callbackTicks' = callbackTicks /\ used' = used
           /\ (audioStream' <=> audioStream) /\ pc' = pc /\ op' = op /\ ui' = ui
           /\ (dt' <=> dt) /\ (inputStream' <=> inputStream) /\ (replying' <=> replying)
           /\ (dialog' <=> dialog)
  <1>1. /\ state' = state /\ config' = config /\ callbackTicks' = callbackTicks /\ used' = used
        /\ pc' = pc /\ op' = op /\ ui' = ui /\ audioStream' = audioStream /\ dt' = dt
        /\ inputStream' = inputStream /\ replying' = replying /\ dialog' = dialog
    BY DEF vars, fields, history, uiVars, screenVars
  <1> QED
    BY <1>1, Zenon

\* A step of the control thread.
LEMMA TimelyCtl ==
    ASSUME TalkInv, TestsTypeInv, TimelyInv, CtlStep
    PROVE  TimelyInv' \/ Ended'
  <1> USE DEF CtlLabels
  <1>a. /\ LooperInv /\ Prompt /\ ~MayAbort /\ UnitCount > 0
        /\ ~Stopping => TestInv
        /\ Stopping => EndInv
    BY DEF TimelyInv, Timely
  <1>b. ctl \notin {"start", "afterFinish", "over"} => running /\ dt /\ ~Stopping /\ TestInv
    BY <1>a DEF LooperInv, Stopping, TestsTypeInv, ScreenTypes
  <1>c. ~Awaiting => queue = <<>> /\ ~replying /\ ui \notin {"resume", "reply"} /\ pc["ui"] = "free"
    BY <1>a DEF TalkInv, Stopping, LooperInv, TestInv, StageInv, EndInv
  <1>d. unit \in Int /\ UnitCount \in Int
    BY UnitFacts DEF TestsTypeInv, LoopInv
  <1>1. CASE CtlStart \/ CtlWait \/ CtlSeesBusy \/ CtlSleep
    <2>1. UNCHANGED <<vars, uiVars, unit, search, queue>> /\ ~Awaiting
      BY <1>1 DEF CtlStart, CtlWait, CtlSeesBusy, CtlSleep, CtlGoto, Awaiting
    <2>2. LooperInv'
      BY <1>1, <1>a, <1>b, <1>c, <2>1, StillVars
      DEF CtlStart, CtlWait, CtlSeesBusy, CtlSleep, CtlGoto, LooperInv, Pending, Awaiting
    <2>3. ~Stopping => StageInv'
      BY <1>1, <1>a, <1>b, <1>c, <2>1, StillVars
      DEF CtlStart, CtlWait, CtlSeesBusy, CtlSleep, CtlGoto, Slept, SuspendLabels, LooperInv,
          StageInv, Leaving, JustTested, TestInv, InTest, Tested, Complete, Pending, CurrentConfig, Awaiting
    <2> QED BY <2>1, <2>2, <2>3, TimelySame
  <1>2. CASE CtlHead \/ CtlProbe
    <2>1. UNCHANGED <<vars, uiVars, unit, queue>> /\ ~Awaiting
      BY <1>2 DEF CtlHead, CtlProbe, Awaiting
    <2>2. LooperInv'
      BY <1>2, <1>a, <1>b, <1>c, <2>1, FreshSearches, StillVars
      DEF CtlHead, CtlProbe, LooperInv, Pending, Awaiting
    <2>3. ~Stopping => StageInv'
      BY <1>2, <1>a, <1>b, <1>c, <2>1, FreshSearches, StillVars
      DEF CtlHead, CtlProbe, LooperInv, StageInv, Leaving, JustTested, TestInv, InTest, Tested, Complete, Pending,
          CurrentConfig, Awaiting
    <2> QED BY <2>1, <2>2, <2>3, TimelySame
  <1>3. CASE CtlSeesSuspended
    <2>1. UNCHANGED <<vars, uiVars, unit, search, running, queue>> /\ ~Awaiting /\ ctl = "look" /\ ctl' = WaitExit
      BY <1>3 DEF CtlSeesSuspended, CtlGoto, Awaiting
    <2>2. state = "SUSPENDED" /\ TestInv
      BY <1>3, <1>a, <1>b, <2>1 DEF CtlSeesSuspended
    <2>3. pc["cb"] = "idle" \/ Leaving
      BY <2>2 DEF TestInv, PlaceInv, Away, Preparing, Scheduled, Quiet, Leaving
    <2>4. InTest /\ Complete /\ audioStream
      BY <2>1, <2>2 DEF InTest, TestInv, StageInv
    <2>5. LooperInv'
      BY <1>a, <1>b, <1>c, <2>1, <2>2, <2>3, <2>4, StillVars
      DEF WaitExit, LooperInv, Pending, Awaiting
    <2>6. ctl' \in {"judge", "release"} /\ CurrentConfig' = CurrentConfig
      BY <2>1 DEF WaitExit, CurrentConfig
    <2>7. Complete' /\ Tested' /\ JustTested' /\ ~InTest'
      BY <2>1, <2>4, <2>6, StillVars DEF Complete, Tested, JustTested, InTest
    <2>9. pc'["cb"] = "idle" \/ Leaving'
      BY <2>1, <2>3, StillVars DEF Leaving
    <2>8. ~Stopping => StageInv'
      BY <1>a, <1>b, <1>c, <2>1, <2>2, <2>9, <2>4, <2>6, <2>7, StillVars
      DEF LooperInv, StageInv, TestInv, Pending, Awaiting
    <2> QED BY <2>1, <2>5, <2>8, TimelySame
  <1>4. CASE CtlBreaksOff
    <2>1. TestInv /\ callbackTicks > MaxDspCycles
      BY <1>4, <1>b DEF CtlBreaksOff, CtlGoto
    <2> QED BY <2>1, DspAssumption DEF TestInv, CycleInv, TestsTypeInv, TypeInv, TypeOK, DataOK
  <1>5. CASE CtlNoThread
    BY <1>5, <1>b DEF CtlNoThread
  <1>6. CASE CtlJudge \/ CtlMeasure
    <2>1. UNCHANGED <<vars, uiVars, unit, queue>> /\ ~Awaiting /\ running /\ ctl' \in {"measure", "release"}
      BY <1>6, <1>b DEF CtlJudge, CtlMeasure, CtlGoto, Awaiting
    <2>2. search \in Searches
      BY DEF TestsTypeInv, LoopInv, SearchInv, Chosen, Decided
    <2>3. search'.stressParam = search.stressParam
      BY <1>6, <2>1, <2>2, JudgedTested DEF CtlJudge, CtlMeasure
    <2>4. CurrentConfig' = CurrentConfig
      BY <2>1, <2>3 DEF CurrentConfig
    <2>5. ctl \in {"judge", "measure"} /\ running' = running
      BY <1>6 DEF CtlJudge, CtlMeasure, CtlGoto
    <2>6. LooperInv'
      BY <1>a, <1>b, <1>c, <2>1, <2>4, <2>5, StillVars
      DEF LooperInv, Pending, Awaiting
    <2>7. ~Stopping => StageInv'
      BY <1>a, <1>b, <1>c, <2>1, <2>4, <2>5, StillVars
      DEF LooperInv, StageInv, Leaving, JustTested, TestInv, InTest, Tested, Complete, Pending, CurrentConfig, Awaiting
    <2> QED BY <2>1, <2>6, <2>7, TimelySame
  <1>7. CASE CtlTail
    <2>1. UNCHANGED <<vars, uiVars, search, queue, running>> /\ ~Awaiting /\ running /\ ctl = "tail"
      BY <1>7, <1>b DEF CtlTail, Awaiting
    <2>2. ctl' = "head" /\ unit' = unit + 1
      BY <1>7, <2>1 DEF CtlTail
    <2> QED BY <1>a, <1>b, <1>c, <1>d, <2>1, <2>2, TimelySame
            DEF LooperInv, StageInv, Leaving, JustTested, TestInv, InTest, Tested, Complete, Pending, Awaiting,
                vars, fields, uiVars, screenVars
  <1>8. ASSUME NEW from \in {"launch", "release", "store", "finish"}, NEW to, Skip(from, to)
        PROVE  FALSE
    BY <1>8, <1>b DEF Skip, CtlGoto
  <1>9. ASSUME NEW from \in {"launch", "release", "store", "finish"},
               NEW to \in {"afterLaunch", "afterRelease", "afterStore", "afterFinish"},
               NEW msg, Send(from, to, msg), msg.action = from,
               (from = "launch") <=> (to = "afterLaunch"),
               (from = "release") <=> (to = "afterRelease"),
               (from = "store") <=> (to = "afterStore"),
               (from = "finish") <=> (to = "afterFinish")
        PROVE  TimelyInv'
    <2>1. /\ UNCHANGED <<vars, uiVars, unit, search, running>> /\ ctl = from /\ ctl' = to
          /\ ~Awaiting
      BY <1>9 DEF Send, CtlGoto, Awaiting
    <2>2. \A action : Pending(action)' <=> msg.action = action
      BY <1>9, SendPending
    <2>3. ~Pending("store") /\ ~Pending("launch") /\ ~Pending("finish")
      BY <1>c, <2>1 DEF Pending
    <2>4. CurrentConfig' = CurrentConfig
      BY <2>1 DEF CurrentConfig
    <2>5. Pending("launch")' <=> to = "afterLaunch"
      BY <1>9, <2>2
    <2>6. Pending("store")' <=> to = "afterStore"
      BY <1>9, <2>2
    <2>7. Pending("finish")' <=> to = "afterFinish"
      BY <1>9, <2>2
    <2>8. LooperInv'
      BY <1>9, <1>a, <1>b, <1>c, <2>1, <2>3, <2>4, <2>5, <2>6, <2>7, StillVars
      DEF LooperInv, Pending, Awaiting
    <2>9. ~Stopping => StageInv'
      BY <1>9, <1>a, <1>b, <1>c, <2>1, <2>3, <2>4, <2>5, <2>6, <2>7, StillVars
      DEF LooperInv, StageInv, Leaving, JustTested, TestInv, InTest, Tested, Complete, Pending, CurrentConfig, Awaiting
    <2> QED BY <2>1, <2>8, <2>9, TimelySame
  <1>10. ASSUME NEW from \in {"afterLaunch", "afterRelease", "afterStore", "afterFinish"},
                NEW to \in {"wait", "tail", "over", AfterRelease}, Await(from, to),
                from = "afterRelease" /\ InPhase2(unit) => Slept,
                (from = "afterLaunch") <=> (to = "wait"),
                (from = "afterRelease") <=> (to = AfterRelease),
                (from = "afterStore") <=> (to = "tail"),
                (from = "afterFinish") <=> (to = "over")
         PROVE  TimelyInv'
    <2>1. /\ UNCHANGED <<vars, uiVars, unit, search, running, queue>> /\ ctl = from /\ ctl' = to
          /\ queue = <<>> /\ ~replying
      BY <1>10, AwaitTalk DEF Await, CtlGoto, TalkInv, AfterRelease
    <2>2. ui \notin {"resume", "reply"}
      BY <2>1 DEF TalkInv
    <2>3. pc["ui"] = "free"
      BY <1>a, <2>1, <2>2 DEF TestInv, StageInv, EndInv, LooperInv, Stopping
    <2>4. \A action : ~Pending(action) /\ ~Pending(action)'
      BY <2>1 DEF Pending
    <2>5. CurrentConfig' = CurrentConfig
      BY <2>1 DEF CurrentConfig
    <2>6. LooperInv'
      BY <1>10, <1>a, <1>b, <2>1, <2>2, <2>3, <2>4, <2>5, StillVars
      DEF AfterRelease, LooperInv, Pending, Awaiting
    <2>7. ~Stopping => StageInv'
      BY <1>10, <1>a, <1>b, <2>1, <2>2, <2>3, <2>4, <2>5, StillVars
      DEF AfterRelease, Slept, SuspendLabels, LooperInv, StageInv, Leaving, JustTested, TestInv, InTest, Tested, Complete, Pending,
          CurrentConfig, Awaiting
    <2> QED BY <2>1, <2>6, <2>7, TimelySame
  <1>11. CASE CtlLaunch
    <2> DEFINE msg == [action |-> "launch", config |-> CurrentConfig]
    <2>1. msg.action = "launch"
      OBVIOUS
    <2>2. CASE Send("launch", "afterLaunch", msg)
      <3> HIDE DEF msg
      <3> QED BY <1>9, <2>1, <2>2
    <2> QED BY <1>8, <1>10, <1>11, <2>2 DEF CtlLaunch, AfterRelease
  <1>12. CASE CtlRelease
    <2> DEFINE msg == [action |-> "release"]
    <2>1. msg.action = "release"
      OBVIOUS
    <2>2. CASE Send("release", "afterRelease", msg)
      <3> HIDE DEF msg
      <3> QED BY <1>9, <2>1, <2>2
    <2>3. AfterRelease \notin {"wait", "tail", "over"}
      BY DEF AfterRelease
    <2> QED BY <1>8, <1>10, <1>12, <2>2, <2>3 DEF CtlRelease
  <1>13. CASE CtlStore
    <2> DEFINE msg == [action |-> "store", unit |-> unit,
                       stress |-> IF InPhase2(unit) THEN search.m ELSE 0]
    <2>1. msg.action = "store"
      OBVIOUS
    <2>2. CASE Send("store", "afterStore", msg)
      <3> HIDE DEF msg
      <3> QED BY <1>9, <2>1, <2>2
    <2> QED BY <1>8, <1>10, <1>13, <2>2 DEF CtlStore, AfterRelease
  <1>14. CASE CtlFinish
    <2> DEFINE msg == [action |-> "finish"]
    <2>1. msg.action = "finish"
      OBVIOUS
    <2>2. CASE Send("finish", "afterFinish", msg)
      <3> HIDE DEF msg
      <3> QED BY <1>9, <2>1, <2>2
    <2> QED BY <1>8, <1>10, <1>14, <2>2 DEF CtlFinish, AfterRelease
  <1>15. CASE CtlScreen
    <2>1. UNCHANGED <<uiVars, unit, search, queue, running>> /\ ~Awaiting /\ ctl = "screen"
      BY <1>15 DEF CtlScreen, Awaiting
    <2>2. CASE ctl' = "finish" /\ UNCHANGED vars
      <3>1. UNCHANGED <<vars, uiVars>>
        BY <2>1, <2>2
      <3>2. LooperInv'
        BY <1>a, <1>b, <1>c, <2>1, <2>2, <3>1, StillVars DEF LooperInv, Pending, Awaiting
      <3>3. ~Stopping => StageInv'
        BY <1>a, <1>b, <1>c, <2>1, <2>2, <3>1, StillVars
        DEF LooperInv, StageInv, Leaving, JustTested, TestInv, InTest, Tested, Complete, Pending,
            CurrentConfig, Awaiting
      <3> QED BY <3>1, <3>2, <3>3, TimelySame
    <2>3. CASE /\ Goto("ctl", "crashed") /\ ctl' = ctl
               /\ UNCHANGED <<audioSource, fields, streams, pool, locals, op, history>>
      <3>1. UNCHANGED <<config, results, state, callbackTicks, tasks, dspTask, newTask>>
        BY <2>1, <2>3 DEF fields, streams, pool, locals, uiVars
      <3>2. PcOK
        BY DEF TestsTypeInv, TypeInv, TypeOK
      <3> QED BY <2>1, <2>3, <3>1, <3>2, Throwing, TestsAssumption
    <2> QED BY <1>15, <2>2, <2>3 DEF CtlScreen
  <1> QED BY <1>1, <1>2, <1>3, <1>4, <1>5, <1>6, <1>7, <1>11, <1>12, <1>13, <1>14, <1>15 DEF CtlStep

\* A message on the looper is the one the control thread waits for.
LEMMA TakenFrom ==
    ASSUME TalkInv, NEW action \in {"launch", "release", "store", "finish"}, Receive(action)
    PROVE  /\ Pending(action) /\ queue' = <<>> /\ replying' = TRUE /\ ui = "looper"
           /\ action = "launch" => ctl = "afterLaunch"
           /\ action = "release" => ctl = "afterRelease"
           /\ action = "store" => ctl = "afterStore"
           /\ action = "finish" => ctl = "afterFinish"
  <1>1. Awaiting /\ action = Sent[ctl] /\ queue' = <<>> /\ replying' = TRUE
    BY ReceiveTalk
  <1> QED
    BY <1>1 DEF Receive, Pending, Sent, Awaiting

\* The end of the plan: the looper's part of finishTests().
LEMMA TimelyFinish ==
    ASSUME TalkInv, TestsTypeInv, TimelyInv, UiStep, UiFinish \/ UiQuit \/ UiSleep \/ UiDrop
    PROVE  TimelyInv'
  <1> USE DEF fields, streams, pool, locals, history, ctlVars, uiVars, screenVars, vars
  <1> USE DEF TimelyInv, Timely, LooperInv, TestInv, EndInv, PlaceInv, EquipInv, CycleInv, StageInv,
              Away, Preparing, Scheduled, Quiet, Leaving, Ending, Stopping, InTest, Tested,
              JustTested, Complete, Pending, CurrentConfig, RowsFaithful, SuspendLabels
  <1>a. pc["ui"] = "free" /\ PcOK /\ DataOK
    BY DEF UiStep, TestsTypeInv, TypeInv, TypeOK
  <1>1. CASE UiFinish
    <2>1. Pending("finish") /\ queue' = <<>> /\ replying' = TRUE /\ ctl = "afterFinish" /\ ui = "looper"
      BY <1>1, TakenFrom DEF UiFinish
    <2> QED
      BY <1>1, <1>a, <2>1
      DEF UiFinish
  <1>2. CASE UiQuit
    BY <1>2, <1>a
      DEF UiQuit
  <1>3. CASE UiSleep
    BY <1>3, <1>a
    DEF UiSleep, Settled
  <1>4. CASE UiDrop
    BY <1>4, <1>a
    DEF UiDrop, TalkInv
  <1> QED
    BY <1>1, <1>2, <1>3, <1>4

\* A launch, a release, and the calls of finishTests().
LEMMA TimelyCalls ==
    ASSUME TalkInv, TestsTypeInv, TimelyInv, UiStep,
           UiLaunch \/ UiResume \/ UiRelease \/ UiClose \/ UiSuspend \/ UiStop
    PROVE  TimelyInv'
  <1> USE DEF fields, streams, pool, locals, history, ctlVars, uiVars, screenVars, vars
  <1> USE DEF TimelyInv, Timely, LooperInv, TestInv, EndInv, PlaceInv, EquipInv, CycleInv, StageInv,
              Away, Preparing, Scheduled, Quiet, Leaving, Ending, Stopping, InTest, Tested,
              JustTested, Complete, Pending, CurrentConfig, RowsFaithful, SuspendLabels
  <1>a. pc["ui"] = "free" /\ PcOK /\ DataOK
    BY DEF UiStep, TestsTypeInv, TypeInv, TypeOK
  <1>1. CASE UiLaunch
    <2>1. Pending("launch") /\ queue' = <<>> /\ replying' = TRUE /\ ctl = "afterLaunch" /\ ui = "looper"
      BY <1>1, TakenFrom DEF UiLaunch
    <2>2. config' = CurrentConfig
      BY <1>1, <2>1 DEF UiLaunch, Configure, TestsTypeInv, LoopInv, MessageInv
    <2> QED
      BY <1>1, <1>a, <2>1, <2>2, DspAssumption, TestsAssumption
      DEF UiLaunch, Configure
  <1>2. CASE UiResume
    <2>1. queue = <<>>
      BY <1>2 DEF UiResume, TalkInv
    <2> QED
      BY <1>2, <1>a, <2>1, DspAssumption, TestsAssumption
      DEF UiResume, Resume
  <1>3. CASE UiRelease
    <2>1. Pending("release") /\ queue' = <<>> /\ replying' = TRUE /\ ctl = "afterRelease" /\ ui = "looper"
      BY <1>3, TakenFrom DEF UiRelease
    <2> QED
      BY <1>3, <1>a, <2>1, ThreadsApart, DspAssumption, TestsAssumption
      DEF UiRelease, BeginSuspend, Goto, PcOK, DataOK
  <1>4. CASE UiClose
    <2>1. inputStream
      BY <1>4 DEF UiClose, TimelyInv, LooperInv
    <2> QED
      BY <1>4, <1>a, <2>1, DspAssumption, TestsAssumption
      DEF UiClose
  <1>5. CASE UiSuspend
    BY <1>5, <1>a, ThreadsApart, DspAssumption, TestsAssumption
    DEF UiSuspend, BeginSuspend, Goto, PcOK, DataOK
  <1>6. CASE UiStop
    BY <1>6, <1>a, ThreadsApart, DspAssumption, TestsAssumption
    DEF UiStop, BeginStop, Goto, PcOK, DataOK
  <1> QED
    BY <1>1, <1>2, <1>3, <1>4, <1>5, <1>6

\* The answer, and its arrival.
LEMMA TimelyAnswer ==
    ASSUME TalkInv, TestsTypeInv, TimelyInv, UiStep, UiReply \/ UiDone
    PROVE  TimelyInv'
  <1> USE DEF fields, streams, pool, locals, history, ctlVars, uiVars, screenVars, vars
  <1> USE DEF TimelyInv, Timely, LooperInv, TestInv, EndInv, PlaceInv, EquipInv, CycleInv, StageInv,
              Away, Preparing, Scheduled, Quiet, Leaving, Ending, Stopping, InTest, Tested,
              JustTested, Complete, CurrentConfig, RowsFaithful, SuspendLabels
  <1>a. pc["ui"] = "free"
    BY DEF UiStep
  <1>1. \A action \in {"launch", "release", "store", "finish"} : ~Pending(action) /\ ~Pending(action)'
    <2>1. CASE UiReply
      <3> DEFINE answer == [action |-> "reply"]
      <3>1. queue = <<>> /\ answer.action = "reply"
        BY <2>1 DEF UiReply, TalkInv
      <3>2. queue' # <<>> /\ Head(queue') = answer
        BY <2>1, <3>1, QueueFacts DEF UiReply
      <3> QED BY <3>1, <3>2 DEF Pending
    <2>2. CASE UiDone
      BY <2>2, QueueFacts DEF UiDone, TalkInv, Pending
    <2> QED BY <2>1, <2>2
  <1>2. ~Pending("launch") /\ ~Pending("store") /\ ~Pending("finish")
    BY <1>1
  <1>3. ~Pending("launch")' /\ ~Pending("store")' /\ ~Pending("finish")'
    BY <1>1
  <1>4. CASE UiReply
    BY <1>4, <1>a, <1>2, <1>3
    DEF UiReply
  <1>5. CASE UiDone
    BY <1>5, <1>a, <1>2, <1>3
    DEF UiDone
  <1> QED
    BY <1>4, <1>5

\* When the search has ended, the last test's parameter is its answer or the next.
LEMMA LastTested ==
    ASSUME NEW s, Decided(s), ~Searching(s)
    PROVE  s.stressParam \in {s.m, s.m + 1}
  <1>1. s.m \in Int /\ s.M \in Int /\ s.stressParam \in Int /\ s.m >= s.M - 1 /\ s.m <= MaxParam
    BY SearchAssumption DEF Decided, Searches, Params, Searching
  <1> QED
    BY <1>1 DEF Decided

\* A row is stored: it is that of a complete test.
LEMMA TimelyStore ==
    ASSUME TalkInv, TestsTypeInv, TimelyInv, UiStep, UiStore
    PROVE  TimelyInv'
  <1> DEFINE row == [unit |-> Head(queue).unit, stress |-> Head(queue).stress,
                     config |-> config, ticks |-> callbackTicks, used |-> used]
  <1>1. /\ Pending("store") /\ queue' = <<>> /\ replying' = TRUE /\ ctl = "afterStore"
        /\ ui = "looper" /\ ui' = "reply" /\ pc["ui"] = "free" /\ UNCHANGED <<vars, ctlVars>>
        /\ (dt' <=> dt) /\ (inputStream' <=> inputStream) /\ (dialog' <=> dialog) /\ dt
    <2>1. /\ Pending("store") /\ queue' = <<>> /\ replying' = TRUE /\ ctl = "afterStore" /\ ui = "looper"
      BY TakenFrom DEF UiStore
    <2>2. dt' = dt /\ inputStream' = inputStream /\ dialog' = dialog
      BY DEF UiStore, screenVars
    <2>3. (dt' <=> dt) /\ (inputStream' <=> inputStream) /\ (dialog' <=> dialog)
      BY <2>2, Zenon
    <2> QED BY <2>1, <2>3 DEF UiStore, UiStep
  <1>2. ~Stopping /\ ~Stopping' /\ TestInv /\ LooperInv
    BY <1>1 DEF Stopping, TimelyInv
  <1>3. \A action : ~Pending(action)'
    BY <1>1 DEF Pending
  <1>4. LooperInv'
    BY <1>1, <1>2, <1>3 DEF LooperInv, vars, ctlVars
  <1>5. Complete /\ audioStream /\ state = "SUSPENDED" /\ pc["cb"] = "idle"
    BY <1>1, <1>2 DEF TestInv, StageInv, Tested, InTest, JustTested
  <1>6. PlaceInv' /\ EquipInv' /\ CycleInv'
    BY <1>1, <1>2 DEF TestInv, PlaceInv, EquipInv, CycleInv, Away, Preparing, Scheduled, Quiet,
                      Leaving, Ending, vars, fields, streams, pool, locals, history
  <1>7. StageInv'
    BY <1>1, <1>2, <1>3, <1>5 DEF TestInv, StageInv, InTest, Tested, vars, fields, ctlVars
  <1>8. RowsFaithful'
    <2>1. /\ row.unit = unit /\ row.stress = IF InPhase2(unit) THEN search.m ELSE 0
          /\ row.config = config /\ row.ticks = callbackTicks /\ row.used = used
      BY <1>1 DEF TestsTypeInv, LoopInv, MessageInv
    <2>2. results' = Append(results, row)
      BY DEF UiStore
    <2> HIDE DEF row
    <2>3. row.ticks = MaxDspCycles /\ row.used = {row.config}
      BY <1>5, <2>1 DEF Complete
    <2>4. row.config = Config(AlgOf(unit), BlockOf(unit), IF InPhase2(unit) THEN search.stressParam ELSE 0)
      BY <1>5, <2>1 DEF Complete, CurrentConfig
    <2>5. row.config.alg = AlgOf(row.unit) /\ row.config.block = BlockOf(row.unit)
      BY <2>1, <2>4 DEF Config
    <2>6. row.config.stress = IF InPhase2(unit) THEN search.stressParam ELSE 0
      BY <2>4 DEF Config
    <2>7. InPhase2(unit) => search.stressParam \in {search.m, search.m + 1}
      BY <1>1, <1>2, LastTested DEF TestInv, StageInv, TestsTypeInv, LoopInv, SearchInv, Trying
    <2>8. row.config.stress \in {row.stress} \cup (IF InPhase2(row.unit) THEN {row.stress + 1} ELSE {})
      BY <2>1, <2>6, <2>7
    <2>9. /\ Len(results) \in Nat /\ Len(results') = Len(results) + 1
          /\ \A i \in 1..Len(results) : results'[i] = results[i]
          /\ results'[Len(results) + 1] = row
      BY <2>2, AppendOne DEF TestsTypeInv
    <2>10. \A i \in 1..Len(results') : results'[i] = row \/ (i \in 1..Len(results) /\ results'[i] = results[i])
      BY <2>9
    <2> QED
      BY <2>3, <2>5, <2>8, <2>10 DEF TimelyInv, RowsFaithful
  <1> QED
    BY <1>2, <1>4, <1>6, <1>7, <1>8 DEF TimelyInv, TestInv, Timely

\* A launch with more oscillators than the table holds.
LEMMA TimelyThrows ==
    ASSUME TalkInv, TestsTypeInv, TimelyInv, UiStep, UiLaunchThrows
    PROVE  Ended'
  <1>1. Pending("launch") /\ ctl = "afterLaunch" /\ ctl' = "afterLaunch"
    BY TakenFrom DEF UiLaunchThrows, ctlVars
  <1>2. LaunchThrows(CurrentConfig) /\ CurrentConfig' = CurrentConfig
    BY <1>1 DEF UiLaunchThrows, TestsTypeInv, LoopInv, MessageInv, ctlVars, CurrentConfig
  <1>3. UNCHANGED <<config, results, state, callbackTicks, tasks, dspTask, newTask>>
    BY DEF UiLaunchThrows, fields, streams, pool, locals
  <1>4. LaunchThrows(CurrentConfig)'
    BY <1>2, <1>3 DEF LaunchThrows
  <1>5. PcOK /\ Goto("ui", "crashed")
    BY DEF UiLaunchThrows, TestsTypeInv, TypeInv, TypeOK
  <1> QED BY <1>1, <1>3, <1>4, <1>5, Throwing, TestsAssumption

LEMMA TimelyStep ==
    ASSUME TalkInv, TestsTypeInv, TimelyInv, [TestsNext]_testVars
    PROVE  TimelyInv' \/ Ended'
  <1>1. CASE UNCHANGED testVars
    <2>1. UNCHANGED <<vars, uiVars>> /\ UNCHANGED <<ctlVars, queue>>
      BY <1>1 DEF testVars
    <2>2. LooperInv'
      BY <2>1, StillVars DEF TimelyInv, LooperInv, Pending, ctlVars
    <2>3. ~Stopping => StageInv'
      BY <2>1, StillVars DEF TimelyInv, TestInv, StageInv, Leaving, InTest, Tested, JustTested,
                             Complete, Pending, CurrentConfig, ctlVars
    <2> QED BY <2>1, <2>2, <2>3, TimelySame
  <1>2. CASE UNCHANGED audioSource /\ ThreadStep /\ UNCHANGED <<ctlVars, queue, uiVars>>
    BY <1>2, TimelyThread
  <1>3. CASE CtlStep
    BY <1>3, TimelyCtl
  <1>4. CASE UiStep /\ UiNoThread
    <2>1. PICK action \in {"launch", "release", "store"} : Receive(action)
      BY <1>4 DEF UiNoThread
    <2>2. ctl \in {"afterLaunch", "afterRelease", "afterStore"} /\ ~dt
      BY <1>4, <2>1, TakenFrom DEF UiNoThread
    <2> QED BY <2>2 DEF TimelyInv, LooperInv
  <1>5. CASE UiStep /\ ~UiNoThread
    BY <1>5, TimelyThrows, TimelyFinish, TimelyCalls, TimelyAnswer, TimelyStore DEF UiStep
  <1>6. CASE BackPressed \/ DialogNo \/ DialogYes
    BY <1>6 DEF BackPressed, DialogNo, DialogYes, TimelyInv, Timely, LooperInv
  <1> QED
    BY <1>1, <1>2, <1>3, <1>4, <1>5, <1>6 DEF TestsNext, Running

LEMMA TimelyBegins == TestsInit /\ Timely => TimelyInv
  <1> SUFFICES ASSUME TestsInit, Timely PROVE TimelyInv
    OBVIOUS
  <1> USE TestsAssumption, DspAssumption, ThreadsApart
  <1>1. /\ ctl = "start" /\ ui = "looper" /\ queue = <<>> /\ dt /\ ~dialog /\ unit = 1 /\ inputStream
        /\ ~replying /\ Len(results) = 0
    BY QueueFacts DEF TestsInit
  <1>2. /\ state = "SUSPENDED" /\ pc = [t \in Threads |-> IF t = "dsp" THEN "top" ELSE Rest(t)]
        /\ tasks = {} /\ dspTask = NoTask /\ newTask = NoTask /\ track = "null" /\ toRead = 0
        /\ ~audioStream /\ input = "fresh" /\ callbackTicks = 0
    BY DEF TestsInit, Init
  <1>3. pc["dsp"] = "top" /\ pc["cb"] = "idle" /\ pc["ui"] = "free" /\ pc["ctl"] = "free"
    BY <1>2 DEF Rest, Threads
  <1>4. LooperInv
    BY <1>1, <1>3 DEF LooperInv, Pending
  <1>5. PlaceInv /\ EquipInv
    BY <1>1, <1>2, <1>3 DEF PlaceInv, EquipInv, Away, Preparing, Scheduled, Quiet, Ending
  <1>6. CycleInv
    BY <1>1, <1>2, <1>3 DEF CycleInv, Scheduled, SuspendLabels
  <1>7. StageInv
    BY <1>1, <1>2, <1>3 DEF StageInv, InTest, Tested, Pending
  <1>8. RowsFaithful /\ ~Stopping
    BY <1>1 DEF RowsFaithful, Stopping
  <1> QED
    BY <1>4, <1>5, <1>6, <1>7, <1>8 DEF TimelyInv, TestInv

\* Nothing happens after a throw.
LEMMA EndedStep ==
    ASSUME Ended, [TestsNext]_testVars
    PROVE  Ended'
  <1>1. UNCHANGED testVars
    BY DEF Ended, TestsNext, Running
  <1>2. UNCHANGED <<pc, state, config, results, callbackTicks, tasks, dspTask, newTask, ctl, unit>>
    BY <1>1 DEF testVars, vars, fields, streams, pool, locals, ctlVars, uiVars
  <1>3. (audioStream' <=> audioStream) /\ search' = search
    BY <1>1 DEF testVars, vars, fields, ctlVars
  <1>4. Timely' /\ RowsFaithful'
    BY <1>2 DEF Ended, Timely, RowsFaithful
  <1>5. ~Alive' /\ WithinMaxCycles' /\ TasksHeld'
    BY <1>2 DEF Ended, Alive, WithinMaxCycles, TasksHeld
  <1>6. OnlyKnownThrows'
    BY <1>2, <1>3 DEF Ended, OnlyKnownThrows, LaunchThrows, CurrentConfig
  <1> QED BY <1>4, <1>5, <1>6 DEF Ended

\* What holds throughout a run of the tests that has time enough.
LEMMA TimelyInvariant == TestsSpec /\ Timely => [](TalkInv /\ TestsTypeInv /\ (TimelyInv \/ Ended))
  <1>1. TestsSpec => [](TalkInv /\ TestsTypeInv)
    BY TalkInit, TalkStep, TestsTypeBegins, TestsTypeStep, PTL DEF TestsSpec
  <1>2. TalkInv /\ TestsTypeInv /\ (TimelyInv \/ Ended) /\ [TestsNext]_testVars
            => (TimelyInv \/ Ended)'
    BY TimelyStep, EndedStep
  <1>3. TestsInit /\ Timely => TimelyInv \/ Ended
    BY TimelyBegins
  <1> QED
    BY <1>1, <1>2, <1>3, PTL DEF TestsSpec

\* The rows' statistics are those of whole tests of the units they name, for every
\* plan, every number of cycles and every outcome of the tests, provided the sleeps
\* are long enough and nobody breaks the tests off (launchTest, storeResults and
\* the loops of TestControlThread.run).
THEOREM RowsFaithfulHolds == TestsSpec /\ Timely => []RowsFaithful
  <1>1. TimelyInv \/ Ended => RowsFaithful
    BY DEF TimelyInv, Ended
  <1> QED
    BY <1>1, TimelyInvariant, PTL

\* With the same provisos no test runs more cycles than setMaxDspCycles() allowed:
\* the callback that counts the last one suspends, and no task outlives it.
THEOREM WithinMaxCyclesHolds == TestsSpec /\ Timely => []WithinMaxCycles
  <1>1. TimelyInv \/ Ended => WithinMaxCycles
    BY TimelyAlive DEF Ended
  <1> QED
    BY <1>1, TimelyInvariant, PTL

\* With the same provisos nothing throws but the known three: a launch of a table
\* algorithm past the end of its table, by its own parameter or by the one the test
\* before left, releaseTest() when the callback's own suspendDsp() overtakes it, and
\* the last screen update.  There is no use of a dropped stream or thread, no second
\* close of the input and no buffer too short for its block, so the DSP thread ends
\* only by being stopped.
THEOREM OnlyKnownThrowsHolds == TestsSpec /\ Timely => []OnlyKnownThrows
  <1>1. TimelyInv \/ Ended => OnlyKnownThrows
    BY TimelyAlive DEF Ended
  <1> QED
    BY <1>1, TimelyInvariant, PTL

\* With the same provisos every periodic task can be cancelled: the pool has no task
\* that the stream's field, or the variable about to be assigned to it, has lost
\* (WavStream.scheduleDspCallback, stopRunning).
THEOREM TasksHeldHolds == TestsSpec /\ Timely => []TasksHeld
  <1>1. TimelyInv \/ Ended => TasksHeld
    BY TimelyAlive DEF Ended
  <1> QED
    BY <1>1, TimelyInvariant, PTL

\* Only a launch changes the configuration.
LEMMA ConfigSame ==
    ASSUME [TestsNext]_testVars, ~UiLaunch
    PROVE  config' = config
  <1> USE DEF fields, streams, pool, locals, history, vars
  <1>1. CASE DspStep
    BY <1>1 DEF DspStep, Top, Wake, Setup, CreateBuffer, CheckTrack, NewTrack, ResetDsp,
                CreatePerformBuffer, ScheduleNoStream, WavSchedule, WavAssign, MicSchedule, Play,
                Enter, WavReadAll, WavReadEnd, MicReadTest, MicRead
  <1>2. CASE TaskFires \/ CbStep
    BY <1>2 DEF TaskFires, FireTask, CbStep, Tick, Count, Convert, Perform, Write, WriteTrack, Last
  <1>3. ASSUME NEW t, SuspendStep(t) PROVE config' = config
    BY <1>3 DEF SuspendStep, SuspendState, SuspendStream, WavStopFlag, WavStopTest, WavStopCancel,
                WavStopClear, MicStopRelease, MicStopDrop, MicStopFlag
  <1>4. CASE StopStep
    BY <1>4 DEF StopStep, StopState, Release, ForgetStream, ReleaseTrack, DropTrack
  <1>5. CASE CtlStep
    BY <1>5 DEF CtlStep, CtlStart, CtlHead, CtlProbe, CtlLaunch, CtlWait, CtlSeesSuspended,
                CtlSeesBusy, CtlBreaksOff, BeginSuspend, CtlNoThread, CtlJudge, CtlMeasure,
                CtlRelease, CtlSleep, CtlStore, CtlTail, CtlScreen, CtlFinish, Send, Skip, Await
  <1>6. CASE UiStep
    BY <1>6 DEF UiStep, UiLaunchThrows, UiResume, Resume, UiRelease, BeginSuspend, UiStore, UiFinish, UiNoThread,
                UiReply, UiDone, UiClose, UiQuit, UiSuspend, UiSleep, UiStop, BeginStop, UiDrop
  <1>7. CASE BackPressed \/ DialogNo \/ DialogYes
    BY <1>7 DEF BackPressed, DialogNo, DialogYes
  <1> QED
    BY <1>1, <1>2, <1>3, <1>4, <1>5, <1>6, <1>7 DEF TestsNext, ThreadStep, ClientStep, testVars

\* With the same provisos the setters of launchTest() find the DSP thread at rest:
\* no callback runs, and no periodic task is left to start one.
THEOREM ConfiguredAtRestHolds == TestsSpec /\ Timely => ConfiguredAtRest
  <1>1. TalkInv /\ (TimelyInv \/ Ended) /\ [TestsNext]_testVars
            => [config' # config => tasks = {} /\ pc["cb"] = "idle"]_testVars
    <2> SUFFICES ASSUME TalkInv, TimelyInv \/ Ended, TestsNext, UiLaunch
                 PROVE  tasks = {} /\ pc["cb"] = "idle"
      BY ConfigSame DEF testVars, UiLaunch
    <2>1. Pending("launch") /\ ctl = "afterLaunch" /\ ui = "looper"
      BY TakenFrom DEF UiLaunch
    <2>2. TimelyInv
      BY DEF Ended, TestsNext, Running
    <2>3. ~InTest /\ ~JustTested /\ TestInv
      BY <2>1, <2>2 DEF InTest, JustTested, TimelyInv, Stopping, LooperInv
    <2> QED BY <2>3 DEF TestInv, StageInv, PlaceInv, Away, Preparing, Scheduled, Quiet, Leaving
  <1> QED
    BY <1>1, TimelyInvariant, PTL DEF TestsSpec, ConfiguredAtRest

=============================================================================

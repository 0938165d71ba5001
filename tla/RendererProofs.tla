---------------------------- MODULE RendererProofs ----------------------------
(***************************************************************************)
(* The renderer as a whole, for every set of files, runs, checkpoints,      *)
(* workspaces, repositories, queries and nodes.  AnswersProofs has what is  *)
(* shown of late answers and EditorProofs the open documents; here are the  *)
(* debug session, the active run, the cooperative breakpoint and the types  *)
(* of the overview, and what all of them keep together.                     *)
(***************************************************************************)
EXTENDS AnswersProofs

--------------------------------------------------------------------------------
(* The view of a debug session.                                            *)

\* The snapshots of a run: its own, or the one of a session that has not begun.
SnapshotsOf(r) == {s \in Session : s.run \in {0, r}}
OwnCalls == {c \in Call : c.snap.run \in {0, c.run}}

\* Every session, answer and view is of the run it is kept for, and a timer that
\* coalesces refreshes has a run to refresh.
DebuggerInv ==
    /\ ViewTypeOK
    /\ \A r \in Runs : child[r] \in SnapshotsOf(r)
    /\ calls \in Seq(OwnCalls)
    /\ shown.run \in {0, target}
    /\ coalescing => target # 0

RefreshTyped ==
    /\ inFlight \in BOOLEAN /\ queued \in BOOLEAN /\ coalescing \in BOOLEAN
    /\ ackTimer \in Runs \cup {0}

LEMMA NoSessionIsOwn == \A r \in Runs : NoSession \in SnapshotsOf(r) /\ NoSession \in Session
BY DEF SnapshotsOf, NoSession, Session, Statuses

LEMMA NewCallIsOwn ==
    ASSUME NEW kind \in {"initial", "refresh"} \cup Actions, NEW r \in Runs,
           NEW s \in SnapshotsOf(r)
    PROVE  NewCall(kind, r, s) \in OwnCalls
BY DEF NewCall, OwnCalls, Call, SnapshotsOf

LEMMA OwnCallsAreCalls == \A s \in Seq(OwnCalls) : s \in Seq(Call)
BY DEF OwnCalls

\* The application follows no run.
LEMMA DebuggerBegins == ViewInit => DebuggerInv
<1> SUFFICES ASSUME ViewInit
             PROVE  DebuggerInv
  OBVIOUS
<1>1. NoSession \in Session /\ NoSession.run = 0 /\ calls \in Seq(Call) /\ calls \in Seq(OwnCalls)
  BY DEF ViewInit, NoSession, Session, Statuses
<1>2. child \in [Runs -> Session] /\ \A r \in Runs : child[r] \in SnapshotsOf(r)
  BY <1>1, NoSessionIsOwn DEF ViewInit
<1> QED
  BY <1>1, <1>2 DEF DebuggerInv, ViewTypeOK, ViewInit

\* A session moves in the backend.
LEMMA SessionMoves ==
    ASSUME DebuggerInv, NEW r \in Runs, NEW s \in SnapshotsOf(r), child' = [child EXCEPT ![r] = s],
           UNCHANGED <<view, refresh, impaired, disarmed>>, calls' \in Seq(OwnCalls),
           expired' \subseteq Runs,
           incoming' \subseteq [run : Runs, kind : {"end", "stopped", "running"}]
    PROVE  DebuggerInv'
<1>1. child' \in [Runs -> Session] /\ \A p \in Runs : child'[p] \in SnapshotsOf(p)
  BY DEF DebuggerInv, ViewTypeOK, SnapshotsOf
<1> QED
  BY <1>1, OwnCallsAreCalls DEF DebuggerInv, ViewTypeOK, view, refresh

\* Nothing moves there, and the same run is followed.
LEMMA RefreshMoves ==
    ASSUME DebuggerInv, UNCHANGED <<child, expired, view>>, RefreshTyped',
           impaired' \in BOOLEAN, disarmed' \in BOOLEAN, coalescing' => target # 0,
           incoming' \subseteq incoming, calls' \in Seq(OwnCalls)
    PROVE  DebuggerInv'
BY OwnCallsAreCalls DEF DebuggerInv, ViewTypeOK, view, RefreshTyped

\* Safe points, controls that expire and ends.
LEMMA SessionSteps ==
    ASSUME DebuggerInv, NEW r \in Runs,
           Launch(r) \/ ReportRunning(r) \/ Acknowledge(r) \/ ExpireControl(r) \/ EndRun(r)
    PROVE  DebuggerInv'
<1> DEFINE s == child[r]
           Events == [run : Runs, kind : {"end", "stopped", "running"}]
<1>1. /\ s \in Session /\ s.run \in {0, r} /\ child \in [Runs -> Session]
      /\ incoming \subseteq Events /\ expired \subseteq Runs
      /\ calls \in Seq(OwnCalls)
      /\ \A kind \in {"end", "stopped", "running"} : [run |-> r, kind |-> kind] \in Events
  BY DEF DebuggerInv, ViewTypeOK, SnapshotsOf
<1>2. CASE Launch(r)
  <2> DEFINE new == [NoSession EXCEPT !.run = r, !.status = "running"]
  <2>1. new \in SnapshotsOf(r)
    BY DEF SnapshotsOf, NoSession, Session, Statuses
  <2>2. child' = [child EXCEPT ![r] = new]
        /\ UNCHANGED <<expired, incoming, view, refresh, calls, impaired, disarmed>>
    BY <1>2 DEF Launch, history
  <2> HIDE DEF new
  <2> QED
    BY <1>1, <2>1, <2>2, SessionMoves
<1>3. CASE ReportRunning(r)
  <2> DEFINE new == [s EXCEPT !.reports = @ + 1]
  <2>1. new \in SnapshotsOf(r)
    BY <1>1 DEF SnapshotsOf, Session
  <2>2. child' = [child EXCEPT ![r] = new]
        /\ incoming' \in {incoming, incoming \cup {[run |-> r, kind |-> "running"]}}
        /\ UNCHANGED <<expired, view, refresh, calls, impaired, disarmed>>
    BY <1>1, <1>3 DEF ReportRunning, history
  <2>3. incoming' \subseteq Events
    BY <1>1, <2>2
  <2> HIDE DEF new
  <2> QED
    BY <1>1, <2>1, <2>2, <2>3, SessionMoves
<1>4. CASE Acknowledge(r)
  <2>1. PICK runs \in BOOLEAN :
          /\ child' = [child EXCEPT ![r].reports = @ + 1, ![r].ack = child[r].epoch,
                                    ![r].pending = "none",
                                    ![r].status = IF runs THEN "running" ELSE "paused"]
          /\ \/ incoming' = incoming \cup {[run |-> r, kind |-> IF runs THEN "running" ELSE "stopped"]}
             \/ runs /\ incoming' = incoming
    BY <1>4 DEF Acknowledge
  <2> DEFINE new == [s EXCEPT !.reports = @ + 1, !.ack = s.epoch, !.pending = "none",
                              !.status = IF runs THEN "running" ELSE "paused"]
  <2>2. new \in SnapshotsOf(r)
    <3> DEFINE status == IF runs THEN "running" ELSE "paused"
    <3>1. status \in Statuses
      BY DEF Statuses
    <3>2. new = [s EXCEPT !.reports = @ + 1, !.ack = s.epoch, !.pending = "none", !.status = status]
      OBVIOUS
    <3> HIDE DEF status, s, new
    <3>3. /\ s.run \in Runs \cup {0} /\ s.reports + 1 \in Nat /\ s.epoch \in Nat
          /\ "none" \in Actions \cup {"none"}
      BY <1>1 DEF Session
    <3>4. new = [run |-> s.run, status |-> status, reports |-> s.reports + 1,
                 epoch |-> s.epoch, ack |-> s.epoch, pending |-> "none"]
      <4>1. s = [run |-> s.run, status |-> s.status, reports |-> s.reports,
                 epoch |-> s.epoch, ack |-> s.ack, pending |-> s.pending]
        BY <1>1 DEF Session
      <4> QED
        BY <3>2, <4>1
    <3>5. new \in Session /\ new.run = s.run
      BY <3>1, <3>3, <3>4 DEF Session
    <3> QED
      BY <1>1, <3>5 DEF SnapshotsOf
  <2>3. child' = [child EXCEPT ![r] = new]
        /\ UNCHANGED <<expired, view, refresh, calls, impaired, disarmed>>
    BY <1>1, <1>4, <2>1 DEF Acknowledge, history
  <2>4. incoming' \subseteq Events
    BY <1>1, <2>1
  <2> HIDE DEF new
  <2> QED
    BY <1>1, <2>2, <2>3, <2>4, SessionMoves
<1>5. CASE ExpireControl(r) \/ EndRun(r)
  <2> DEFINE new == [s EXCEPT !.status = "final", !.pending = "none"]
  <2>1. new \in SnapshotsOf(r)
    BY <1>1 DEF SnapshotsOf, Session, Statuses
  <2>2. child' = [child EXCEPT ![r] = new]
        /\ incoming' \in {incoming, incoming \cup {[run |-> r, kind |-> "end"]}}
        /\ expired' \in {expired \cup {r}, expired \ {r}}
        /\ UNCHANGED <<view, refresh, calls, impaired, disarmed>>
    BY <1>1, <1>5 DEF ExpireControl, EndRun, history
  <2>3. incoming' \subseteq Events /\ expired' \subseteq Runs
    BY <1>1, <2>2
  <2> HIDE DEF new
  <2> QED
    BY <1>1, <2>1, <2>2, <2>3, SessionMoves
<1> QED
  BY <1>2, <1>3, <1>4, <1>5

\* A run is begun, or the workspace changes.
LEMMA TargetSteps ==
    ASSUME DebuggerInv, ClearView \/ \E r \in Runs : BeginView(r)
    PROVE  DebuggerInv'
<1>1. shown' = NoSession /\ target' \in Runs \cup {0} /\ begun' \in Runs \cup {0}
      /\ queued' = FALSE /\ coalescing' = FALSE /\ ackTimer' = 0 /\ disarmed' = FALSE
      /\ impaired' \in BOOLEAN /\ UNCHANGED <<child, expired, incoming, inFlight>>
  BY DEF ClearView, BeginView, DebuggerInv, ViewTypeOK
<1>2. calls' \in Seq(OwnCalls)
  <2>1. CASE ClearView
    BY <2>1 DEF ClearView, DebuggerInv
  <2>2. ASSUME NEW r \in Runs, BeginView(r)
        PROVE  calls' \in Seq(OwnCalls)
    BY <2>2, NoSessionIsOwn, NewCallIsOwn DEF BeginView, DebuggerInv
  <2> QED
    BY <2>1, <2>2
<1>3. NoSession \in Session /\ NoSession.run = 0
  BY DEF NoSession, Session, Statuses
<1> QED
  BY <1>1, <1>2, <1>3, OwnCallsAreCalls DEF DebuggerInv, ViewTypeOK

\* A refresh is asked for, now or when its timer fires.
LEMMA Scheduled ==
    ASSUME DebuggerInv, target # 0,
           PerformRefresh \/ \E immediate \in BOOLEAN : ScheduleRefresh(immediate)
    PROVE  /\ inFlight' \in BOOLEAN /\ queued' \in BOOLEAN /\ coalescing' \in BOOLEAN
           /\ calls' \in Seq(OwnCalls)
<1>1. /\ inFlight \in BOOLEAN /\ queued \in BOOLEAN /\ coalescing \in BOOLEAN
      /\ calls \in Seq(OwnCalls) /\ target \in Runs
  BY DEF DebuggerInv, ViewTypeOK
<1>2. NewCall("refresh", target, NoSession) \in OwnCalls
  BY <1>1, NoSessionIsOwn, NewCallIsOwn
<1>3. /\ inFlight' \in {inFlight, TRUE} /\ queued' \in {queued, TRUE}
      /\ coalescing' \in {coalescing, TRUE, FALSE}
  BY DEF ScheduleRefresh, PerformRefresh, ArmCoalescing
<1>4. calls' \in {calls, Append(calls, NewCall("refresh", target, NoSession))}
  BY DEF ScheduleRefresh, PerformRefresh, ArmCoalescing
<1>5. calls' \in Seq(OwnCalls)
  BY <1>1, <1>2, <1>4
<1> QED
  BY <1>1, <1>3, <1>5

\* Timers fire and batches of events are flushed.
LEMMA TimerSteps ==
    ASSUME DebuggerInv, FlushEvents \/ CoalesceTimer \/ AckTimer
    PROVE  DebuggerInv'
<1>1. /\ inFlight \in BOOLEAN /\ queued \in BOOLEAN /\ coalescing \in BOOLEAN
      /\ calls \in Seq(OwnCalls) /\ ackTimer \in Runs \cup {0}
      /\ impaired \in BOOLEAN /\ disarmed \in BOOLEAN
  BY DEF DebuggerInv, ViewTypeOK
<1>2. CASE FlushEvents
  <2>1. incoming' = {} /\ UNCHANGED <<child, expired, view, impaired>>
    BY <1>2 DEF FlushEvents
  <2>2. CASE target = 0 \/ Mine = {}
    <3>1. UNCHANGED <<inFlight, queued, coalescing, ackTimer, calls, disarmed>>
      BY <1>2, <2>2 DEF FlushEvents, refresh
    <3> QED
      BY <1>1, <2>1, <3>1, RefreshMoves DEF RefreshTyped, DebuggerInv
  <2>3. CASE ~(target = 0 \/ Mine = {})
    <3>1. Immediate \in BOOLEAN
      BY DEF Immediate
    <3>2. ScheduleRefresh(Immediate) /\ ackTimer' \in {0, ackTimer}
          /\ disarmed' = (disarmed \/ (Immediate /\ ackTimer # 0))
      BY <1>2, <2>3 DEF FlushEvents
    <3>3. disarmed' \in BOOLEAN
      BY <3>2
    <3>4. /\ inFlight' \in BOOLEAN /\ queued' \in BOOLEAN /\ coalescing' \in BOOLEAN
          /\ calls' \in Seq(OwnCalls)
      BY <2>3, <3>1, <3>2, Scheduled
    <3>5. incoming' \subseteq incoming /\ impaired' \in BOOLEAN /\ ackTimer' \in Runs \cup {0}
      BY <1>1, <2>1, <3>2
    <3> QED
      BY <2>1, <2>3, <3>3, <3>4, <3>5, RefreshMoves DEF RefreshTyped
  <2> QED
    BY <2>2, <2>3
<1>3. CASE CoalesceTimer
  <2>1. coalescing /\ PerformRefresh /\ target # 0
        /\ UNCHANGED <<child, expired, incoming, view, ackTimer, impaired, disarmed>>
    BY <1>3 DEF CoalesceTimer, history, DebuggerInv
  <2>2. /\ inFlight' \in BOOLEAN /\ queued' \in BOOLEAN /\ coalescing' \in BOOLEAN
        /\ calls' \in Seq(OwnCalls)
    BY <2>1, Scheduled
  <2> QED
    BY <1>1, <2>1, <2>2, RefreshMoves DEF RefreshTyped
<1>4. CASE AckTimer
  <2>1. ackTimer # 0 /\ ackTimer' = 0
        /\ UNCHANGED <<child, expired, incoming, view, impaired, disarmed>>
    BY <1>4 DEF AckTimer, TimerIsDue, history
  <2>2. CASE ackTimer = target
    <3>1. ScheduleRefresh(TRUE)
      BY <1>4, <2>2 DEF AckTimer
    <3>2. /\ inFlight' \in BOOLEAN /\ queued' \in BOOLEAN /\ coalescing' \in BOOLEAN
          /\ calls' \in Seq(OwnCalls)
      BY <2>1, <2>2, <3>1, Scheduled
    <3> QED
      BY <1>1, <2>1, <2>2, <3>2, RefreshMoves DEF RefreshTyped
  <2>3. CASE ackTimer # target
    <3>1. UNCHANGED <<inFlight, queued, coalescing, calls>>
      BY <1>4, <2>3 DEF AckTimer
    <3> QED
      BY <1>1, <2>1, <3>1, RefreshMoves DEF RefreshTyped, DebuggerInv
  <2> QED
    BY <2>2, <2>3
<1> QED
  BY <1>2, <1>3, <1>4

\* The answer of a call, put in its place.
LEMMA AnswerIsOwn ==
    ASSUME DebuggerInv, NEW i \in DOMAIN calls, NEW stage \in {"asked", "answered", "checked", "failed"},
           NEW s \in SnapshotsOf(calls[i].run), Answer(i, stage, s)
    PROVE  calls' \in Seq(OwnCalls)
<1> DEFINE new == [calls[i] EXCEPT !.stage = stage, !.snap = s]
<1>1. calls \in Seq(OwnCalls) /\ calls[i] \in OwnCalls
  BY DEF DebuggerInv
<1>2. new \in OwnCalls
  BY <1>1 DEF OwnCalls, Call, SnapshotsOf
<1>3. calls' = [calls EXCEPT ![i] = new]
  BY <1>1 DEF Answer
<1> HIDE DEF new
<1> QED
  BY <1>1, <1>2, <1>3

\* Controls and the answers of the backend.
LEMMA BackendSteps ==
    ASSUME DebuggerInv, Backend \/ \E action \in Actions : Control(action)
    PROVE  DebuggerInv'
<1>1. /\ RefreshTyped /\ impaired \in BOOLEAN /\ disarmed \in BOOLEAN
      /\ calls \in Seq(OwnCalls) /\ shown \in Session /\ child \in [Runs -> Session]
      /\ \A r \in Runs : child[r] \in SnapshotsOf(r)
      /\ expired \subseteq Runs
      /\ incoming \subseteq [run : Runs, kind : {"end", "stopped", "running"}]
  BY DEF DebuggerInv, ViewTypeOK, RefreshTyped
<1>2. ASSUME NEW action \in Actions, Control(action)
      PROVE  DebuggerInv'
  <2>1. /\ target # 0 /\ shown.run = target /\ calls' = Append(calls, NewCall(action, target, shown))
        /\ UNCHANGED <<child, expired, incoming, view, refresh, impaired, disarmed>>
    BY <1>2 DEF Control, history
  <2>2. target \in Runs /\ shown \in SnapshotsOf(target)
    BY <2>1 DEF DebuggerInv, ViewTypeOK, SnapshotsOf
  <2>3. calls' \in Seq(OwnCalls)
    <3>1. NewCall(action, target, shown) \in OwnCalls
      BY <2>2, NewCallIsOwn
    <3> QED
      BY <1>1, <2>1, <3>1
  <2>4. RefreshTyped' /\ (coalescing' => target # 0)
    BY <1>1, <2>1 DEF RefreshTyped, refresh, DebuggerInv
  <2> QED
    BY <1>1, <2>1, <2>3, <2>4, RefreshMoves
<1>3. ASSUME NEW i \in DOMAIN calls, BackendSnapshot(i)
      PROVE  DebuggerInv'
  <2>1. UNCHANGED <<child, expired, incoming, view, refresh, impaired, disarmed>>
    BY <1>3 DEF BackendSnapshot, history
  <2>2. calls[i].run \in Runs
    BY <1>1 DEF OwnCalls, Call
  <2>3. child[calls[i].run] \in SnapshotsOf(calls[i].run) /\ NoSession \in SnapshotsOf(calls[i].run)
    BY <1>1, <2>2, NoSessionIsOwn
  <2>4. calls' \in Seq(OwnCalls)
    BY <1>3, <2>3, AnswerIsOwn DEF BackendSnapshot
  <2>5. RefreshTyped' /\ (coalescing' => target # 0)
    BY <1>1, <2>1 DEF RefreshTyped, refresh, DebuggerInv
  <2> QED
    BY <1>1, <2>1, <2>4, <2>5, RefreshMoves
<1>4. ASSUME NEW i \in DOMAIN calls, BackendControl(i)
      PROVE  DebuggerInv'
  <2> DEFINE c == calls[i]
             s == child[c.run]
             after == [s EXCEPT !.pending = c.kind, !.epoch = @ + 1]
  <2>1. c \in OwnCalls /\ c.run \in Runs /\ s \in SnapshotsOf(c.run) /\ c.kind \in Actions
        /\ NoSession \in SnapshotsOf(c.run)
    BY <1>1, <1>4, NoSessionIsOwn DEF OwnCalls, Call, BackendControl
  <2>2. after \in SnapshotsOf(c.run)
    <3>1. s \in Session /\ s.run \in {0, c.run} /\ c.kind \in Actions \cup {"none"}
          /\ s.epoch + 1 \in Nat
      BY <2>1 DEF SnapshotsOf, Session
    <3> HIDE DEF s
    <3>2. after \in Session /\ after.run = s.run
      BY <3>1 DEF Session
    <3> QED
      BY <3>1, <3>2 DEF SnapshotsOf
  <2>3. UNCHANGED <<expired, incoming, view, refresh, impaired, disarmed>>
    BY <1>4 DEF BackendControl, history
  <2>4. \/ child' = [child EXCEPT ![c.run] = after] /\ Answer(i, "answered", after)
        \/ UNCHANGED child /\ (Answer(i, "answered", s) \/ Answer(i, "failed", NoSession))
    BY <1>4 DEF BackendControl
  <2>5. RefreshTyped' /\ (coalescing' => target # 0)
    BY <1>1, <2>3 DEF RefreshTyped, refresh, DebuggerInv
  <2> HIDE DEF after, s
  <2>6. calls' \in Seq(OwnCalls)
    BY <2>1, <2>2, <2>4, AnswerIsOwn
  <2>7. CASE child' = [child EXCEPT ![c.run] = after]
    BY <1>1, <2>1, <2>2, <2>3, <2>6, <2>7, SessionMoves
  <2>8. CASE UNCHANGED child
    BY <1>1, <2>3, <2>5, <2>6, <2>8, RefreshMoves
  <2> QED
    BY <2>4, <2>7, <2>8
<1> QED
  BY <1>2, <1>3, <1>4 DEF Backend

\* What follows an answer keeps the flags, timers and calls what they are.
LEMMA FinishedIsTyped ==
    ASSUME DebuggerInv, NEW i \in DOMAIN calls, NEW rest \in Seq(OwnCalls), i \in DOMAIN rest,
           Finished(i, rest)
    PROVE  RefreshTyped' /\ calls' \in Seq(OwnCalls) /\ (coalescing' => target # 0)
<1>1. /\ RefreshTyped /\ calls[i].run \in Runs /\ (coalescing => target # 0)
  BY DEF DebuggerInv, ViewTypeOK, RefreshTyped, OwnCalls, Call
<1>2. calls' \in Seq(OwnCalls)
  BY Removed DEF Finished
<1>3. inFlight' \in {inFlight, FALSE} /\ queued' \in {queued, FALSE}
      /\ ackTimer' \in {ackTimer, calls[i].run}
  BY DEF Finished
<1>4. coalescing' \in {coalescing, FALSE} \/ (coalescing' = TRUE /\ OfTarget(calls[i]))
  BY DEF Finished
<1>5. 0 \notin Runs
  BY ViewAssumption
<1> QED
  <2>1. coalescing' \in BOOLEAN /\ (coalescing' => target # 0)
    <3>1. CASE coalescing' = coalescing
      BY <1>1, <3>1 DEF RefreshTyped
    <3>2. CASE coalescing' = FALSE
      BY <3>2
    <3>3. CASE coalescing' = TRUE /\ OfTarget(calls[i])
      BY <1>1, <1>5, <3>3 DEF OfTarget
    <3> QED
      BY <1>4, <3>1, <3>2, <3>3
  <2>2. inFlight' \in BOOLEAN /\ queued' \in BOOLEAN
    BY <1>1, <1>3 DEF RefreshTyped
  <2>3. ackTimer' \in Runs \cup {0}
    BY <1>1, <1>3 DEF RefreshTyped
  <2> QED
    BY <1>2, <2>1, <2>2, <2>3 DEF RefreshTyped

\* An answer is taken, left out or reported.
LEMMA AnsweredSteps ==
    ASSUME DebuggerInv, Answered
    PROVE  DebuggerInv'
<1>1. /\ RefreshTyped /\ impaired \in BOOLEAN /\ disarmed \in BOOLEAN
      /\ calls \in Seq(OwnCalls) /\ (coalescing => target # 0)
  BY DEF DebuggerInv, ViewTypeOK, RefreshTyped
<1>2. ASSUME NEW i \in DOMAIN calls, CheckAnswer(i)
      PROVE  DebuggerInv'
  <2>1. UNCHANGED <<child, expired, incoming, view, impaired, disarmed>>
    BY <1>2 DEF CheckAnswer, history
  <2>2. CASE Finished(i, calls)
    BY <1>1, <2>1, <2>2, FinishedIsTyped, RefreshMoves
  <2>3. CASE calls' = [calls EXCEPT ![i].stage = "checked"] /\ UNCHANGED refresh
    <3> DEFINE new == [calls[i] EXCEPT !.stage = "checked"]
    <3>1. new \in OwnCalls
      BY <1>1 DEF OwnCalls, Call
    <3>2. calls' = [calls EXCEPT ![i] = new]
      BY <2>3
    <3> HIDE DEF new
    <3>3. calls' \in Seq(OwnCalls)
      BY <1>1, <3>1, <3>2
    <3>4. RefreshTyped' /\ (coalescing' => target # 0)
      BY <1>1, <2>3 DEF RefreshTyped, refresh
    <3> QED
      BY <1>1, <2>1, <3>3, <3>4, RefreshMoves
  <2> QED
    BY <1>2, <2>2, <2>3 DEF CheckAnswer
<1>3. ASSUME NEW i \in DOMAIN calls, CommitAnswer(i)
      PROVE  DebuggerInv'
  <2> DEFINE rest == [j \in DOMAIN calls |->
                        IF j < i THEN [calls[j] EXCEPT !.overtaken = TRUE] ELSE calls[j]]
  <2>1. UNCHANGED <<child, expired, incoming, target, begun, impaired, disarmed>>
    BY <1>3 DEF CommitAnswer, history
  <2>2. CASE UNCHANGED shown /\ Finished(i, calls)
    BY <1>1, <2>1, <2>2, FinishedIsTyped, RefreshMoves DEF view
  <2>3. CASE OfTarget(calls[i]) /\ shown' = calls[i].snap /\ Finished(i, rest)
    <3>1. \A j \in DOMAIN calls : calls[j] \in OwnCalls
                               /\ [calls[j] EXCEPT !.overtaken = TRUE] \in OwnCalls
      <4> SUFFICES ASSUME NEW j \in DOMAIN calls
                   PROVE  calls[j] \in OwnCalls /\ [calls[j] EXCEPT !.overtaken = TRUE] \in OwnCalls
        OBVIOUS
      <4>1. calls[j] \in OwnCalls
        BY <1>1
      <4> QED
        BY <4>1, ZenonT(30) DEF OwnCalls, Call
    <3>2. rest \in Seq(OwnCalls) /\ DOMAIN rest = DOMAIN calls
      BY <1>1, <3>1
    <3> HIDE DEF rest
    <3>3. RefreshTyped' /\ calls' \in Seq(OwnCalls) /\ (coalescing' => target # 0)
      BY <2>3, <3>2, FinishedIsTyped
    <3>4. shown' \in Session /\ shown'.run \in {0, target}
      BY <1>1, <2>3, <3>1 DEF OfTarget, OwnCalls, Call
    <3> QED
      BY <2>1, <3>3, <3>4, OwnCallsAreCalls DEF DebuggerInv, ViewTypeOK, RefreshTyped
  <2> QED
    BY <1>3, <2>2, <2>3 DEF CommitAnswer
<1>4. ASSUME NEW i \in DOMAIN calls, FailedAnswer(i)
      PROVE  DebuggerInv'
  <2>1. UNCHANGED <<child, expired, incoming, view, disarmed>> /\ Finished(i, calls)
        /\ impaired' = (impaired \/ OfTarget(calls[i]))
    BY <1>4 DEF FailedAnswer
  <2>2. impaired' \in BOOLEAN
    BY <2>1
  <2> QED
    BY <1>1, <2>1, <2>2, FinishedIsTyped, RefreshMoves
<1> QED
  BY <1>2, <1>3, <1>4 DEF Answered

LEMMA DebuggerSteps ==
    ASSUME DebuggerInv, [ViewNext]_viewVars
    PROVE  DebuggerInv'
<1>1. CASE UNCHANGED viewVars
  <2>1. UNCHANGED <<child, incoming, target, begun, shown, inFlight, queued, coalescing, ackTimer,
                    calls, expired, impaired, disarmed>>
    BY <1>1 DEF viewVars, view, refresh, history
  <2> QED
    BY <2>1 DEF DebuggerInv, ViewTypeOK
<1> QED
  BY <1>1, SessionSteps, TargetSteps, TimerSteps, BackendSteps, AnsweredSteps DEF ViewNext

\* The view moves with an answer of its run, or with the run that is followed.
ViewMovesWell ==
    /\ shown'.run \in {0, target'}
    /\ target' = target /\ shown.run # 0 /\ shown'.run # 0
       => Age(shown') >= Age(shown) /\ (shown.status = "final" => shown'.status = "final")

LEMMA ShownMoves ==
    ASSUME DebuggerInv, DebuggerInv', [ViewNext]_viewVars
    PROVE  ViewMovesWell
<1>1. shown'.run \in {0, target'}
  BY DEF DebuggerInv
<1>2. shown \in Session /\ shown' \in Session
  BY DEF DebuggerInv, ViewTypeOK
<1>3. CASE shown' = shown
  <2>1. Age(shown) \in Nat
    BY <1>2 DEF Session, Age
  <2> QED
    BY <1>1, <1>3, <2>1 DEF ViewMovesWell
<1>4. CASE shown' = NoSession
  BY <1>1, <1>4 DEF ViewMovesWell, NoSession
<1>5. ASSUME NEW i \in DOMAIN calls, SnapshotIsCurrent(shown, calls[i].snap), shown' = calls[i].snap
      PROVE  ViewMovesWell
  <2>1. /\ shown.run # 0 => /\ shown.status = "final" => shown'.status = "final"
                            /\ shown'.reports >= shown.reports
                            /\ shown'.epoch >= shown.epoch /\ shown'.ack >= shown.ack
    BY <1>5 DEF SnapshotIsCurrent
  <2>2. shown.run # 0 => Age(shown') >= Age(shown)
    BY <1>2, <2>1 DEF Age, Session
  <2> QED
    BY <1>1, <2>1, <2>2 DEF ViewMovesWell
<1>6. \/ shown' \in {shown, NoSession}
      \/ \E i \in DOMAIN calls : SnapshotIsCurrent(shown, calls[i].snap) /\ shown' = calls[i].snap
  <2>1. ASSUME NEW r \in Runs,
               Launch(r) \/ ReportRunning(r) \/ Acknowledge(r) \/ ExpireControl(r) \/ EndRun(r)
        PROVE  shown' = shown
    BY <2>1 DEF Launch, ReportRunning, Acknowledge, ExpireControl, EndRun, view
  <2>2. ASSUME ClearView \/ \E r \in Runs : BeginView(r)
        PROVE  shown' = NoSession
    BY <2>2 DEF ClearView, BeginView
  <2>3. CASE FlushEvents \/ CoalesceTimer \/ AckTimer \/ Backend \/ \E action \in Actions : Control(action)
    BY <2>3 DEF FlushEvents, CoalesceTimer, AckTimer, Backend, BackendSnapshot, BackendControl, Control, view
  <2>4. CASE Answered
    BY <2>4 DEF Answered, CheckAnswer, CommitAnswer, FailedAnswer, view
  <2>5. CASE UNCHANGED viewVars
    BY <2>5 DEF viewVars, view
  <2> QED
    BY <2>1, <2>2, <2>3, <2>4, <2>5 DEF ViewNext
<1> QED
  BY <1>3, <1>4, <1>5, <1>6

--------------------------------------------------------------------------------
(* The active run.                                                         *)

\* The answers under way are in the order of the starts, so that of a run that lives
\* is the last; whoever remembers an end, or is still to be told of it, is right.
StartsInOrder ==
    /\ \A p, r \in Alive : p = r
    /\ \A i \in DOMAIN answers :
          /\ runState[answers[i]] # "none"
          /\ answers[i] \in Alive => i = Len(answers)
    /\ \A r \in Alive \ UnderWay : answers = <<>>
    /\ \A r \in exits \cup remembered : runState[r] = "ended"

\* An end is remembered or still to be told, unless nobody asks for it any more.
EndIsTold ==
    \A r \in RunIds \ crossed : runState[r] = "ended" =>
       \/ r \in exits
       \/ activeRun.id # r /\ (r \in remembered \/ r \notin UnderWay)

RunViewInv ==
    /\ RunViewTypeOK /\ starts.asked <= starts.made
    /\ (switching # "no" => adopts < MaxAdopts)
    /\ StartsInOrder /\ LiveRunIsShown /\ EndIsTold

\* No run was started.
LEMMA RunViewBegins == RunViewInit => RunViewInv
<1> SUFFICES ASSUME RunViewInit
             PROVE  RunViewInv
  OBVIOUS
<1> USE RunViewAssumption DEF RunViewInit
<1>1. RunViewTypeOK
  BY DEF RunViewTypeOK, NoActive
<1>2. Alive = {} /\ DOMAIN answers = {}
  BY DEF Alive
<1> QED
  BY <1>1, <1>2 DEF RunViewInv, StartsInOrder, LiveRunIsShown, EndIsTold

\* A run lives in the slot alone, its answer is the last one, and its end finds it.
LEMMA RunViewSteps ==
    ASSUME RunViewInv, [RunViewNext]_runViewVars
    PROVE  RunViewInv'
<1> USE RunViewAssumption DEF RunViewInv
<1>1. ASSUME UNCHANGED <<runState, answers, exits, remembered, activeRun, crossed>>,
             starts' \in [made : 0..MaxStarts, asked : 0..MaxStarts],
             starts'.asked <= starts'.made,
             stopping' \in [call : RunIds \cup {0}, owed : SUBSET RunIds],
             switching' \in {"no", "asked", "switched"}, adopts' = adopts,
             switching' # "no" => adopts < MaxAdopts
      PROVE  RunViewInv'
  <2>1. Alive' = Alive /\ UnderWay' = UnderWay
    BY <1>1 DEF Alive, UnderWay
  <2> QED
    BY <1>1, <2>1 DEF RunViewTypeOK, StartsInOrder, LiveRunIsShown, EndIsTold
<1>2. CASE StartRun
  <2>1. starts' = [made |-> starts.made + 1, asked |-> starts.asked + 1] /\ starts.made < MaxStarts
        /\ UNCHANGED <<runState, answers, exits, remembered, activeRun, stopping, switching, adopts, crossed>>
    BY <1>2 DEF StartRun
  <2>2. starts \in [made : 0..MaxStarts, asked : 0..MaxStarts] /\ starts.asked <= starts.made
    BY DEF RunViewTypeOK
  <2>3. starts' \in [made : 0..MaxStarts, asked : 0..MaxStarts] /\ starts'.asked <= starts'.made
    BY <2>1, <2>2
  <2> QED
    BY <1>1, <2>1, <2>3 DEF RunViewTypeOK
<1>3. CASE BackendStarts
  <2>1. /\ starts.asked > 0 /\ starts' = [starts EXCEPT !.asked = @ - 1]
        /\ UNCHANGED <<exits, remembered, activeRun, stopping, switching, adopts, crossed>>
    BY <1>3 DEF BackendStarts
  <2>2. starts' \in [made : 0..MaxStarts, asked : 0..MaxStarts] /\ starts'.asked <= starts'.made
    <3>1. starts \in [made : 0..MaxStarts, asked : 0..MaxStarts] /\ starts.asked <= starts.made
      BY DEF RunViewTypeOK
    <3>2. starts' = [made |-> starts.made, asked |-> starts.asked - 1]
      BY <2>1, <3>1
    <3> QED
      BY <2>1, <3>1, <3>2
  <2>3. CASE UNCHANGED <<runState, answers>>
    BY <1>1, <2>1, <2>2, <2>3 DEF RunViewTypeOK
  <2>4. ASSUME NEW r \in RunIds, Alive = {}, runState[r] = "none",
               runState' = [runState EXCEPT ![r] = "alive"], answers' = Append(answers, r)
        PROVE  RunViewInv'
    <3>1. /\ answers \in Seq(RunIds) /\ Len(answers) \in Nat /\ answers' \in Seq(RunIds)
          /\ DOMAIN answers' = 1..(Len(answers) + 1) /\ Len(answers') = Len(answers) + 1
          /\ DOMAIN answers = 1..Len(answers)
          /\ \A i \in DOMAIN answers : answers'[i] = answers[i]
          /\ answers'[Len(answers) + 1] = r
      BY <2>4 DEF RunViewTypeOK
    <3>2. /\ runState' \in [RunIds -> {"none", "alive", "ended"}]
          /\ \A p \in RunIds : runState'[p] = IF p = r THEN "alive" ELSE runState[p]
      BY <2>4 DEF RunViewTypeOK
    <3>3. Alive' = {r}
      BY <2>4, <3>2 DEF Alive
    <3>4. UnderWay' = UnderWay \cup {r}
      BY <3>1 DEF UnderWay
    <3>5. RunViewTypeOK'
      BY <2>1, <2>2, <3>1, <3>2 DEF RunViewTypeOK
    <3>6. StartsInOrder'
      <4>1. \A i \in DOMAIN answers : answers[i] # r /\ answers[i] \in RunIds
        BY <2>4, <3>1 DEF StartsInOrder
      <4>2. \A i \in DOMAIN answers' : /\ runState'[answers'[i]] # "none"
                                       /\ answers'[i] \in Alive' => i = Len(answers')
        <5>1. \A i \in DOMAIN answers' : i \in DOMAIN answers \/ i = Len(answers) + 1
          BY <3>1
        <5>2. \A i \in DOMAIN answers : runState'[answers'[i]] # "none" /\ answers'[i] # r
          BY <3>1, <3>2, <4>1 DEF StartsInOrder
        <5>3. runState'[r] # "none"
          BY <3>2
        <5> QED
          BY <3>1, <3>3, <5>1, <5>2, <5>3
      <4>3. \A p \in exits' \cup remembered' : runState'[p] = "ended"
        BY <2>1, <2>4, <3>2 DEF StartsInOrder, RunViewTypeOK
      <4> QED
        BY <3>3, <3>4, <4>2, <4>3 DEF StartsInOrder
    <3>7. LiveRunIsShown'
      BY <3>3, <3>4 DEF LiveRunIsShown
    <3>8. EndIsTold'
      BY <2>1, <2>4, <3>2, <3>4 DEF EndIsTold
    <3> QED
      BY <2>1, <2>2, <3>5, <3>6, <3>7, <3>8
  <2> QED
    BY <1>3, <2>3, <2>4 DEF BackendStarts
<1>4. ASSUME NEW r \in RunIds, RunExits(r)
      PROVE  RunViewInv'
  <2>1. /\ runState[r] = "alive" /\ runState' = [runState EXCEPT ![r] = "ended"]
        /\ exits' = exits \cup {r}
        /\ UNCHANGED <<starts, answers, remembered, activeRun, stopping, switching, adopts, crossed>>
    BY <1>4 DEF RunExits
  <2>2. /\ runState' \in [RunIds -> {"none", "alive", "ended"}]
        /\ \A p \in RunIds : runState'[p] = IF p = r THEN "ended" ELSE runState[p]
    BY <2>1 DEF RunViewTypeOK
  <2>3. Alive' = Alive \ {r} /\ UnderWay' = UnderWay
    BY <2>1, <2>2 DEF Alive, UnderWay
  <2>4. \A i \in DOMAIN answers : answers[i] \in RunIds
    BY DEF RunViewTypeOK
  <2>5. RunViewTypeOK'
    BY <2>1, <2>2 DEF RunViewTypeOK
  <2>6. StartsInOrder'
    BY <2>1, <2>2, <2>3, <2>4 DEF StartsInOrder, RunViewTypeOK
  <2>7. LiveRunIsShown' /\ EndIsTold'
    BY <2>1, <2>2, <2>3 DEF LiveRunIsShown, EndIsTold
  <2> QED
    BY <2>1, <2>5, <2>6, <2>7
<1>5. CASE StartAnswer
  <2> DEFINE r == Head(answers)
  <2>1. /\ answers # <<>> /\ answers' = Tail(answers)
        /\ activeRun' = IF r \in remembered THEN NoActive ELSE [id |-> r, stopping |-> FALSE]
        /\ UNCHANGED <<runState, starts, exits, remembered, stopping, switching, adopts, crossed>>
    BY <1>5 DEF StartAnswer, AlreadyTerminated
  <2>2. /\ answers \in Seq(RunIds) /\ Len(answers) \in Nat \ {0} /\ DOMAIN answers = 1..Len(answers)
        /\ answers' \in Seq(RunIds) /\ Len(answers') = Len(answers) - 1
        /\ DOMAIN answers' = 1..(Len(answers) - 1)
        /\ \A i \in 1..(Len(answers) - 1) : answers'[i] = answers[i + 1]
        /\ r = answers[1] /\ r \in RunIds
    BY <2>1 DEF RunViewTypeOK
  <2> HIDE DEF r
  <2>3. Alive' = Alive /\ runState[r] # "none" /\ (r \in Alive => Len(answers) = 1)
    BY <2>1, <2>2 DEF Alive, StartsInOrder
  <2>4. UnderWay' \subseteq UnderWay /\ UnderWay \subseteq UnderWay' \cup {r}
    <3>1. \A i \in DOMAIN answers : i = 1 \/ (i - 1 \in DOMAIN answers' /\ answers[i] = answers'[i - 1])
      BY <2>2
    <3>2. \A i \in DOMAIN answers' : i + 1 \in DOMAIN answers /\ answers'[i] = answers[i + 1]
      BY <2>2
    <3>3. UnderWay' \subseteq UnderWay
      BY <3>2 DEF UnderWay
    <3>4. UnderWay \subseteq UnderWay' \cup {r}
      <4> SUFFICES ASSUME NEW i \in DOMAIN answers, answers[i] # r
                   PROVE  answers[i] \in UnderWay'
        BY DEF UnderWay
      <4>1. i - 1 \in DOMAIN answers' /\ answers[i] = answers'[i - 1]
        BY <2>2, <3>1
      <4> QED
        BY <4>1 DEF UnderWay
    <3> QED
      BY <3>3, <3>4
  <2>5. RunViewTypeOK'
    BY <2>1, <2>2 DEF RunViewTypeOK, NoActive
  <2>6. StartsInOrder'
    <3>1. \A i \in DOMAIN answers' : /\ runState'[answers'[i]] # "none"
                                     /\ answers'[i] \in Alive' => i = Len(answers')
      BY <2>1, <2>2, <2>3 DEF StartsInOrder
    <3>2. ASSUME NEW p \in Alive' \ UnderWay'
          PROVE  answers' = <<>>
      <4>1. CASE p \in UnderWay
        BY <2>2, <2>3, <2>4, <3>2, <4>1
      <4>2. CASE p \notin UnderWay
        BY <2>1, <2>3, <3>2, <4>2 DEF StartsInOrder
      <4> QED
        BY <4>1, <4>2
    <3> QED
      BY <2>1, <2>3, <3>1, <3>2 DEF StartsInOrder
  <2>7. LiveRunIsShown'
    <3> SUFFICES ASSUME NEW p \in Alive \ (UnderWay' \cup crossed)
                 PROVE  activeRun'.id = p
      BY <2>1, <2>3 DEF LiveRunIsShown
    <3>1. p \in UnderWay
      BY <2>1 DEF StartsInOrder
    <3>2. p = r /\ runState[r] = "alive"
      BY <2>4, <3>1 DEF Alive
    <3>3. r \notin remembered
      BY <3>2 DEF StartsInOrder
    <3> QED
      BY <2>1, <3>2, <3>3
  <2>8. EndIsTold'
    <3> SUFFICES ASSUME NEW p \in RunIds \ crossed, runState[p] = "ended", p \notin exits
                 PROVE  activeRun'.id # p /\ (p \in remembered \/ p \notin UnderWay')
      BY <2>1 DEF EndIsTold
    <3>1. activeRun.id # p /\ (p \in remembered \/ p \notin UnderWay)
      BY DEF EndIsTold
    <3>2. p = r => r \in UnderWay
      BY <2>2 DEF UnderWay
    <3>3. p # 0
      OBVIOUS
    <3> QED
      BY <2>1, <2>4, <3>1, <3>2, <3>3 DEF NoActive
  <2> QED
    BY <2>1, <2>5, <2>6, <2>7, <2>8
<1>6. ASSUME NEW r \in RunIds, TerminalEvent(r)
      PROVE  RunViewInv'
  <2>1. /\ r \in exits /\ exits' = exits \ {r} /\ remembered' = remembered \cup {r}
        /\ activeRun' = IF activeRun.id = r THEN NoActive ELSE activeRun
        /\ UNCHANGED <<runState, starts, answers, stopping, switching, adopts, crossed>>
    BY <1>6 DEF TerminalEvent, WithoutRun
  <2>2. Alive' = Alive /\ UnderWay' = UnderWay /\ r \notin Alive
    BY <2>1 DEF Alive, UnderWay, StartsInOrder
  <2>3. RunViewTypeOK'
    BY <2>1 DEF RunViewTypeOK, NoActive
  <2>4. StartsInOrder'
    BY <2>1, <2>2 DEF StartsInOrder
  <2>5. LiveRunIsShown'
    BY <2>1, <2>2 DEF LiveRunIsShown
  <2>6. EndIsTold'
    BY <2>1, <2>2 DEF EndIsTold, NoActive
  <2> QED
    BY <2>1, <2>3, <2>4, <2>5, <2>6
<1>7. CASE StopActive
  <2>1. /\ stopping' = [stopping EXCEPT !.call = activeRun.id]
        /\ UNCHANGED <<runState, starts, answers, exits, remembered, activeRun, switching, adopts, crossed>>
    BY <1>7 DEF StopActive
  <2>2. stopping' \in [call : RunIds \cup {0}, owed : SUBSET RunIds]
    BY <2>1 DEF RunViewTypeOK
  <2> QED
    BY <1>1, <2>1, <2>2 DEF RunViewTypeOK
<1>8. CASE StopAnswer
  <2>1. UNCHANGED <<runState, starts, answers, exits, remembered, switching, adopts, crossed>>
    BY <1>8 DEF StopAnswer
  <2>2. /\ stopping' \in [call : RunIds \cup {0}, owed : SUBSET RunIds]
        /\ activeRun' \in [id : RunIds \cup {0}, stopping : BOOLEAN]
        /\ activeRun'.id = activeRun.id
    <3>1. /\ stopping.call \in RunIds \cup {0} /\ stopping.owed \subseteq RunIds
          /\ stopping \in [call : RunIds \cup {0}, owed : SUBSET RunIds]
          /\ activeRun \in [id : RunIds \cup {0}, stopping : BOOLEAN] /\ Alive \subseteq RunIds
      BY DEF RunViewTypeOK, Alive
    <3>2. CASE stopping.call \in Alive /\ stopping' = [call |-> 0, owed |-> stopping.owed \cup {stopping.call}]
               /\ activeRun' = IF activeRun.id = stopping.call
                               THEN [activeRun EXCEPT !.stopping = TRUE] ELSE activeRun
      <4>1. stopping.owed \cup {stopping.call} \in SUBSET RunIds
        BY <3>1, <3>2
      <4>2. [activeRun EXCEPT !.stopping = TRUE] \in [id : RunIds \cup {0}, stopping : BOOLEAN]
            /\ [activeRun EXCEPT !.stopping = TRUE].id = activeRun.id
        BY <3>1
      <4> QED
        BY <3>1, <3>2, <4>1, <4>2
    <3>3. CASE stopping' = [stopping EXCEPT !.call = 0] /\ UNCHANGED activeRun
      BY <3>1, <3>3
    <3> QED
      BY <1>8, <3>2, <3>3 DEF StopAnswer
  <2>3. Alive' = Alive /\ UnderWay' = UnderWay
    BY <2>1 DEF Alive, UnderWay
  <2> QED
    BY <2>1, <2>2, <2>3 DEF RunViewTypeOK, StartsInOrder, LiveRunIsShown, EndIsTold
<1>9. CASE OpenAsked \/ BackendSwitches
  <2>1. /\ UNCHANGED <<runState, starts, answers, exits, remembered, activeRun, stopping, adopts, crossed>>
        /\ switching' \in {"no", "asked", "switched"}
        /\ (switching' # "no" => adopts < MaxAdopts)
    BY <1>9 DEF OpenAsked, BackendSwitches
  <2> QED
    BY <1>1, <2>1 DEF RunViewTypeOK
<1>10. CASE AdoptRuns
  <2>1. /\ switching' = "no" /\ adopts' = adopts + 1 /\ activeRun' = NoActive /\ remembered' = {}
        /\ crossed' = crossed \cup UnderWay \cup Alive
        /\ UNCHANGED <<runState, starts, answers, exits, stopping>>
        /\ adopts < MaxAdopts
    BY <1>10 DEF AdoptRuns
  <2>2. Alive' = Alive /\ UnderWay' = UnderWay
    BY <2>1 DEF Alive, UnderWay
  <2>3. UnderWay \subseteq RunIds /\ Alive \subseteq RunIds
    BY DEF UnderWay, Alive, RunViewTypeOK
  <2>4. RunViewTypeOK'
    BY <1>10, <2>1, <2>3 DEF RunViewTypeOK, NoActive
  <2>5. StartsInOrder' /\ LiveRunIsShown'
    BY <2>1, <2>2 DEF StartsInOrder, LiveRunIsShown
  <2>6. EndIsTold'
    BY <2>1, <2>2 DEF EndIsTold, NoActive
  <2> QED
    BY <2>1, <2>4, <2>5, <2>6
<1>11. CASE UNCHANGED runViewVars
  <2>1. UNCHANGED <<runState, starts, answers, exits, remembered, activeRun, stopping, switching,
                    adopts, crossed>>
    BY <1>11 DEF runViewVars
  <2> QED
    BY <1>1, <2>1 DEF RunViewTypeOK
<1> QED
  BY <1>2, <1>3, <1>4, <1>5, <1>6, <1>7, <1>8, <1>9, <1>10, <1>11 DEF RunViewNext

--------------------------------------------------------------------------------
(* The cooperative breakpoint.                                             *)

\* The request under way is one, so that its refusal can be told from it.
Snapshots == [session : Sessions \cup {NoPoint}, accepted : SUBSET Points]
Requests == [stage : {"none", "sent", "answered", "rejected"}, action : Controls \cup {"none"},
             run : 0..MaxRuns, epoch : Nat, count : Nat, advances : BOOLEAN, snap : Snapshots]
BreakpointInv == BreakpointTypeOK /\ request \in Requests

LEMMA BreakpointBegins ==
    ASSUME BreakpointInit \/ BreakpointRest
    PROVE  BreakpointInv
<1>1. Fresh \in Sessions /\ NoRequest \in Requests /\ NoControl.action = "none"
      /\ NoRequest.stage = "none" /\ NoKey[1] \in Nat /\ NoKey[2] = NoPoint
      /\ Unseen.session = NoPoint /\ Unseen.accepted = {}
  BY BreakpointAssumption
     DEF Fresh, Sessions, LiveStatuses, NoRequest, Requests, Snapshots, NoControl, NoKey, Unseen
<1>2. seen.session \in {Fresh, NoPoint} /\ seen.accepted = {}
  BY <1>1 DEF BreakpointInit, BreakpointRest
<1>3. run \in 1..MaxRuns /\ reports \in 0..MaxSafePoints /\ waitTimer \in 0..MaxRuns
  BY BreakpointAssumption DEF BreakpointInit, BreakpointRest
<1> QED
  BY <1>1, <1>2, <1>3 DEF BreakpointInv, BreakpointTypeOK, BreakpointInit, BreakpointRest

LEMMA SentIsTyped ==
    ASSUME BreakpointInv, HasSession, NEW action \in Controls, NEW advances \in BOOLEAN,
           Send(action, advances)
    PROVE  pending'.action \in Controls /\ request' \in Requests /\ cleared' = FALSE
<1>1. Shown \in Sessions /\ run \in 0..MaxRuns
  BY BreakpointAssumption DEF BreakpointInv, BreakpointTypeOK, HasSession, Shown
<1>2. Shown.epoch \in Nat /\ Shown.count \in Nat
  BY <1>1 DEF Sessions
<1>3. Unseen \in Snapshots
  BY DEF Unseen, Snapshots
<1> QED
  BY <1>1, <1>2, <1>3 DEF Send, Requests

LEMMA KeyIsTyped ==
    ASSUME BreakpointInv, HasSession
    PROVE  KeyOfShown[1] \in Nat /\ KeyOfShown[2] \in Points \cup {NoPoint}
<1>1. Shown \in Sessions
  BY DEF BreakpointInv, BreakpointTypeOK, HasSession, Shown
<1> QED
  BY <1>1 DEF Sessions, KeyOfShown

\* The session moves, or stays, and the renderer's own part is left alone.
LEMMA ProcessMoves ==
    ASSUME BreakpointInv, run' \in 1..MaxRuns, alive' \in BOOLEAN, session' \in Sessions,
           stopAsked' \in BOOLEAN,
           accepted' \subseteq Points, reported' \in Points \cup {NoPoint},
           reports' \in 0..MaxSafePoints, unflushed' \in {"none", "running", "urgent"},
           UNCHANGED <<seen, breakpoint, advancing, advanceKey, pending, refreshing, waitTimer,
                       stranded, cleared, lost>>,
           request' \in Requests
    PROVE  BreakpointInv'
<1>1. request'.stage \in {"none", "sent", "answered", "rejected"}
  BY DEF Requests
<1> QED
  BY <1>1 DEF BreakpointInv, BreakpointTypeOK

\* The renderer moves.
LEMMA RendererMoves ==
    ASSUME BreakpointInv, UNCHANGED <<run, alive, stopAsked, session, accepted, reported, reports>>,
           seen' \in {seen, Known, request.snap},
           breakpoint' \in Points \cup {NoPoint}, advancing' \in BOOLEAN,
           advanceKey'[1] \in Nat, advanceKey'[2] \in Points \cup {NoPoint},
           pending'.action \in Controls \cup {"none"}, request' \in Requests,
           unflushed' \in {"none", unflushed}, refreshing' \in BOOLEAN,
           waitTimer' \in {0, waitTimer, request.run},
           stranded' \in BOOLEAN, cleared' \in BOOLEAN, lost' \in BOOLEAN
    PROVE  BreakpointInv'
<1>1. request'.stage \in {"none", "sent", "answered", "rejected"}
  BY DEF Requests
<1>2. seen'.session \in Sessions \cup {NoPoint} /\ seen'.accepted \subseteq Points
  <2>1. request.snap.session \in Sessions \cup {NoPoint} /\ request.snap.accepted \subseteq Points
    BY DEF BreakpointInv, Requests, Snapshots
  <2>2. Known.session \in Sessions /\ Known.accepted \subseteq Points
    BY DEF BreakpointInv, BreakpointTypeOK, Known
  <2> QED
    BY <2>1, <2>2 DEF BreakpointInv, BreakpointTypeOK
<1>3. waitTimer' \in 0..MaxRuns /\ unflushed' \in {"none", "running", "urgent"}
  BY BreakpointAssumption DEF BreakpointInv, BreakpointTypeOK, Requests
<1> QED
  BY <1>1, <1>2, <1>3 DEF BreakpointInv, BreakpointTypeOK

LEMMA BreakpointSteps ==
    ASSUME BreakpointInv, [BreakpointNext]_breakpointVars
    PROVE  BreakpointInv'
<1>1. /\ run \in 1..MaxRuns /\ alive \in BOOLEAN /\ stopAsked \in BOOLEAN /\ session \in Sessions
      /\ accepted \subseteq Points /\ reported \in Points \cup {NoPoint}
      /\ reports \in 0..MaxSafePoints /\ breakpoint \in Points \cup {NoPoint}
      /\ advancing \in BOOLEAN /\ stranded \in BOOLEAN /\ cleared \in BOOLEAN /\ lost \in BOOLEAN
      /\ unflushed \in {"none", "running", "urgent"} /\ refreshing \in BOOLEAN
      /\ advanceKey[1] \in Nat /\ advanceKey[2] \in Points \cup {NoPoint}
      /\ pending.action \in Controls \cup {"none"} /\ request \in Requests
  BY DEF BreakpointInv, BreakpointTypeOK
<1>2. NoKey[1] \in Nat /\ NoKey[2] = NoPoint /\ NoControl.action = "none" /\ NoRequest \in Requests
  BY BreakpointAssumption DEF NoKey, NoControl, NoRequest, Requests, Unseen, Snapshots
<1>3. ASSUME NEW p \in Points, NEW state \in NextStates, SafePoint(p, state)
      PROVE  BreakpointInv'
  <2>1. /\ reported' = p /\ reports' = reports + 1 /\ reports + run <= MaxSafePoints
        /\ UNCHANGED <<run, alive, stopAsked, seen, breakpoint, advancing, advanceKey, pending,
                       request, refreshing, waitTimer, stranded, cleared, lost>>
    BY <1>3 DEF SafePoint, MaySpeak, advance
  <2>2. reports' \in 0..MaxSafePoints
    BY <1>1, <2>1, BreakpointAssumption
  <2>5. unflushed' \in {"none", "running", "urgent"}
    BY <1>1, <1>3 DEF SafePoint, Publish
  <2>3. CASE p \in accepted
    <3>1. session' = [session EXCEPT !.status = "ended", !.pending = "none"] /\ UNCHANGED accepted
      BY <1>3, <2>3 DEF SafePoint
    <3>2. session' \in Sessions
      BY <1>1, <3>1 DEF Sessions
    <3> QED
      BY <1>1, <2>1, <2>2, <2>5, <3>1, <3>2, ProcessMoves
  <2>4. CASE p \notin accepted
    <3> DEFINE status == IF state = "paused" THEN "paused" ELSE "running"
               activeOf == IF state = "completed" THEN NoPoint ELSE p[1]
               ack == IF InFlight(state) THEN session.ack ELSE session.epoch
               left == IF InFlight(state) THEN session.pending ELSE "none"
    <3>1. accepted' = accepted \cup {p} /\ session' = [session EXCEPT
             !.status = status, !.active = activeOf, !.at = p, !.count = @ + 1,
             !.ack = ack, !.pending = left]
      BY <1>3, <2>4 DEF SafePoint
    <3>2. /\ session.count + 1 \in Nat /\ session.epoch \in Nat /\ session.ack \in Nat
          /\ session.pending \in Controls \cup {"none"}
      BY <1>1 DEF Sessions
    <3>3. status \in LiveStatuses \cup {"ended"} /\ activeOf \in Workflows \cup {NoPoint}
          /\ ack \in Nat /\ left \in Controls \cup {"none"}
      BY <3>2 DEF LiveStatuses, Points
    <3> HIDE DEF status, activeOf, ack, left
    <3>4. session' \in Sessions
      <4>1. session = [status |-> session.status, active |-> session.active, at |-> session.at,
                       count |-> session.count, epoch |-> session.epoch, ack |-> session.ack,
                       pending |-> session.pending]
        BY <1>1 DEF Sessions
      <4>2. session' = [status |-> status, active |-> activeOf, at |-> p,
                        count |-> session.count + 1, epoch |-> session.epoch, ack |-> ack,
                        pending |-> left]
        BY <3>1, <4>1
      <4> QED
        BY <3>2, <3>3, <4>2 DEF Sessions
    <3> QED
      BY <1>1, <2>1, <2>2, <2>5, <3>1, <3>4, ProcessMoves
  <2> QED
    BY <2>3, <2>4
<1>4. CASE ControlExpires \/ ProcessEnds
  <2>1. /\ session' = [session EXCEPT !.status = "ended", !.pending = "none"]
        /\ alive' \in {alive, FALSE} /\ unflushed' \in {unflushed, "urgent"}
        /\ UNCHANGED <<run, stopAsked, accepted, reported, reports, seen, breakpoint, advancing,
                       advanceKey, pending, request, refreshing, waitTimer, stranded, cleared, lost>>
    BY <1>4 DEF ControlExpires, ProcessEnds, Publish, advance, notices
  <2>2. /\ session' \in Sessions /\ alive' \in BOOLEAN
        /\ unflushed' \in {"none", "running", "urgent"}
    BY <1>1, <2>1 DEF Sessions
  <2> QED
    BY <1>1, <2>1, <2>2, ProcessMoves
<1>5. CASE NextRun
  <2>1. /\ run < MaxRuns /\ run' = run + 1 /\ alive' = TRUE /\ stopAsked' = FALSE
        /\ session' = Fresh /\ accepted' = {}
        /\ reported' = NoPoint /\ reports' = 0 /\ seen' = Unseen
        /\ breakpoint' = NoPoint /\ advancing' = FALSE /\ advanceKey' = NoKey
        /\ unflushed' = "none" /\ refreshing' = TRUE /\ waitTimer' = 0
        /\ cleared' = FALSE /\ lost' = FALSE
        /\ stranded' = (pending.action # "none")
        /\ UNCHANGED <<pending, request>>
    BY <1>5 DEF NextRun
  <2>2. run' \in 1..MaxRuns /\ reports' \in 0..MaxSafePoints /\ waitTimer' \in 0..MaxRuns
    BY <1>1, <2>1, BreakpointAssumption
  <2>3. session' \in Sessions /\ seen'.session = NoPoint /\ seen'.accepted = {}
    BY <2>1 DEF Fresh, Sessions, LiveStatuses, Unseen
  <2>4. stranded' \in BOOLEAN
    BY <2>1
  <2>5. request'.stage \in {"none", "sent", "answered", "rejected"}
    BY <1>1, <2>1 DEF Requests
  <2> QED
    BY <1>1, <1>2, <2>1, <2>2, <2>3, <2>4, <2>5 DEF BreakpointInv, BreakpointTypeOK
<1>6. CASE Refresh \/ RefreshIsLost \/ FlushNotices \/ WaitTimer
  <2>1. /\ seen' \in {seen, Known} /\ waitTimer' \in {0, waitTimer}
        /\ unflushed' \in {"none", unflushed}
        /\ UNCHANGED <<run, alive, stopAsked, session, accepted, reported, reports, breakpoint,
                       advancing, advanceKey, pending, request, stranded>>
    BY <1>6 DEF Refresh, RefreshIsLost, FlushNotices, WaitTimer, process, advance
  <2>2. refreshing' \in BOOLEAN /\ cleared' \in BOOLEAN /\ lost' \in BOOLEAN
    BY <1>1, <1>6, Zenon DEF Refresh, RefreshIsLost, FlushNotices, WaitTimer
  <2> QED
    BY <1>1, <2>1, <2>2, RendererMoves
<1>7. ASSUME NEW p \in Points, Toggle(p)
      PROVE  BreakpointInv'
  <2>1. /\ breakpoint' \in {NoPoint, p} /\ advancing' = FALSE /\ advanceKey' = NoKey
        /\ UNCHANGED <<run, alive, stopAsked, session, accepted, reported, reports, seen, pending,
                       request, unflushed, refreshing, waitTimer, stranded, cleared, lost>>
    BY <1>7 DEF Toggle, process, notices
  <2> QED
    BY <1>1, <1>2, <2>1, RendererMoves
<1>8. ASSUME NEW action \in Controls, ToolbarControl(action)
      PROVE  BreakpointInv'
  <2>1. /\ HasSession
        /\ UNCHANGED <<run, alive, stopAsked, session, accepted, reported, reports, seen,
                       breakpoint, unflushed, refreshing, waitTimer, stranded, lost>>
    BY <1>8 DEF ToolbarControl, MayControl, process
  <2>2. CASE Send(action, FALSE) /\ UNCHANGED <<advancing, advanceKey>>
    BY <1>1, <2>1, <2>2, SentIsTyped, RendererMoves
  <2>3. CASE advancing' = FALSE /\ UNCHANGED <<advanceKey, pending, request, cleared>>
    BY <1>1, <2>1, <2>3, RendererMoves
  <2>4. CASE advanceKey' = KeyOfShown /\ advancing' = TRUE /\ Send("stepOver", TRUE)
    <3>1. /\ pending'.action \in Controls /\ request' \in Requests /\ cleared' = FALSE
          /\ advanceKey'[1] \in Nat /\ advanceKey'[2] \in Points \cup {NoPoint}
      BY <2>1, <2>4, SentIsTyped, KeyIsTyped DEF Controls
    <3> QED
      BY <1>1, <2>1, <2>4, <3>1, RendererMoves
  <2> QED
    BY <1>8, <2>2, <2>3, <2>4 DEF ToolbarControl
<1>9. CASE Advance
  <2>1. UNCHANGED <<run, alive, stopAsked, session, accepted, reported, reports, seen, breakpoint,
                    unflushed, refreshing, waitTimer, stranded, lost>>
    BY <1>9 DEF Advance, process
  <2>2. CASE advancing' = FALSE /\ UNCHANGED <<advanceKey, pending, request, cleared>>
    BY <1>1, <2>1, <2>2, RendererMoves
  <2>3. CASE /\ MayControl("stepOver")
             /\ advanceKey' = KeyOfShown /\ Send("stepOver", TRUE) /\ UNCHANGED advancing
    <3>1. HasSession
      BY <2>3 DEF MayControl
    <3>2. /\ pending'.action \in Controls /\ request' \in Requests /\ cleared' = FALSE
          /\ advanceKey'[1] \in Nat /\ advanceKey'[2] \in Points \cup {NoPoint}
      BY <2>3, <3>1, SentIsTyped, KeyIsTyped DEF Controls
    <3> QED
      BY <1>1, <2>1, <2>3, <3>2, RendererMoves
  <2> QED
    BY <1>9, <2>2, <2>3 DEF Advance
<1>10. CASE BackendTakes
  <2>1. /\ request.stage = "sent" /\ stopAsked' = (stopAsked \/ Stopped)
        /\ UNCHANGED <<run, alive, accepted, reported, reports, seen, breakpoint, advancing,
                       advanceKey, pending, unflushed, refreshing, waitTimer, stranded, cleared, lost>>
        /\ session' = IF Queued THEN [session EXCEPT !.epoch = @ + 1, !.pending = request.action]
                                ELSE session
    BY <1>10 DEF BackendTakes, advance, notices
  <2>2. session' \in Sessions
    <3>1. session.epoch + 1 \in Nat /\ request.action \in Controls \cup {"none"}
      BY <1>1 DEF Sessions, Requests
    <3>2. [session EXCEPT !.epoch = @ + 1, !.pending = request.action] \in Sessions
      BY <1>1, <3>1 DEF Sessions
    <3> QED
      BY <1>1, <2>1, <3>2
  <2>3. request' \in Requests
    <3>1. [session |-> session', accepted |-> accepted] \in Snapshots
      BY <1>1, <2>2 DEF Snapshots
    <3>2. /\ request.action \in Controls \cup {"none"} /\ request.run \in 0..MaxRuns
          /\ request.advances \in BOOLEAN
      BY <1>1 DEF Requests
    <3>3. [NoRequest EXCEPT !.stage = "answered", !.action = request.action, !.run = request.run,
                            !.snap = [session |-> session', accepted |-> accepted]] \in Requests
      BY <1>2, <3>1, <3>2 DEF Requests
    <3>4. [NoRequest EXCEPT !.stage = "rejected", !.advances = request.advances] \in Requests
      BY <1>2, <3>2 DEF Requests
    <3> QED
      BY <1>10, <3>3, <3>4 DEF BackendTakes
  <2>4. stopAsked' \in BOOLEAN
    BY <2>1
  <2> QED
    BY <1>1, <2>1, <2>2, <2>3, <2>4, ProcessMoves
<1>11. CASE ControlAnswered
  <2>1. /\ seen' \in {seen, request.snap} /\ waitTimer' \in {waitTimer, request.run}
        /\ request' = NoRequest
        /\ UNCHANGED <<run, alive, stopAsked, session, accepted, reported, reports, breakpoint,
                       advancing, advanceKey, pending, unflushed, stranded, cleared>>
    BY <1>11 DEF ControlAnswered, process, advance
  <2>2. refreshing' \in BOOLEAN /\ lost' \in BOOLEAN
    BY <1>1, <1>11 DEF ControlAnswered
  <2> QED
    BY <1>1, <1>2, <2>1, <2>2, RendererMoves
<1>12. CASE Rejected
  <2>1. /\ request' = NoRequest /\ pending' = NoControl /\ stranded' = FALSE
        /\ advancing' = (advancing /\ ~request.advances)
        /\ UNCHANGED <<run, alive, stopAsked, session, accepted, reported, reports, seen, breakpoint,
                       advanceKey, unflushed, refreshing, waitTimer, cleared, lost>>
    BY <1>12 DEF Rejected, process, notices
  <2>2. advancing' \in BOOLEAN
    BY <2>1
  <2> QED
    BY <1>1, <1>2, <2>1, <2>2, RendererMoves
<1>13. CASE SettleControl
  <2>1. /\ pending' = NoControl /\ stranded' = FALSE /\ cleared' = FALSE
        /\ UNCHANGED <<run, alive, stopAsked, session, accepted, reported, reports, seen, breakpoint,
                       advancing, advanceKey, request, unflushed, refreshing, waitTimer, lost>>
    BY <1>13 DEF SettleControl, process, advance
  <2> QED
    BY <1>1, <1>2, <2>1, RendererMoves
<1>14. CASE UNCHANGED breakpointVars
  <2>1. UNCHANGED <<run, alive, stopAsked, session, accepted, reported, reports, seen, breakpoint,
                    advancing, advanceKey, pending, request, unflushed, refreshing, waitTimer,
                    stranded, cleared, lost>>
    BY <1>14 DEF breakpointVars, process, advance, notices
  <2> QED
    BY <2>1 DEF BreakpointInv, BreakpointTypeOK
<1> QED
  BY <1>3, <1>4, <1>5, <1>6, <1>7, <1>8, <1>9, <1>10, <1>11, <1>12, <1>13, <1>14
     DEF BreakpointNext

--------------------------------------------------------------------------------
(* The overview.                                                           *)

\* The types of the view: those of the answers are in WorkspaceInv, less the bound
\* on the versions.  An operation that waits for a load has it under way.
Bounded(v) == v.version \in 0..MaxVersions
LoadIsAwaited == task \in Owners => \E i \in DOMAIN loads : loads[i].owner = task
OverviewInv ==
    /\ WorkspaceInv /\ LoadIsAwaited
    /\ notice \in BOOLEAN /\ loading \in BOOLEAN /\ reloadTimer \in BOOLEAN
    /\ phase \in {"loading", "ready", "error"} /\ tasks \in 0..MaxTasks
    /\ task \in {"none", "snapshot", "picker", "opened", "rescan"} \cup (Owners \ {"reload"})
    /\ workspace \in Workspaces \cup {NoWorkspace}
    /\ overview \in VersionRecord /\ Bounded(overview) /\ Bounded(indexed)
    /\ \A i \in DOMAIN loads : Bounded(loads[i].data)
    /\ excused \subseteq {"dropped", "overlapped", "crossed", "failed"}

LEMMA OverviewIsTyped == OverviewInv => WorkspaceViewTypeOK
<1> SUFFICES ASSUME OverviewInv
             PROVE  WorkspaceViewTypeOK
  OBVIOUS
<1> DEFINE Load == [owner : Owners, generation : Nat, data : Versions, settles : BOOLEAN]
<1>1. \A v \in VersionRecord : Bounded(v) => v \in Versions
  BY DEF VersionRecord, Versions, Bounded
<1>2. loads \in Seq(LoadRecord)
      /\ \A i \in DOMAIN loads : loads[i] \in LoadRecord /\ loads[i].data \in Versions
  <2>1. loads \in Seq(LoadRecord)
    BY DEF OverviewInv, WorkspaceInv, LoadsTyped
  <2>2. \A i \in DOMAIN loads : loads[i] \in LoadRecord
    BY <2>1
  <2>3. \A i \in DOMAIN loads : loads[i].data \in VersionRecord
    BY <2>2 DEF LoadRecord
  <2> QED
    BY <1>1, <2>1, <2>2, <2>3 DEF OverviewInv
<1>3. loads \in Seq(Load)
  <2>1. \A i \in DOMAIN loads : loads[i] \in Load
    BY <1>2 DEF LoadRecord
  <2>2. Len(loads) \in Nat /\ loads \in [1..Len(loads) -> LoadRecord]
    BY <1>2
  <2> HIDE DEF Load
  <2>3. loads \in [1..Len(loads) -> Load]
    BY <2>1, <2>2
  <2> QED
    BY <2>2, <2>3
<1>4. indexed \in Versions /\ overview \in Versions /\ generation \in Nat
  BY <1>1 DEF OverviewInv, WorkspaceInv, LoadsTyped
<1> QED
  BY <1>3, <1>4 DEF OverviewInv, WorkspaceViewTypeOK, LoadIsAwaited

LEMMA OverviewBegins ==
    ASSUME WorkspaceViewInit \/ WorkspaceRest
    PROVE  OverviewInv
<1>1. /\ loads = <<>> /\ DOMAIN loads = {} /\ overview = Empty /\ tasks = 1 /\ notice = FALSE
      /\ loading = FALSE /\ reloadTimer = FALSE /\ excused = {} /\ workspace = NoWorkspace
      /\ \/ phase = "loading" /\ task = "snapshot"
         \/ phase = "ready" /\ task = "none"
      /\ indexed \in {Empty} \cup [of : Workspaces, version : {1}]
  BY DEF WorkspaceViewInit, WorkspaceRest
<1>2. Empty \in VersionRecord /\ Bounded(Empty) /\ Bounded(indexed) /\ 1 \in 0..MaxTasks
  BY <1>1, WorkspaceViewAssumption DEF Empty, VersionRecord, Bounded
<1> QED
  BY <1>1, <1>2, RestOfWorkspace DEF OverviewInv, LoadIsAwaited, Owners

\* What the loads and the flags become decides of the rest.
LEMMA OverviewMoves ==
    ASSUME OverviewInv, WorkspaceInv', LoadIsAwaited',
           notice' \in BOOLEAN, loading' \in BOOLEAN, reloadTimer' \in BOOLEAN,
           phase' \in {"loading", "ready", "error"}, tasks' \in 0..MaxTasks,
           task' \in {"none", "snapshot", "picker", "opened", "rescan"} \cup (Owners \ {"reload"}),
           workspace' \in {workspace, indexed.of, NoWorkspace},
           overview' \in {overview, Empty} \/ \E i \in DOMAIN loads : overview' = loads[i].data,
           Bounded(indexed'), \A i \in DOMAIN loads' : Bounded(loads'[i].data),
           excused' \subseteq {"dropped", "overlapped", "crossed", "failed"}
    PROVE  OverviewInv'
<1>1. loads \in Seq(LoadRecord) /\ indexed \in VersionRecord
  BY DEF OverviewInv, WorkspaceInv, LoadsTyped
<1>2. Empty \in VersionRecord /\ Bounded(Empty)
  BY WorkspaceViewAssumption DEF Empty, VersionRecord, Bounded
<1>3. \A i \in DOMAIN loads : loads[i].data \in VersionRecord /\ Bounded(loads[i].data)
  <2>1. \A i \in DOMAIN loads : loads[i] \in LoadRecord
    BY <1>1
  <2>2. \A i \in DOMAIN loads : loads[i].data \in VersionRecord
    BY <2>1 DEF LoadRecord
  <2> QED
    BY <2>2 DEF OverviewInv
<1>4. overview' \in VersionRecord /\ Bounded(overview')
  BY <1>2, <1>3 DEF OverviewInv
<1>5. workspace' \in Workspaces \cup {NoWorkspace}
  BY <1>1 DEF OverviewInv, VersionRecord
<1> QED
  BY <1>4, <1>5 DEF OverviewInv

\* A load that begins is that of its operation.
LEMMA LoadIsAdded ==
    ASSUME OverviewInv, NEW owner \in Owners, BeginLoad(owner, generation)
    PROVE  /\ \A i \in DOMAIN loads' : Bounded(loads'[i].data)
           /\ excused' \subseteq {"dropped", "overlapped", "crossed", "failed"}
           /\ \A i \in DOMAIN loads : i \in DOMAIN loads' /\ loads'[i].owner = loads[i].owner
           /\ \E i \in DOMAIN loads' : loads'[i].owner = owner
<1> DEFINE n == Len(loads) + 1
<1>1. /\ n \in Nat /\ n >= 1 /\ DOMAIN loads' = 1..n /\ DOMAIN loads = 1..(n - 1)
      /\ \A i \in DOMAIN loads : loads'[i].owner = loads[i].owner /\ loads'[i].data = loads[i].data
      /\ loads'[n].owner = owner /\ loads'[n].data = Unread
  <2>1. LoadsTyped
    BY DEF OverviewInv, WorkspaceInv
  <2>2. Len(loads) \in Nat
    BY <2>1 DEF LoadsTyped
  <2> QED
    BY <2>1, <2>2, LoadBegins
<1>2. Bounded(Unread)
  BY WorkspaceViewAssumption DEF Bounded, Unread
<1>3. \A i \in 1..n : i \in 1..(n - 1) \/ i = n
  BY <1>1
<1>4. \A i \in DOMAIN loads' : Bounded(loads'[i].data)
  BY <1>1, <1>2, <1>3 DEF OverviewInv
<1>5. excused' \subseteq {"dropped", "overlapped", "crossed", "failed"}
  BY DEF BeginLoad, OverviewInv
<1> QED
  BY <1>1, <1>4, <1>5

LEMMA OverviewSteps ==
    ASSUME OverviewInv, [WorkspaceViewNext]_workspaceViewVars
    PROVE  OverviewInv'
<1>1. WorkspaceInv'
  BY WorkspaceSteps DEF OverviewInv
<1>2. /\ LoadIsAwaited /\ notice \in BOOLEAN /\ loading \in BOOLEAN /\ reloadTimer \in BOOLEAN
      /\ phase \in {"loading", "ready", "error"} /\ tasks \in 0..MaxTasks
      /\ task \in {"none", "snapshot", "picker", "opened", "rescan"} \cup (Owners \ {"reload"})
      /\ Bounded(indexed) /\ \A i \in DOMAIN loads : Bounded(loads[i].data)
      /\ excused \subseteq {"dropped", "overlapped", "crossed", "failed"}
      /\ loads \in Seq(LoadRecord) /\ indexed \in VersionRecord
  BY DEF OverviewInv, WorkspaceInv, LoadsTyped
<1>3. UNCHANGED <<task, loads>> => LoadIsAwaited'
  BY <1>2 DEF LoadIsAwaited
<1>4. task' \notin Owners => LoadIsAwaited'
  BY DEF LoadIsAwaited
<1>5. CASE UNCHANGED workspaceViewVars
  BY <1>5, <1>1, <1>2, <1>3, OverviewMoves DEF workspaceViewVars
<1>6. CASE GraphChanges
  <2>1. /\ indexed.version < MaxVersions /\ indexed' = [indexed EXCEPT !.version = @ + 1]
        /\ notice' = TRUE
        /\ UNCHANGED <<phase, task, tasks, workspace, overview, loading, reloadTimer, loads, excused>>
    BY <1>6 DEF GraphChanges
  <2>2. Bounded(indexed')
    BY <1>2, <2>1, WorkspaceViewAssumption DEF Bounded, VersionRecord
  <2> QED
    BY <1>1, <1>2, <1>3, <2>1, <2>2, OverviewMoves
<1>7. ASSUME NEW i \in DOMAIN loads, ReadGraph(i)
      PROVE  OverviewInv'
  <2>1. PICK data \in {indexed, Failed} : loads' = [loads EXCEPT ![i].data = data]
    BY <1>7 DEF ReadGraph
  <2>2. UNCHANGED <<indexed, notice, phase, task, tasks, workspace, overview, loading,
                    reloadTimer, excused>>
    BY <1>7 DEF ReadGraph
  <2>3. Bounded(data)
    BY <1>2, WorkspaceViewAssumption DEF Bounded, Failed
  <2>4. DOMAIN loads' = DOMAIN loads
        /\ \A j \in DOMAIN loads : /\ loads'[j].owner = loads[j].owner
                                   /\ loads'[j].data \in {data, loads[j].data}
    BY <1>2, <2>1 DEF LoadRecord
  <2>5. LoadIsAwaited' /\ \A j \in DOMAIN loads' : Bounded(loads'[j].data)
    BY <1>2, <2>2, <2>3, <2>4 DEF LoadIsAwaited
  <2> QED
    BY <1>1, <1>2, <2>2, <2>5, OverviewMoves
<1>8. ASSUME NEW i \in DOMAIN loads, EndLoad(i)
      PROVE  OverviewInv'
  <2> DEFINE load == loads[i]
  <2>1. /\ loads' = RemoveAt(loads, i) /\ UNCHANGED <<indexed, notice, tasks, workspace, reloadTimer>>
        /\ task' = IF load.owner = task THEN "none" ELSE task
    BY <1>8 DEF EndLoad, TaskAfter
  <2>2. overview' \in {overview, load.data}
        /\ (loading' \in BOOLEAN) /\ phase' \in {phase, "error", "ready"}
        /\ excused' \in {excused, {}, excused \cup {"failed"}}
    <3>1. CASE Current(load)
      BY <1>8, <3>1 DEF EndLoad
    <3>2. CASE ~Current(load)
      BY <1>2, <1>8, <3>2 DEF EndLoad
    <3> QED
      BY <3>1, <3>2
  <2>3. /\ \A j \in DOMAIN loads' : Bounded(loads'[j].data)
        /\ \A j \in DOMAIN loads \ {i} : \E k \in DOMAIN loads' : loads'[k] = loads[j]
    <3>1. /\ Len(loads) \in Nat /\ DOMAIN loads = 1..Len(loads) /\ DOMAIN loads' = 1..(Len(loads) - 1)
          /\ \A j \in 1..(Len(loads) - 1) : loads'[j] = IF j < i THEN loads[j] ELSE loads[j + 1]
          /\ i \in 1..Len(loads)
      BY <1>2, <2>1, Removed
    <3>2. \A j \in 1..(Len(loads) - 1) : j \in 1..Len(loads) /\ j + 1 \in 1..Len(loads)
      BY <3>1
    <3>3. \A j \in DOMAIN loads' : Bounded(loads'[j].data)
      BY <1>2, <3>1, <3>2
    <3>4. ASSUME NEW j \in DOMAIN loads \ {i}
          PROVE  \E k \in DOMAIN loads' : loads'[k] = loads[j]
      <4>1. CASE j < i
        <5>1. j \in DOMAIN loads' /\ loads'[j] = loads[j]
          BY <3>1, <4>1
        <5> QED
          BY <5>1
      <4>2. CASE ~(j < i)
        <5>1. j - 1 \in DOMAIN loads' /\ loads'[j - 1] = loads[j]
          BY <3>1, <3>4, <4>2
        <5> QED
          BY <5>1
      <4> QED
        BY <4>1, <4>2
    <3> QED
      BY <3>3, <3>4
  <2>4. LoadIsAwaited'
    <3> SUFFICES ASSUME task \in Owners, task' = task
                 PROVE  \E k \in DOMAIN loads' : loads'[k].owner = task
      BY <2>1, <1>4 DEF LoadIsAwaited, Owners
    <3>1. PICK j \in DOMAIN loads : loads[j].owner = task
      BY <1>2 DEF LoadIsAwaited
    <3>2. j # i
      BY <2>1, <3>1 DEF Owners
    <3> QED
      BY <2>3, <3>1, <3>2
  <2>5. task' \in {"none", task} /\ phase' \in {"loading", "ready", "error"}
        /\ excused' \subseteq {"dropped", "overlapped", "crossed", "failed"}
    BY <1>2, <2>1, <2>2
  <2>6. task' \in {"none", "snapshot", "picker", "opened", "rescan"} \cup (Owners \ {"reload"})
    BY <1>2, <2>5
  <2>7. overview' \in {overview, Empty} \/ \E j \in DOMAIN loads : overview' = loads[j].data
    BY <2>2
  <2> QED
    BY <1>1, <1>2, <2>1, <2>2, <2>3, <2>4, <2>5, <2>6, <2>7, OverviewMoves
<1>9. CASE ChangeNotice
  BY <1>1, <1>2, <1>3, <1>9, OverviewMoves DEF ChangeNotice
<1>10. CASE ReloadDue
  <2>1. /\ reloadTimer' = FALSE /\ BeginLoad("reload", generation) /\ loading' = TRUE
        /\ UNCHANGED <<indexed, notice, phase, task, tasks, workspace, overview>>
    BY <1>10 DEF ReloadDue
  <2>2. /\ \A i \in DOMAIN loads' : Bounded(loads'[i].data)
        /\ excused' \subseteq {"dropped", "overlapped", "crossed", "failed"}
        /\ \A i \in DOMAIN loads : i \in DOMAIN loads' /\ loads'[i].owner = loads[i].owner
    BY <2>1, LoadIsAdded DEF Owners
  <2>3. LoadIsAwaited'
    BY <1>2, <2>1, <2>2 DEF LoadIsAwaited
  <2> QED
    BY <1>1, <1>2, <2>1, <2>2, <2>3, OverviewMoves
<1>11. CASE Initialize \/ BeginOpening \/ BeginScan
  <2>1. /\ tasks < MaxTasks /\ tasks' = tasks + 1 /\ task' \in {"snapshot", "picker", "rescan"}
        /\ phase' \in {phase, "loading"} /\ excused' \in {excused, excused \cup {"dropped"}}
        /\ UNCHANGED <<indexed, notice, workspace, overview, loading, reloadTimer, loads>>
    BY <1>11 DEF Initialize, BeginOpening, BeginScan, BeginTask, NextGeneration
  <2>2. tasks' \in 0..MaxTasks /\ task' \notin Owners
    BY <1>2, <2>1, WorkspaceViewAssumption DEF Owners
  <2>3. phase' \in {"loading", "ready", "error"}
        /\ excused' \subseteq {"dropped", "overlapped", "crossed", "failed"}
    BY <1>2, <2>1
  <2> QED
    BY <1>1, <1>2, <1>4, <2>1, <2>2, <2>3, OverviewMoves
<1>12. CASE SnapshotAnswer
  <2>1. UNCHANGED <<indexed, notice, tasks, loading, reloadTimer>>
    BY <1>12 DEF SnapshotAnswer
  <2>2. CASE /\ task' = "none" /\ phase' \in {"ready", "error"}
             /\ workspace' \in {workspace, NoWorkspace} /\ overview' \in {overview, Empty}
             /\ UNCHANGED <<loads, excused>>
    BY <1>1, <1>2, <1>4, <2>1, <2>2, OverviewMoves DEF Owners
  <2>3. CASE /\ task' = "initload" /\ workspace' = indexed.of
             /\ BeginLoad("initload", generation) /\ UNCHANGED <<phase, overview>>
    <3>1. /\ \A i \in DOMAIN loads' : Bounded(loads'[i].data)
          /\ excused' \subseteq {"dropped", "overlapped", "crossed", "failed"}
          /\ LoadIsAwaited'
      BY <2>3, LoadIsAdded DEF Owners, LoadIsAwaited
    <3>2. task' \in {"none", "snapshot", "picker", "opened", "rescan"} \cup (Owners \ {"reload"})
      BY <2>3 DEF Owners
    <3> QED
      BY <1>1, <1>2, <2>1, <2>3, <3>1, <3>2, OverviewMoves
  <2> QED
    BY <1>12, <2>2, <2>3 DEF SnapshotAnswer
<1>13. CASE OpeningRefused
  BY <1>1, <1>2, <1>4, <1>13, OverviewMoves DEF OpeningRefused, Owners
<1>14. CASE BackendOpens
  <2>1. /\ task' = "opened" /\ indexed.version < MaxVersions
        /\ indexed' \in [of : Workspaces, version : {indexed.version + 1}]
        /\ UNCHANGED <<notice, phase, tasks, workspace, overview, loading, reloadTimer, loads, excused>>
    BY <1>14 DEF BackendOpens
  <2>2. Bounded(indexed')
    BY <1>2, <2>1, WorkspaceViewAssumption DEF Bounded, VersionRecord
  <2> QED
    BY <1>1, <1>2, <1>4, <2>1, <2>2, OverviewMoves DEF Owners
<1>15. CASE AdoptWorkspace
  <2>1. /\ task' = "adoptload" /\ workspace' = indexed.of /\ overview' = Empty
        /\ reloadTimer' = FALSE /\ loading' = TRUE /\ BeginLoad("adoptload", generation)
        /\ UNCHANGED <<indexed, notice, phase, tasks>>
    BY <1>15 DEF AdoptWorkspace
  <2>2. /\ \A i \in DOMAIN loads' : Bounded(loads'[i].data)
        /\ excused' \subseteq {"dropped", "overlapped", "crossed", "failed"}
        /\ LoadIsAwaited'
    BY <2>1, LoadIsAdded DEF Owners, LoadIsAwaited
  <2>3. task' \in {"none", "snapshot", "picker", "opened", "rescan"} \cup (Owners \ {"reload"})
    BY <2>1 DEF Owners
  <2> QED
    BY <1>1, <1>2, <2>1, <2>2, <2>3, OverviewMoves
<1>16. CASE ScanAnswer
  <2>1. UNCHANGED <<notice, phase, tasks, workspace, overview, reloadTimer>>
    BY <1>16 DEF ScanAnswer
  <2>2. CASE /\ indexed.version < MaxVersions /\ indexed' = [indexed EXCEPT !.version = @ + 1]
             /\ task' = "scanload" /\ loading' = TRUE /\ BeginLoad("scanload", generation)
    <3>1. /\ \A i \in DOMAIN loads' : Bounded(loads'[i].data)
          /\ excused' \subseteq {"dropped", "overlapped", "crossed", "failed"}
          /\ LoadIsAwaited'
      BY <2>2, LoadIsAdded DEF Owners, LoadIsAwaited
    <3>2. task' \in {"none", "snapshot", "picker", "opened", "rescan"} \cup (Owners \ {"reload"})
      BY <2>2 DEF Owners
    <3>3. Bounded(indexed')
      BY <1>2, <2>2, WorkspaceViewAssumption DEF Bounded, VersionRecord
    <3> QED
      BY <1>1, <1>2, <2>1, <2>2, <3>1, <3>2, <3>3, OverviewMoves
  <2>3. CASE task' = "none" /\ UNCHANGED <<indexed, loading, loads, excused>>
    BY <1>1, <1>2, <1>4, <2>1, <2>3, OverviewMoves DEF Owners
  <2> QED
    BY <1>16, <2>2, <2>3 DEF ScanAnswer
<1> QED
  BY <1>5, <1>6, <1>7, <1>8, <1>9, <1>10, <1>11, <1>12, <1>13, <1>14, <1>15, <1>16
     DEF WorkspaceViewNext

--------------------------------------------------------------------------------
(* The renderer.                                                           *)

RendererInv ==
    EditorInv /\ DebuggerInv /\ BreakpointInv /\ RunViewInv /\ OverviewInv /\ AnswersInv

\* A step of the renderer is one of a single component, whichever it is.
LEMMA AnyMoves ==
    [RendererNext]_rendererVars =>
       /\ [EditorNext]_editorVars /\ [ViewNext]_viewVars /\ [BreakpointNext]_breakpointVars
       /\ [RunViewNext]_runViewVars /\ [WorkspaceViewNext]_workspaceViewVars
  BY DEF RendererNext, rendererVars, EditorMoves, DebuggerMoves, BreakpointMoves, RunMoves,
         WorkspaceMoves, FlowMoves, GitMoves, SearchMoves, AiMoves

\* The invariants of the components of the renderer are inductive together.
THEOREM RendererHolds == RendererSpec => []RendererInv
<1>1. RendererInit => RendererInv
  BY EditorBegins, DebuggerBegins, BreakpointBegins, RunViewBegins, OverviewBegins, AnswersBegin
     DEF RendererInit, RendererInv
<1>2. RendererInv /\ [RendererNext]_rendererVars => RendererInv'
  <2> SUFFICES ASSUME RendererInv, [RendererNext]_rendererVars
               PROVE  RendererInv'
    OBVIOUS
  <2>1. EditorInv' /\ DebuggerInv' /\ BreakpointInv' /\ RunViewInv' /\ OverviewInv'
    BY AnyMoves, EditorSteps, DebuggerSteps, BreakpointSteps, RunViewSteps, OverviewSteps
       DEF RendererInv
  <2>2. AnswersInv'
    BY OneMoves, FlowSteps, WorkspaceSteps, GitSteps, SearchSteps, AiSteps
       DEF RendererInv, AnswersInv
  <2> QED
    BY <2>1, <2>2 DEF RendererInv
<1> QED
  BY <1>1, <1>2, PTL DEF RendererSpec

\* Every variable of the component that moves keeps its type, and an operation of the
\* workspace that waits for a load has that load under way.
THEOREM RendererTyped == RendererSpec => []RendererTypeOK
<1>1. RendererInv => RendererTypeOK
  BY EditorIsTyped, OverviewIsTyped, GitIsTyped
     DEF RendererInv, RendererTypeOK, DebuggerInv, BreakpointInv, RunViewInv, AnswersInv,
         FlowInv, GitInv, SearchInv, AiInv
<1> QED
  BY <1>1, RendererHolds, PTL

\* useRunActions with useRuntimeSubscriptions: a process that lives can be stopped.
\* Once its start was answered it is the active run, whatever the order of answers, ends
\* and further starts, unless a workspace was adopted over its start.
THEOREM LiveRunsAreShown == RendererSpec => []LiveRunIsShown
<1>1. RendererInv => LiveRunIsShown
  BY DEF RendererInv, RunViewInv
<1> QED
  BY <1>1, RendererHolds, PTL

\* Nobody forgets an end: that of the active run is still to be told of, or its terminal event
\* is remembered for the answer of the start that is under way.
THEOREM EndsAreRemembered == RendererSpec => []EndIsTold
<1>1. RendererInv => EndIsTold
  BY DEF RendererInv, RunViewInv
<1> QED
  BY <1>1, RendererHolds, PTL

\* commit and snapshotIsCurrent: the session that is shown is that of the run that is
\* followed and does not go back to an earlier state, whatever refreshes and controls of this
\* run or of another are still under way.
THEOREM ViewsNeverGoBack == RendererSpec => ViewNeverGoesBack
<1>1. RendererInv /\ RendererInv' /\ [RendererNext]_rendererVars => [ViewMovesWell]_viewVars
  <2> SUFFICES ASSUME RendererInv, RendererInv', [RendererNext]_rendererVars
               PROVE  ViewMovesWell
    OBVIOUS
  <2> QED
    BY AnyMoves, ShownMoves DEF RendererInv
<1> QED
  BY <1>1, RendererHolds, PTL DEF RendererSpec, ViewNeverGoesBack, ViewMovesWell

\* The editor within the renderer keeps what EditorProofs shows of the editor alone.
THEOREM EditorIsKept ==
    RendererSpec => [](DirtyMeansUnsaved /\ DiscardIsConsented /\ SaveReplacesItsBase)
<1>1. RendererInv => DirtyMeansUnsaved /\ DiscardIsConsented /\ SaveReplacesItsBase
  BY DEF RendererInv, EditorInv, BuffersInv, LockInv, WritesInv
<1> QED
  BY <1>1, RendererHolds, PTL
================================================================================

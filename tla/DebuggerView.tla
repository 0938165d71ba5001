------------------------------ MODULE DebuggerView ------------------------------
(***************************************************************************)
(* The renderer's view of a debug session: useExecutionDebuggerSession and  *)
(* sessionPolicy against the snapshots, events and controls of the backend. *)
(* The view is refreshed by events, by a timer that coalesces them and by   *)
(* one that waits for the acknowledgement of a control; answers come in any *)
(* order and may be of a run that is no longer the target.  The session of  *)
(* the backend is DebugSession's, reduced to what a snapshot tells.         *)
(***************************************************************************)
EXTENDS Naturals, Sequences, SequencesExt

CONSTANTS
    Runs,       \* managed runs, 1..n in the order they are started
    MaxWork,    \* bound on the launches, safe points and controls of all runs
    LaunchWork  \* what a launch counts of it

ASSUME ViewAssumption == Runs \subseteq Nat \ {0} /\ {MaxWork, LaunchWork} \subseteq Nat

VARIABLES
    child,       \* the session of every run in the backend
    incoming,    \* runtime events that wait for their flush, as [run, kind]
    target,      \* targetRef: the run that is followed, 0 if none
    begun,       \* the last run that was begun
    shown,       \* sessionRef and the state that is rendered
    inFlight,    \* refreshInFlightRef
    queued,      \* refreshQueuedRef
    coalescing,  \* coalesceTimerRef
    ackTimer,    \* controlTimeoutRef: the run it was set for, 0 if none
    calls,       \* requests under way, in the order of their snapshotRequest
    expired,     \* runs of which a control expired and whose process lives on
    impaired,    \* history: the view of the target began while a call was under
                 \* way, or a request of it failed
    disarmed     \* history: an event of the target cleared the timer of a control

view == <<target, begun, shown>>
refresh == <<inFlight, queued, coalescing, ackTimer>>
history == <<impaired, disarmed>>
viewVars == <<child, expired, incoming, view, refresh, calls, history>>

Actions == {"pause", "go", "stop"} \* "go" stands for Resume and for Step Over
Statuses == {"absent", "running", "paused", "final"}
Session == [run : Runs \cup {0}, status : Statuses, reports : Nat,
            epoch : Nat, ack : Nat, pending : Actions \cup {"none"}]
NoSession == [run |-> 0, status |-> "absent", reports |-> 0,
              epoch |-> 0, ack |-> 0, pending |-> "none"]
Call == [kind : {"initial", "refresh"} \cup Actions, run : Runs,
         stage : {"asked", "answered", "checked", "failed"},
         snap : Session, overtaken : BOOLEAN]

ViewTypeOK ==
    /\ child \in [Runs -> Session]
    /\ incoming \subseteq [run : Runs, kind : {"end", "stopped", "running"}]
    /\ {target, begun} \subseteq Runs \cup {0} /\ shown \in Session
    /\ inFlight \in BOOLEAN /\ queued \in BOOLEAN /\ coalescing \in BOOLEAN
    /\ ackTimer \in Runs \cup {0}
    /\ calls \in Seq(Call)
    /\ expired \subseteq Runs /\ impaired \in BOOLEAN /\ disarmed \in BOOLEAN

ViewInit ==
    /\ child = [r \in Runs |-> NoSession] /\ incoming = {}
    /\ target = 0 /\ begun = 0 /\ shown = NoSession
    /\ inFlight = FALSE /\ queued = FALSE /\ coalescing = FALSE /\ ackTimer = 0
    /\ calls = <<>>
    /\ expired = {} /\ impaired = FALSE /\ disarmed = FALSE

Live(r) == child[r].status \in {"running", "paused"}
Work == FoldFunction(+, 0, [r \in Runs |->
          IF child[r].status = "absent" THEN 0
          ELSE LaunchWork + child[r].reports + child[r].epoch])
NewCall(kind, run, snap) == [kind |-> kind, run |-> run, stage |-> "asked",
                             snap |-> snap, overtaken |-> FALSE]

--------------------------------------------------------------------------------
(* The backend: one run at a time, the safe points of its child, the end.   *)

Launch(r) ==
    /\ Work + LaunchWork <= MaxWork
    /\ child[r].status = "absent" /\ expired = {}
    /\ \A p \in Runs : p < r => child[p].status = "final"
    /\ child' = [child EXCEPT ![r] = [NoSession EXCEPT !.run = r, !.status = "running"]]
    /\ UNCHANGED <<expired, incoming, view, refresh, calls, history>>

\* A safe point that acknowledges nothing: the child runs, or was already on
\* its way when the pause was requested.  One in ten of them is published.
ReportRunning(r) ==
    /\ child[r].status = "running" /\ child[r].pending \in {"none", "pause", "stop"}
    /\ Work < MaxWork
    /\ child' = [child EXCEPT ![r].reports = @ + 1]
    /\ incoming' \in {incoming, incoming \cup {[run |-> r, kind |-> "running"]}}
    /\ UNCHANGED <<expired, view, refresh, calls, history>>

\* A paused safe point is always published, a running one may not be.
Acknowledge(r) ==
    /\ Live(r) /\ child[r].pending \notin {"none", "stop"} /\ Work < MaxWork
    /\ \E runs \in IF child[r].pending = "go" THEN BOOLEAN ELSE {FALSE} :
           /\ child' = [child EXCEPT ![r].reports = @ + 1, ![r].ack = child[r].epoch,
                                     ![r].pending = "none",
                                     ![r].status = IF runs THEN "running" ELSE "paused"]
           /\ \/ incoming' = incoming \cup {[run |-> r, kind |-> IF runs THEN "running" ELSE "stopped"]}
              \/ runs /\ incoming' = incoming
    /\ UNCHANGED <<expired, view, refresh, calls, history>>

\* The 30 s of a control are over.  No event tells of it.
ExpireControl(r) ==
    /\ Live(r) /\ child[r].pending \notin {"none", "stop"}
    /\ child' = [child EXCEPT ![r].status = "final", ![r].pending = "none"]
    /\ expired' = expired \cup {r}
    /\ UNCHANGED <<incoming, view, refresh, calls, history>>

\* The process ends, or a line is rejected: both are published.
EndRun(r) ==
    /\ Live(r) \/ r \in expired
    /\ child' = [child EXCEPT ![r].status = "final", ![r].pending = "none"]
    /\ incoming' = incoming \cup {[run |-> r, kind |-> "end"]} /\ expired' = expired \ {r}
    /\ UNCHANGED <<view, refresh, calls, history>>

--------------------------------------------------------------------------------
(* Starting and leaving a target.                                          *)

\* begin: the timers go, a refresh of the target before stays in flight.
BeginView(r) ==
    /\ child[r].status # "absent" /\ begun < r
    /\ target' = r /\ begun' = r /\ shown' = NoSession
    /\ queued' = FALSE /\ coalescing' = FALSE /\ ackTimer' = 0
    /\ calls' = Append(calls, NewCall("initial", r, NoSession))
    /\ impaired' = (calls # <<>>) /\ disarmed' = FALSE
    /\ UNCHANGED <<child, expired, incoming, inFlight>>

\* clear: the workspace changed.
ClearView ==
    /\ target # 0
    /\ target' = 0 /\ shown' = NoSession
    /\ queued' = FALSE /\ coalescing' = FALSE /\ ackTimer' = 0
    /\ impaired' = FALSE /\ disarmed' = FALSE
    /\ UNCHANGED <<child, expired, incoming, begun, inFlight, calls>>

--------------------------------------------------------------------------------
(* Refreshing.                                                             *)

\* performRefresh of the target, from a state without armed coalescing.
PerformRefresh ==
    /\ coalescing' = FALSE
    /\ IF inFlight THEN queued' = TRUE /\ UNCHANGED <<inFlight, calls>>
       ELSE /\ inFlight' = TRUE /\ UNCHANGED queued
            /\ calls' = Append(calls, NewCall("refresh", target, NoSession))

ArmCoalescing == coalescing' = TRUE /\ UNCHANGED <<inFlight, queued, calls>>

\* Seeded fault: a refresh that is under way is taken for the one that is due.
SatisfiedScheduleRefresh(immediate) ==
    IF inFlight THEN UNCHANGED <<inFlight, queued, coalescing, calls>>
    ELSE IF coalescing /\ ~immediate THEN UNCHANGED <<inFlight, queued, coalescing, calls>>
    ELSE PerformRefresh \/ (~immediate /\ ArmCoalescing)

ScheduleRefresh(immediate) ==
    IF inFlight THEN queued' = TRUE /\ UNCHANGED <<inFlight, coalescing, calls>>
    ELSE IF coalescing /\ ~immediate THEN UNCHANGED <<inFlight, queued, coalescing, calls>>
    ELSE PerformRefresh \/ (~immediate /\ ArmCoalescing)

CoalesceTimer ==
    /\ coalescing /\ PerformRefresh
    /\ UNCHANGED <<child, expired, incoming, view, ackTimer, history>>

\* 30.5 s after the answer of a control, so after its own 30 s are over.
TimerIsDue == ackTimer # 0 /\ child[ackTimer].pending \in {"none", "stop"}

AckTimer ==
    /\ TimerIsDue
    /\ ackTimer' = 0
    /\ IF ackTimer = target THEN ScheduleRefresh(TRUE)
                            ELSE UNCHANGED <<inFlight, queued, coalescing, calls>>
    /\ UNCHANGED <<child, expired, incoming, view, history>>

\* refreshPriorityFromEvents over the events that are flushed.
Mine == {e \in incoming : e.run = target}
Immediate == \E e \in Mine : e.kind \in {"end", "stopped"} \/ shown.pending # "none"

FlushEvents ==
    /\ incoming # {} /\ incoming' = {}
    /\ IF target = 0 \/ Mine = {} THEN UNCHANGED <<refresh, calls, disarmed>>
       ELSE /\ ackTimer' = IF Immediate THEN 0 ELSE ackTimer
            /\ disarmed' = (disarmed \/ (Immediate /\ ackTimer # 0))
            /\ ScheduleRefresh(Immediate)
    /\ UNCHANGED <<child, expired, view, impaired>>

--------------------------------------------------------------------------------
(* Requests and their answers.                                             *)

\* control: decided on the snapshot that is shown.  The renderer offers Pause
\* while running, Resume and Step while paused, Stop while the process lives.
Offered(action) ==
    CASE action = "pause" -> shown.status = "running"
      [] action = "go" -> shown.status = "paused"
      [] action = "stop" -> shown.status \in {"running", "paused"}

Control(action) ==
    /\ target # 0 /\ shown.run = target /\ shown.pending = "none" /\ Offered(action)
    /\ \A i \in DOMAIN calls : calls[i].kind \notin Actions
    /\ Work <= MaxWork
    /\ calls' = Append(calls, NewCall(action, target, shown))
    /\ UNCHANGED <<child, expired, incoming, view, refresh, history>>

Answer(i, stage, snap) ==
    calls' = [calls EXCEPT ![i].stage = stage, ![i].snap = snap]

BackendSnapshot(i) ==
    /\ calls[i].stage = "asked" /\ calls[i].kind \in {"initial", "refresh"}
    /\ Answer(i, "answered", child[calls[i].run]) \/ Answer(i, "failed", NoSession)
    /\ UNCHANGED <<child, expired, incoming, view, refresh, history>>

\* control_debug_session: the expected epoch must be the current one, for Resume
\* and Step Over the sequence too.  Stop is answered whatever they are: it takes
\* the process down and asks the child only if it can.
Accepts(s, c) ==
    /\ s.pending = "none" /\ s.epoch = c.snap.epoch
    /\ CASE c.kind = "pause" -> s.status = "running"
         [] c.kind = "go"    -> s.status = "paused" /\ s.reports = c.snap.reports
         [] c.kind = "stop"  -> Live(c.run)

BackendControl(i) ==
    /\ calls[i].stage = "asked" /\ calls[i].kind \in Actions
    /\ LET c == calls[i]
           s == child[c.run]
           after == [s EXCEPT !.pending = c.kind, !.epoch = @ + 1]
       IN  \/ /\ Accepts(s, c) /\ child' = [child EXCEPT ![c.run] = after]
              /\ Answer(i, "answered", after)
           \/ /\ c.kind = "stop" /\ (Live(c.run) \/ c.run \in expired) /\ UNCHANGED child
              /\ Answer(i, "answered", s)
           \/ /\ ~Accepts(s, c) /\ UNCHANGED child /\ Answer(i, "failed", NoSession)
    /\ UNCHANGED <<expired, incoming, view, refresh, history>>

OfTarget(c) == c.run = target

\* Seeded fault: whatever was requested last is shown.
TrustingSnapshotIsCurrent(current, next) == TRUE

\* snapshotIsCurrent
SnapshotIsCurrent(current, next) ==
    \/ current.run = 0
    \/ /\ current.run = next.run
       /\ current.status = "final" => next.status = "final"
       /\ next.reports >= current.reports
       /\ next.epoch >= current.epoch /\ next.ack >= current.ack

\* What follows the commit, in fetchTarget, performRefresh and control.
Finished(i, rest) ==
    LET c == calls[i]
        again == c.kind = "refresh" /\ queued /\ OfTarget(c)
        waits == c.kind \in Actions \ {"stop"} /\ c.stage # "failed" /\ c.snap.pending # "none"
    IN  /\ calls' = RemoveAt(rest, i)
        /\ inFlight' = IF c.kind = "refresh" THEN FALSE ELSE inFlight
        /\ queued' = IF again \/ waits THEN FALSE ELSE queued
        /\ coalescing' = IF again THEN TRUE ELSE IF waits THEN FALSE ELSE coalescing
        /\ ackTimer' = IF waits THEN c.run ELSE ackTimer

\* The first half of commit; the second comes after an import.
CheckAnswer(i) ==
    /\ calls[i].stage = "answered"
    /\ IF OfTarget(calls[i]) /\ ~calls[i].overtaken
       THEN /\ calls' = [calls EXCEPT ![i].stage = "checked"]
            /\ UNCHANGED refresh
       ELSE Finished(i, calls)
    /\ UNCHANGED <<child, expired, incoming, view, history>>

CommitAnswer(i) ==
    /\ calls[i].stage = "checked"
    /\ IF OfTarget(calls[i]) /\ SnapshotIsCurrent(shown, calls[i].snap)
       THEN /\ shown' = calls[i].snap
            /\ Finished(i, [j \in DOMAIN calls |->
                              IF j < i THEN [calls[j] EXCEPT !.overtaken = TRUE] ELSE calls[j]])
       ELSE UNCHANGED shown /\ Finished(i, calls)
    /\ UNCHANGED <<child, expired, incoming, target, begun, history>>

FailedAnswer(i) ==
    /\ calls[i].stage = "failed"
    /\ Finished(i, calls)
    /\ impaired' = (impaired \/ OfTarget(calls[i]))
    /\ UNCHANGED <<child, expired, incoming, view, disarmed>>

Backend == \E i \in DOMAIN calls : BackendSnapshot(i) \/ BackendControl(i)
Answered == \E i \in DOMAIN calls : CheckAnswer(i) \/ CommitAnswer(i) \/ FailedAnswer(i)

ViewNext ==
    \/ \E r \in Runs : \/ Launch(r) \/ ReportRunning(r) \/ Acknowledge(r)
                       \/ ExpireControl(r) \/ EndRun(r) \/ BeginView(r)
    \/ ClearView \/ FlushEvents \/ CoalesceTimer \/ AckTimer
    \/ \E action \in Actions : Control(action)
    \/ Backend \/ Answered

ViewSpec == ViewInit /\ [][ViewNext]_viewVars

\* Requests are answered, timers fire and batches are flushed.  The child, the
\* user and the process owe nothing; a control they leave alone expires.
ViewFairness ==
    /\ WF_viewVars(Backend \/ Answered)
    /\ WF_viewVars(FlushEvents) /\ WF_viewVars(CoalesceTimer \/ AckTimer)
    /\ WF_viewVars(\E r \in Runs : ExpireControl(r))

FairViewSpec == ViewSpec /\ ViewFairness

--------------------------------------------------------------------------------
(* Properties.                                                             *)

\* What is shown is a snapshot of the run that is followed, and the view of a run
\* does not go back to an earlier state of its session, whatever answers of this
\* run or of an earlier one are still to come.
Age(s) == s.reports + s.epoch + s.ack + IF s.status = "final" THEN 1 ELSE 0
ViewNeverGoesBack ==
    [][/\ shown'.run \in {0, target'}
       /\ target' = target /\ shown.run # 0 /\ shown'.run # 0
          => Age(shown') >= Age(shown) /\ (shown.status = "final" => shown'.status = "final")]_viewVars

\* The end of the run that is followed is shown: no event is lost between the
\* flags and timers of the refresh.  Excepted is a run of which a request
\* failed, whose error was shown, and one whose view began while calls of the
\* run before were under way: their answers take its queued or armed refresh
\* away.
Due == target # 0 /\ shown.status # "final" /\ ~impaired
\* An expired control shows as a failed session when the timer that waits for
\* it was left alone; a report that clears the timer early takes the only
\* notice of the expiry with it.
EndIsHidden == Due /\ target \notin expired /\ child[target].status = "final"
ExpiryIsHidden == Due /\ target \in expired /\ ~disarmed
EndingIsShown == (EndIsHidden \/ ExpiryIsHidden) ~> ~(EndIsHidden \/ ExpiryIsHidden)
================================================================================

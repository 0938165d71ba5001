---------------------------- MODULE BreakpointAdvance ----------------------------
(***************************************************************************)
(* The cooperative breakpoint of the debugger (useCooperativeBreakpoint and *)
(* the control guard of ExecutionDebugger) against a debug session that     *)
(* accepts safe points and controls by the rules of debugger/registry.rs.   *)
(* The view learns of the session as useExecutionDebuggerSession does: from *)
(* a refresh that an event or the timer of a control asked for, or from the *)
(* answer of a control.  A refresh reads and shows in one step here; in     *)
(* DebuggerView these are apart.                                           *)
(***************************************************************************)
EXTENDS Naturals

CONSTANTS
    Workflows,     \* workflow identities the instrumented child may report
    Steps,         \* its checkpoint identities, stable over workflows
    NoPoint,       \* no checkpoint and no workflow
    MaxSafePoints, \* bound on the safe points of a run, one less for every run before it
    MaxRuns        \* bound on the managed runs

ASSUME BreakpointAssumption ==
    /\ Workflows \subseteq Nat /\ Steps \subseteq Nat /\ NoPoint \notin Workflows
    /\ MaxSafePoints \in Nat /\ MaxRuns \in Nat \ {0}

Points == Workflows \X Steps

VARIABLES
    run, alive,       \* managed runs so far, and whether the process lives
    stopAsked,        \* its process group was asked to stop
    session,          \* the debug session of the current run
    accepted,         \* workflow_steps of the registry, never cleared in a run
    reported,         \* history: the last checkpoint of the child, accepted or not
    reports,          \* history: how many there were
    seen,             \* the session the view shows, with its accepted points
    breakpoint,       \* armed checkpoint
    advancing,
    advanceKey,       \* advanceRef
    pending,          \* pendingControlRef and pendingAction
    request,          \* the control request under way
    unflushed,        \* priority of the runtime events that wait for their flush
    refreshing,       \* a refresh is under way, queued or waits for its interval
    waitTimer,        \* controlTimeoutRef: the run it was set for, 0 if none
    stranded,         \* history: the pending control is of a run that was replaced
    cleared,          \* history: an event cleared the timer of the last control
    lost              \* history: the last refresh failed or was dropped

process == <<run, alive, stopAsked, session, accepted, reported, reports>>
advance == <<breakpoint, advancing, advanceKey>>
notices == <<unflushed, refreshing, waitTimer, cleared, lost>>
breakpointVars == <<process, seen, advance, pending, request, notices, stranded>>

Controls == {"pause", "resume", "stepOver", "stop"}
LiveStatuses == {"starting", "running", "paused"}
Sessions == [status : LiveStatuses \cup {"ended"}, active : Workflows \cup {NoPoint},
             at : Points \cup {NoPoint}, count : Nat, epoch : Nat, ack : Nat,
             pending : Controls \cup {"none"}]
Fresh == [status |-> "starting", active |-> NoPoint, at |-> NoPoint, count |-> 0,
          epoch |-> 0, ack |-> 0, pending |-> "none"]
Unseen == [session |-> NoPoint, accepted |-> {}]
NoKey == <<0, NoPoint>>
NoControl == [action |-> "none", ack |-> 0, epoch |-> 0, count |-> 0]
NoRequest == [stage |-> "none", action |-> "none", run |-> 0, epoch |-> 0, count |-> 0,
              advances |-> FALSE, snap |-> Unseen]
Known == [session |-> session, accepted |-> accepted]

BreakpointTypeOK ==
    /\ run \in 1..MaxRuns /\ alive \in BOOLEAN /\ stopAsked \in BOOLEAN
    /\ session \in Sessions /\ accepted \subseteq Points
    /\ reported \in Points \cup {NoPoint} /\ reports \in 0..MaxSafePoints
    /\ seen.session \in Sessions \cup {NoPoint} /\ seen.accepted \subseteq Points
    /\ breakpoint \in Points \cup {NoPoint} /\ advancing \in BOOLEAN
    /\ advanceKey[1] \in Nat /\ advanceKey[2] \in Points \cup {NoPoint}
    /\ pending.action \in Controls \cup {"none"}
    /\ request.stage \in {"none", "sent", "answered", "rejected"}
    /\ unflushed \in {"none", "running", "urgent"} /\ refreshing \in BOOLEAN
    /\ waitTimer \in 0..MaxRuns
    /\ stranded \in BOOLEAN /\ cleared \in BOOLEAN /\ lost \in BOOLEAN

BreakpointInit ==
    /\ run = 1 /\ alive = TRUE /\ stopAsked = FALSE /\ session = Fresh /\ accepted = {}
    /\ reported = NoPoint /\ reports = 0 /\ seen = Unseen
    /\ breakpoint = NoPoint /\ advancing = FALSE /\ advanceKey = NoKey
    /\ pending = NoControl /\ request = NoRequest
    /\ unflushed = "none" /\ refreshing = TRUE /\ waitTimer = 0
    /\ stranded = FALSE /\ cleared = FALSE /\ lost = FALSE

--------------------------------------------------------------------------------
(* The child and its session.                                              *)

\* What the protocol lets an adapter say next: a workflow begins paused, a
\* step ends paused or with the workflow, a released one says what it likes.
NextStates ==
    IF session.active = NoPoint THEN {"paused"}
    ELSE IF session.pending = "stepOver" THEN {"paused", "completed"}
    ELSE IF session.pending = "pause" THEN {"paused", "completed", "running"}
    ELSE {"running", "completed"}

\* A running report while a pause is pending was on its way before it.
InFlight(state) == session.pending = "pause" /\ state = "running"

\* A report after the end is refused with an event of its own and is left out.
MaySpeak == /\ alive /\ session.status \in LiveStatuses /\ reports + run <= MaxSafePoints
            /\ ~stopAsked
            /\ session.status = "paused" => session.pending # "none"

\* Identities are numbered in the order of their first report, which is no
\* restriction: the code only compares them.
InOrder(p) ==
    /\ \A w \in Workflows : w < p[1] => \E t \in Steps : <<w, t>> \in accepted
    /\ \A t \in Steps : t < p[2] => <<p[1], t>> \in accepted

\* The event of an end, a pause or a completed workflow is "urgent".
Publish(priority) == unflushed' = IF unflushed = "urgent" THEN unflushed ELSE priority

\* DebugRegistry::accept for a report with the right sequence and epoch.  A
\* checkpoint that was accepted before is refused and ends the session.  A
\* running report may not be published.
SafePoint(p, state) ==
    /\ MaySpeak /\ state \in NextStates
    /\ session.active \in {NoPoint, p[1]} /\ InOrder(p)
    /\ reported' = p /\ reports' = reports + 1
    /\ IF p \in accepted
       THEN /\ session' = [session EXCEPT !.status = "ended", !.pending = "none"]
            /\ Publish("urgent") /\ UNCHANGED accepted
       ELSE /\ accepted' = accepted \cup {p}
            /\ \/ state = "running" /\ (UNCHANGED unflushed \/ Publish("running"))
               \/ state # "running" /\ Publish("urgent")
            /\ session' = [session EXCEPT
                 !.status = IF state = "paused" THEN "paused" ELSE "running",
                 !.active = IF state = "completed" THEN NoPoint ELSE p[1],
                 !.at = p, !.count = @ + 1,
                 !.ack = IF InFlight(state) THEN @ ELSE session.epoch,
                 !.pending = IF InFlight(state) THEN @ ELSE "none"]
    /\ UNCHANGED <<run, alive, stopAsked, seen, advance, pending, request, refreshing, waitTimer,
                   stranded, cleared, lost>>

\* expire_control after 30 s without the acknowledgement; Stop has no expiry.
\* No event tells of it.
ControlExpires ==
    /\ session.pending \notin {"none", "stop"}
    /\ session' = [session EXCEPT !.status = "ended", !.pending = "none"]
    /\ UNCHANGED <<run, alive, stopAsked, accepted, reported, reports, seen, advance, pending,
                   request, notices, stranded>>

ProcessEnds ==
    /\ alive /\ alive' = FALSE
    /\ session' = [session EXCEPT !.status = "ended", !.pending = "none"]
    /\ Publish("urgent")
    /\ UNCHANGED <<run, stopAsked, accepted, reported, reports, seen, advance, pending, request,
                   refreshing, waitTimer, stranded, cleared, lost>>

\* The process group of a run that was asked to stop is killed.
StopEnds == stopAsked /\ ProcessEnds

\* Another run: the session is new, the reset effect drops the breakpoint, and
\* begin takes the timers back and asks for the first snapshot.
NextRun ==
    /\ ~alive /\ run < MaxRuns
    /\ run' = run + 1 /\ alive' = TRUE /\ stopAsked' = FALSE
    /\ session' = Fresh /\ accepted' = {}
    /\ reported' = NoPoint /\ reports' = 0 /\ seen' = Unseen
    /\ breakpoint' = NoPoint /\ advancing' = FALSE /\ advanceKey' = NoKey
    /\ unflushed' = "none" /\ refreshing' = TRUE /\ waitTimer' = 0
    /\ cleared' = FALSE /\ lost' = FALSE
    /\ stranded' = (pending.action # "none")
    /\ UNCHANGED <<pending, request>>

--------------------------------------------------------------------------------
(* The view.                                                               *)

Shown == seen.session
HasSession == Shown # NoPoint

Refresh ==
    /\ refreshing /\ refreshing' = FALSE /\ seen' = Known
    /\ UNCHANGED <<process, advance, pending, request, unflushed, waitTimer, stranded, cleared,
                   lost>>

\* The request fails, or the refresh is queued behind one of the run before,
\* which ends without asking again.
RefreshIsLost ==
    /\ refreshing /\ refreshing' = FALSE /\ lost' = TRUE
    /\ UNCHANGED <<process, seen, advance, pending, request, unflushed, waitTimer, stranded,
                   cleared>>

\* refreshPriorityFromEvents: at once when a control is pending in the view, and
\* such a refresh takes the place of the timer.
AtOnce == unflushed = "urgent" \/ (HasSession /\ Shown.pending # "none")

FlushNotices ==
    /\ unflushed # "none" /\ unflushed' = "none" /\ refreshing' = TRUE /\ lost' = FALSE
    /\ waitTimer' = IF AtOnce THEN 0 ELSE waitTimer
    /\ cleared' = (cleared \/ (AtOnce /\ waitTimer = run))
    /\ UNCHANGED <<process, seen, advance, pending, request, stranded>>

\* 30.5 s after the answer of a control, so after its own 30 s are over.
WaitTimer ==
    /\ waitTimer # 0 /\ (waitTimer = run => session.pending \in {"none", "stop"})
    /\ waitTimer' = 0 /\ refreshing' = (refreshing \/ waitTimer = run)
    /\ lost' = (lost /\ waitTimer # run)
    /\ UNCHANGED <<process, seen, advance, pending, request, unflushed, stranded, cleared>>

\* debuggerCapabilities
Capable(action) ==
    CASE action = "pause" -> Shown.status = "running"
      [] action \in {"resume", "stepOver"} -> Shown.status = "paused"
      [] action = "stop" -> alive \/ Shown.status \in LiveStatuses

MayControl(action) ==
    HasSession /\ Capable(action) /\ pending.action = "none" /\ Shown.pending = "none"

\* runControl once it is available; nothing happens when it is not.  One request
\* is under way at a time.
Send(action, advances) ==
    /\ pending' = [action |-> action, ack |-> Shown.ack, epoch |-> Shown.epoch, count |-> Shown.count]
    /\ request' = [stage |-> "sent", action |-> action, run |-> run, epoch |-> Shown.epoch,
                   count |-> Shown.count, advances |-> advances, snap |-> Unseen]
    /\ cleared' = FALSE

BreakpointApplies ==
    /\ breakpoint # NoPoint /\ Shown.status = "paused" /\ Shown.active = breakpoint[1]

KeyOfShown == <<Shown.epoch, Shown.at>>

\* runToolbarControl.  Continue at the armed checkpoint sends nothing.
ToolbarControl(action) ==
    /\ MayControl(action) /\ request.stage = "none"
    /\ IF ~(action = "resume" /\ BreakpointApplies)
       THEN Send(action, FALSE) /\ UNCHANGED <<advancing, advanceKey>>
       ELSE IF Shown.at = breakpoint
            THEN advancing' = FALSE /\ UNCHANGED <<advanceKey, pending, request, cleared>>
            ELSE /\ advanceKey' = KeyOfShown /\ advancing' = TRUE
                 /\ Send("stepOver", TRUE)
    /\ UNCHANGED <<process, seen, breakpoint, unflushed, refreshing, waitTimer, stranded, lost>>

\* toggle: a reported step of the active workflow can be armed or disarmed.
Toggle(p) ==
    /\ alive /\ HasSession /\ p \in seen.accepted /\ Shown.active = p[1]
    /\ breakpoint' = IF breakpoint = p THEN NoPoint ELSE p
    /\ advancing' = FALSE /\ advanceKey' = NoKey
    /\ UNCHANGED <<process, seen, pending, request, notices, stranded>>

\* Seeded fault: an advance waits for its checkpoint after the session ended.
StubbornAdvanceIsOver ==
    \/ breakpoint = NoPoint \/ ~HasSession \/ ~alive
    \/ Shown.active # breakpoint[1] \/ Shown.at = breakpoint

AdvanceIsOver ==
    \/ breakpoint = NoPoint \/ ~HasSession \/ ~alive
    \/ Shown.status = "ended" \/ Shown.active # breakpoint[1] \/ Shown.at = breakpoint

\* The effect that ends the advance or sends its next permit.
Advance ==
    /\ advancing
    /\ \/ AdvanceIsOver /\ advancing' = FALSE /\ UNCHANGED <<advanceKey, pending, request, cleared>>
       \/ /\ ~AdvanceIsOver /\ MayControl("stepOver") /\ request.stage = "none"
          /\ advanceKey # KeyOfShown
          /\ advanceKey' = KeyOfShown /\ Send("stepOver", TRUE) /\ UNCHANGED advancing
    /\ UNCHANGED <<process, seen, breakpoint, unflushed, refreshing, waitTimer, stranded, lost>>

\* queue_control
Queued ==
    /\ request.run = run /\ session.status \in LiveStatuses
    /\ session.pending = "none" /\ request.epoch = session.epoch
    /\ CASE request.action = "pause" -> session.status = "running"
         [] request.action = "stop" -> TRUE
         [] OTHER -> session.status = "paused" /\ request.count = session.count

\* control_debug_session: Stop takes the process group of a live run down whether
\* or not the child can be asked.
Stopped == request.action = "stop" /\ request.run = run /\ alive

BackendTakes ==
    /\ request.stage = "sent"
    /\ session' = IF Queued THEN [session EXCEPT !.epoch = @ + 1, !.pending = request.action]
                            ELSE session
    /\ stopAsked' = (stopAsked \/ Stopped)
    /\ request' = IF Queued \/ Stopped
                  THEN [NoRequest EXCEPT !.stage = "answered", !.action = request.action,
                                         !.run = request.run,
                                         !.snap = [session |-> session', accepted |-> accepted]]
                  ELSE [NoRequest EXCEPT !.stage = "rejected", !.advances = request.advances]
    /\ UNCHANGED <<run, alive, accepted, reported, reports, seen, advance, pending, notices,
                   stranded>>

\* snapshotIsCurrent
NotOlder(next) ==
    HasSession => /\ Shown.status = "ended" => next.status = "ended"
                  /\ next.count >= Shown.count /\ next.epoch >= Shown.epoch
                  /\ next.ack >= Shown.ack

\* The answer of an accepted control is shown, unless the view is of another run
\* or further.  One but Stop sets the timer and takes a refresh that waits back.
ControlAnswered ==
    /\ request.stage = "answered" /\ request' = NoRequest
    /\ seen' = IF request.run = run /\ NotOlder(request.snap.session) THEN request.snap ELSE seen
    /\ IF request.action = "stop" THEN UNCHANGED <<refreshing, waitTimer, lost>>
       ELSE /\ waitTimer' = request.run /\ refreshing' \in {refreshing, FALSE}
            /\ lost' = (lost \/ (refreshing' # refreshing /\ request.run # run))
    /\ UNCHANGED <<process, advance, pending, unflushed, stranded, cleared>>

\* The catch of runControl, with the onRejected of an advance.
Rejected ==
    /\ request.stage = "rejected" /\ request' = NoRequest
    /\ pending' = NoControl /\ stranded' = FALSE
    /\ advancing' = (advancing /\ ~request.advances)
    /\ UNCHANGED <<process, seen, breakpoint, advanceKey, notices>>

\* The effect that takes the pending control back once the view shows its
\* acknowledgement or its end.
Settled ==
    LET ended == Shown.status = "ended" IN
    \/ pending.action = "stop" /\ (~alive \/ ended)
    \/ /\ Shown.pending = "none"
       /\ Shown.ack > pending.ack \/ (ended /\ Shown.epoch > pending.epoch)
       /\ Shown.count > pending.count \/ ended

SettleControl ==
    /\ pending.action # "none" /\ HasSession /\ Settled
    /\ pending' = NoControl /\ stranded' = FALSE /\ cleared' = FALSE
    /\ UNCHANGED <<process, seen, advance, request, unflushed, refreshing, waitTimer, lost>>

BreakpointNext ==
    \/ \E p \in Points : Toggle(p) \/ \E state \in NextStates : SafePoint(p, state)
    \/ \E action \in Controls : ToolbarControl(action)
    \/ ControlExpires \/ ProcessEnds \/ NextRun
    \/ Refresh \/ RefreshIsLost \/ FlushNotices \/ WaitTimer
    \/ Advance \/ BackendTakes \/ ControlAnswered \/ Rejected \/ SettleControl

BreakpointSpec == BreakpointInit /\ [][BreakpointNext]_breakpointVars

\* Requests are answered or fail, events are flushed, timers fire, effects run and
\* a control that the child leaves alone expires.  The user and the child owe
\* nothing, and nothing makes the view ask for what it was not told of.
BreakpointFairness ==
    /\ WF_breakpointVars(Refresh \/ RefreshIsLost)
    /\ WF_breakpointVars(FlushNotices) /\ WF_breakpointVars(WaitTimer)
    /\ WF_breakpointVars(Advance) /\ WF_breakpointVars(SettleControl)
    /\ WF_breakpointVars(BackendTakes \/ ControlAnswered \/ Rejected)
    /\ WF_breakpointVars(ControlExpires \/ StopEnds)

FairBreakpointSpec == BreakpointSpec /\ BreakpointFairness

--------------------------------------------------------------------------------
(* Properties.                                                             *)

\* The view is behind and nothing is under way that would tell it.
Unnoticed ==
    /\ (cleared /\ alive) \/ lost
    /\ seen # Known /\ request.stage = "none"
    /\ unflushed = "none" /\ ~refreshing /\ waitTimer # run

\* An advance does not hang and the control buttons come back after every control,
\* however reports, the expiry, events, answers and the end of the process are
\* ordered.  Excepted is what the code loses sight of: the control of a run that was
\* replaced (stranded), since nothing takes its pendingControlRef back, and one whose
\* outcome is not shown because an event cleared its timer before the outcome, or a
\* refresh was lost (Unnoticed).  That lasts until another event: at the latest the
\* end of the process must bring the buttons back.
ControlsComeBack ==
    (advancing \/ pending.action # "none") ~>
        \/ ~advancing /\ (pending.action = "none" \/ stranded)
        \/ Unnoticed

\* docs/INSTRUMENTED_DEBUGGER.md: Continue repeats Step Over "until that stable
\* checkpoint ID is reported", so a report of the armed checkpoint is where the
\* session stops.
ArmedCheckpointIsReached ==
    [][advancing /\ reports' # reports /\ reported' = breakpoint
        => session'.status = "paused" /\ session'.at = breakpoint]_breakpointVars
================================================================================

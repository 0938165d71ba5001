----------------------------- MODULE DebugSession -----------------------------
(***************************************************************************)
(* The cooperative debugger of one managed run (runner/debugger): the      *)
(* registered session, the reader that admits the child's safe points, the *)
(* writer that sends the renderer's controls, their 30-second timers, and  *)
(* the moments of the run's life that end the session.  The child is the   *)
(* environment: it may send any safe point of a control epoch it has been  *)
(* told of, in any order, or a line that does not parse.                   *)
(***************************************************************************)
EXTENDS Naturals, Sequences

CONSTANTS
    Workflows,      \* workflow ids the child reports
    Steps,          \* step ids the child reports
    MaxSequence,    \* MAX_DEBUG_EVENTS_PER_SESSION, 2000 in the code
    MaxEpoch,       \* bound on the controls the renderer queues
    ChannelCapacity \* slots of the control channel, 16 in the code

ASSUME DebugAssumption ==
    /\ MaxSequence \in Nat
    /\ MaxEpoch \in Nat
    /\ ChannelCapacity \in Nat \ {0}
    /\ "none" \notin Workflows

Actions == {"pause", "resume", "step", "stop"}
SafePointStates == {"running", "paused", "workflowCompleted", "workflowFailed"}
EndsWorkflow == {"workflowCompleted", "workflowFailed"}
Statuses == {"starting", "running", "paused", "completed", "failed", "stopped"}
TerminalStatuses == {"completed", "failed", "stopped"}

\* A safe point that parses.  Everything else a line can be (malformed, secret
\* bearing, an unknown parent step) is refused whatever the session's state.
Markers == [workflow : Workflows, step : Steps, sequence : 1..MaxSequence + 1,
            epoch : 0..MaxEpoch, state : SafePointStates]
NoMarker == [workflow |-> "none"]

VARIABLES
    \* the run's entry in the registry
    active, stopping, streamsCancelled, leaderExited, exitObservationFailed,
    \* DebugSessionState
    registered,        \* the session is in the DebugRegistry
    status, events, workflowSteps,
    controlEpoch, acknowledgedEpoch, pendingAction, pendingEpoch,
    activeWorkflow,
    \* the reader of stdout
    readerPc, line, protocolFailed,
    \* the control channel and its writer
    channel, writing, writerDone, delivered,
    \* timers of controls, by epoch
    timers,
    \* the renderer: the snapshot its next control is based on, and whether it
    \* has already based one on it
    viewSequence, viewEpoch, viewSpent

runEntry == <<active, stopping, streamsCancelled, leaderExited,
              exitObservationFailed>>
pending == <<pendingAction, pendingEpoch>>
accepted == <<events, workflowSteps, acknowledgedEpoch, activeWorkflow>>
reader == <<readerPc, line, protocolFailed>>
writer == <<writing, writerDone, delivered>>
view == <<viewSequence, viewEpoch, viewSpent>>
vars == <<runEntry, registered, status, accepted, controlEpoch, pending,
          reader, channel, writer, timers, view>>

TypeOK ==
    /\ active \in BOOLEAN /\ stopping \in BOOLEAN
    /\ streamsCancelled \in BOOLEAN /\ leaderExited \in BOOLEAN
    /\ exitObservationFailed \in BOOLEAN
    /\ registered \in BOOLEAN
    /\ status \in Statuses
    /\ events \in Seq([workflow : Workflows, epoch : 0..MaxEpoch,
                       state : SafePointStates])
    /\ Len(events) <= MaxSequence
    /\ workflowSteps \subseteq Workflows \X Steps
    /\ controlEpoch \in 0..MaxEpoch
    /\ acknowledgedEpoch \in 0..controlEpoch
    /\ pendingAction \in Actions \cup {"none"}
    /\ pendingEpoch \in 0..controlEpoch
    /\ activeWorkflow \in Workflows \cup {"none"}
    /\ readerPc \in {"idle", "holding", "rejected"}
    /\ line \in Markers \cup {NoMarker}
    /\ readerPc = "holding" => line \in Markers
    /\ protocolFailed \in BOOLEAN
    /\ channel \in Seq(1..controlEpoch) /\ Len(channel) <= ChannelCapacity
    /\ writing \in 0..controlEpoch /\ writerDone \in BOOLEAN
    /\ delivered \in 0..controlEpoch
    /\ timers \subseteq 1..controlEpoch
    /\ viewSequence \in 0..MaxSequence /\ viewEpoch \in 0..controlEpoch
    /\ viewSpent \in BOOLEAN

Init ==
    /\ active = TRUE /\ stopping = FALSE /\ streamsCancelled = FALSE
    /\ leaderExited = FALSE /\ exitObservationFailed = FALSE
    /\ registered = TRUE
    /\ status = "starting"
    /\ events = <<>> /\ workflowSteps = {}
    /\ controlEpoch = 0 /\ acknowledgedEpoch = 0
    /\ pendingAction = "none" /\ pendingEpoch = 0
    /\ activeWorkflow = "none"
    /\ readerPc = "idle" /\ line = NoMarker /\ protocolFailed = FALSE
    /\ channel = <<>> /\ writing = 0 /\ writerDone = FALSE /\ delivered = 0
    /\ timers = {}
    /\ viewSequence = 0 /\ viewEpoch = 0 /\ viewSpent = FALSE

Sequence == Len(events)
Terminal == status \in TerminalStatuses

\* session_matches, with the switch gate left out: a workspace is switched only
\* when no run is active.
SessionMatches == active /\ ~leaderExited /\ ~streamsCancelled

ClearPending == pendingAction' = "none" /\ pendingEpoch' = 0

\* control_failed: whatever the status was.
ControlFailed ==
    IF registered
    THEN status' = "failed" /\ ClearPending
    ELSE UNCHANGED <<status, pending>>

-------------------------------------------------------------------------------
(* the stdout reader *)

\* A debug line is read while the session is current; after the first rejection
\* debug lines are skipped unread.
ReadMarker(m) ==
    /\ readerPc = "idle"
    /\ ~protocolFailed
    /\ SessionMatches
    /\ m.epoch <= delivered
    /\ line' = m
    /\ readerPc' = "holding"
    /\ UNCHANGED <<runEntry, registered, status, accepted, controlEpoch,
                   pending, protocolFailed, channel, writer, timers, view>>

ReadMalformed ==
    /\ readerPc = "idle"
    /\ ~protocolFailed
    /\ SessionMatches
    /\ readerPc' = "rejected"
    /\ UNCHANGED <<runEntry, registered, status, accepted, controlEpoch,
                   pending, line, protocolFailed, channel, writer, timers,
                   view>>

Acknowledging(m) == pendingAction # "none" /\ m.epoch = pendingEpoch

\* What a safe point must report to acknowledge each control.
Acknowledges(m) ==
    pendingAction \in {"pause", "step"} => m.state \in {"paused"} \cup EndsWorkflow

\* Sequence numbers start at one, leave no gap and stop at the cap.
InOrder(m) == Sequence < MaxSequence /\ m.sequence = Sequence + 1

\* Seeded fault: any epoch the child was told of is current.
BlindOfCurrentEpoch(m) == TRUE

\* The third alternative of the code's test (in flight before a Pause or Stop
\* took effect) asks for the acknowledged epoch too, so it is part of the first.
OfCurrentEpoch(m) == m.epoch = acknowledgedEpoch \/ Acknowledging(m)

OfActiveWorkflow(m) ==
    /\ activeWorkflow \in {m.workflow, "none"}
    /\ activeWorkflow = "none" => m.state = "paused"

PauseHolds == status = "paused" /\ pendingAction = "none"

\* The early returns of DebugRegistry::accept.
Acceptable(m) ==
    /\ ~Terminal
    /\ InOrder(m)
    /\ OfCurrentEpoch(m)
    /\ <<m.workflow, m.step>> \notin workflowSteps
    /\ OfActiveWorkflow(m)
    /\ ~PauseHolds
    /\ Acknowledging(m) => Acknowledges(m)

\* The workflow that is active once m is accepted.
WorkflowAfter(m) == IF m.state \in EndsWorkflow THEN "none" ELSE m.workflow

Accept(m) ==
    /\ IF Acknowledging(m)
       THEN acknowledgedEpoch' = m.epoch /\ ClearPending
       ELSE UNCHANGED <<acknowledgedEpoch, pending>>
    /\ events' = Append(events, [workflow |-> m.workflow, epoch |-> m.epoch,
                                 state |-> m.state])
    /\ workflowSteps' = workflowSteps \cup {<<m.workflow, m.step>>}
    /\ activeWorkflow' = WorkflowAfter(m)
    /\ status' = IF m.state = "paused" THEN "paused" ELSE "running"

\* accept_debug_event, under the locks of the registry and of the debugger.
AcceptDebugEvent ==
    /\ readerPc = "holding"
    /\ SessionMatches
    /\ registered
    /\ Acceptable(line)
    /\ Accept(line)
    /\ readerPc' = "idle"
    /\ line' = NoMarker
    /\ UNCHANGED <<runEntry, registered, controlEpoch, protocolFailed, channel,
                   writer, timers, view>>

RejectDebugEvent ==
    /\ readerPc = "holding"
    /\ ~(SessionMatches /\ registered /\ Acceptable(line))
    /\ readerPc' = "rejected"
    /\ line' = NoMarker
    /\ UNCHANGED <<runEntry, registered, status, accepted, controlEpoch,
                   pending, protocolFailed, channel, writer, timers, view>>

\* Seeded fault: the rejection is only remembered by the reader.
SilentFailProtocol ==
    /\ readerPc = "rejected"
    /\ readerPc' = "idle"
    /\ protocolFailed' = TRUE
    /\ UNCHANGED <<runEntry, registered, status, accepted, controlEpoch,
                   pending, line, channel, writer, timers, view>>

\* The reader's answer to a rejected line: fail_debug_control.
FailProtocol ==
    /\ readerPc = "rejected"
    /\ ControlFailed
    /\ readerPc' = "idle"
    /\ protocolFailed' = TRUE
    /\ UNCHANGED <<runEntry, registered, accepted, controlEpoch, line, channel,
                   writer, timers, view>>

-------------------------------------------------------------------------------
(* controls: the renderer, the channel, the writer and the timers *)

\* get_debug_session.
GetDebugSession ==
    /\ registered
    /\ viewSequence' = Sequence
    /\ viewEpoch' = controlEpoch
    /\ viewSpent' = FALSE
    /\ UNCHANGED <<runEntry, registered, status, accepted, controlEpoch,
                   pending, reader, channel, writer, timers>>

\* Seeded fault: a control is matched by its sequence alone.
EpochBlindFresh(act) ==
    IF act \in {"pause", "stop"} THEN viewSequence <= Sequence
                                 ELSE viewSequence = Sequence

Fresh(act) ==
    /\ viewEpoch = controlEpoch
    /\ IF act \in {"pause", "stop"} THEN viewSequence <= Sequence
                                    ELSE viewSequence = Sequence

Allowed(act) ==
    CASE act = "pause" -> status = "running"
      [] act \in {"resume", "step"} -> status = "paused"
      [] act = "stop" -> ~Terminal

\* queue_debug_control, and the timer control_debug_session starts for every
\* control but Stop.  Stop is best effort here: request_process_stop follows.
QueueControl(act) ==
    /\ active /\ registered
    /\ Fresh(act)
    /\ ~Terminal
    /\ pendingAction = "none"
    /\ Allowed(act)
    /\ ~writerDone /\ Len(channel) < ChannelCapacity
    /\ controlEpoch < MaxEpoch
    /\ channel' = Append(channel, controlEpoch + 1)
    /\ timers' = IF act = "stop" THEN timers ELSE timers \cup {controlEpoch + 1}
    /\ controlEpoch' = controlEpoch + 1
    /\ pendingAction' = act
    /\ pendingEpoch' = controlEpoch + 1
    /\ viewSpent' = TRUE
    /\ UNCHANGED <<runEntry, registered, status, accepted, reader, writer,
                   viewSequence, viewEpoch>>

\* Seeded fault: the timer gives up silently.
IdleExpireControl(e) ==
    /\ e \in timers
    /\ timers' = timers \ {e}
    /\ UNCHANGED <<runEntry, registered, status, accepted, controlEpoch,
                   pending, reader, channel, writer, view>>

\* expire_debug_control, 30 seconds after the control was queued.
ExpireControl(e) ==
    /\ e \in timers
    /\ timers' = timers \ {e}
    /\ IF registered /\ ~Terminal /\ pendingEpoch = e
       THEN status' = "failed" /\ ClearPending
       ELSE UNCHANGED <<status, pending>>
    /\ UNCHANGED <<runEntry, registered, accepted, controlEpoch, reader,
                   channel, writer, view>>

\* The writer takes a control and checks the session before it writes.
TakeControl ==
    /\ writing = 0 /\ ~writerDone
    /\ channel # <<>>
    /\ channel' = Tail(channel)
    /\ writing' = IF SessionMatches THEN Head(channel) ELSE 0
    /\ writerDone' = ~SessionMatches
    /\ UNCHANGED <<runEntry, registered, status, accepted, controlEpoch,
                   pending, reader, delivered, timers, view>>

WriteControl ==
    /\ writing # 0
    /\ delivered' = writing
    /\ writing' = 0
    /\ UNCHANGED <<runEntry, registered, status, accepted, controlEpoch,
                   pending, reader, channel, writerDone, timers, view>>

\* The child has closed its end of the pipe: fail_debug_control.
WriteFails ==
    /\ writing # 0
    /\ ControlFailed
    /\ writing' = 0
    /\ writerDone' = TRUE
    /\ UNCHANGED <<runEntry, registered, accepted, controlEpoch, reader,
                   channel, delivered, timers, view>>

WriterCancelled ==
    /\ writing = 0 /\ ~writerDone
    /\ streamsCancelled
    /\ writerDone' = TRUE
    /\ UNCHANGED <<runEntry, registered, status, accepted, controlEpoch,
                   pending, reader, channel, writing, delivered, timers, view>>

-------------------------------------------------------------------------------
(* The run: what RunSupervision does to one entry, seen from the session.     *)
(* Whether a KILL was delivered before the watcher reported is left open.     *)

session == <<registered, status, accepted, controlEpoch, pending, reader,
             channel, writer, timers, view>>

MarkStopping ==
    /\ active
    /\ stopping' = TRUE
    /\ UNCHANGED <<active, streamsCancelled, leaderExited,
                   exitObservationFailed, session>>

ConfirmStopping ==
    /\ active /\ stopping
    /\ streamsCancelled' = TRUE
    /\ UNCHANGED <<active, stopping, leaderExited, exitObservationFailed,
                   session>>

CancelStopping ==
    /\ active /\ stopping
    /\ stopping' = FALSE
    /\ active' = ~leaderExited
    /\ UNCHANGED <<streamsCancelled, leaderExited, exitObservationFailed,
                   session>>

CompleteStopEscalation ==
    /\ active /\ stopping
    /\ leaderExited \/ exitObservationFailed
    /\ active' = FALSE
    /\ UNCHANGED <<stopping, streamsCancelled, leaderExited,
                   exitObservationFailed, session>>

\* process_exited: a terminal session only loses its pending control.  The
\* session of an active run is in the registry.
ProcessExited ==
    /\ status' = IF Terminal THEN status
                 ELSE IF stopping THEN "stopped"
                 ELSE IF events = <<>> \/ activeWorkflow # "none" THEN "failed"
                 ELSE "completed"
    /\ ClearPending

RecordLeaderExit ==
    /\ active /\ ~leaderExited /\ ~exitObservationFailed
    /\ leaderExited' = TRUE
    /\ streamsCancelled' = TRUE
    /\ active' \in {FALSE, stopping}
    /\ ProcessExited
    /\ UNCHANGED <<stopping, exitObservationFailed, registered, accepted,
                   controlEpoch, reader, channel, writer, timers, view>>

RecordWaitFailure ==
    /\ active /\ ~leaderExited /\ ~exitObservationFailed
    /\ exitObservationFailed' = TRUE
    /\ active' \in {TRUE, ~stopping}
    /\ ControlFailed
    /\ UNCHANGED <<stopping, streamsCancelled, leaderExited, registered,
                   accepted, controlEpoch, reader, channel, writer, timers,
                   view>>

\* The session leaves the registry: complete_workspace_switch clears it, or
\* the start of a ninth debug session evicts the oldest.
ForgetSession ==
    /\ ~active
    /\ registered
    /\ registered' = FALSE
    /\ UNCHANGED <<runEntry, status, accepted, controlEpoch, pending, reader,
                   channel, writer, timers, view>>

-------------------------------------------------------------------------------
ReaderStep ==
    \/ \E m \in Markers : ReadMarker(m)
    \/ ReadMalformed \/ AcceptDebugEvent \/ RejectDebugEvent \/ FailProtocol

ControlStep ==
    \/ GetDebugSession
    \/ \E act \in Actions : QueueControl(act)
    \/ \E e \in 1..MaxEpoch : ExpireControl(e)
    \/ TakeControl \/ WriteControl \/ WriteFails \/ WriterCancelled

RunStep ==
    \/ MarkStopping \/ ConfirmStopping \/ CancelStopping
    \/ CompleteStopEscalation \/ RecordLeaderExit \/ RecordWaitFailure
    \/ ForgetSession

Next == ReaderStep \/ ControlStep \/ RunStep

Spec == Init /\ [][Next]_vars

\* The reader finishes with the line it holds, and every timer fires.  The
\* child, the renderer and the pipe to the child's stdin are under no
\* obligation.
Fairness ==
    /\ WF_vars(AcceptDebugEvent \/ RejectDebugEvent \/ FailProtocol)
    /\ \A e \in 1..MaxEpoch : WF_vars(ExpireControl(e))

FairSpec == Spec /\ Fairness

-------------------------------------------------------------------------------
(* Properties *)

\* docs/INSTRUMENTED_DEBUGGER.md, line 109: control-epoch progression.  The
\* accepted safe points never go back to an earlier epoch, nor ahead of what
\* was acknowledged, whatever races the acknowledgement.
EpochProgression ==
    /\ \A i, j \in 1..Sequence : i <= j => events[i].epoch <= events[j].epoch
    /\ \A i \in 1..Sequence : events[i].epoch <= acknowledgedEpoch

\* Line 110: one active workflow.  The accepted safe points fall into runs of
\* one workflow each, opened by a pause and closed by its end.
SerialWorkflows ==
    \A i \in 1..Sequence :
        LET opens == i = 1 \/ events[i - 1].state \in EndsWorkflow IN
        IF opens THEN events[i].state = "paused"
                 ELSE events[i].workflow = events[i - 1].workflow

\* A workflow that follows another is opened by a pause of its own although the
\* status may still be "running": the reported one can always be identified.
ActiveWorkflowIsReported ==
    activeWorkflow =
        IF Sequence = 0 \/ events[Sequence].state \in EndsWorkflow
        THEN "none" ELSE events[Sequence].workflow

\* One pending cooperative control at a time (line 61): what waits in the
\* channel or in the writer is the pending control, so the bounded channel
\* never refuses one while the session lives.
ChannelHoldsThePending ==
    /\ Len(channel) <= 1
    /\ ~Terminal /\ channel # <<>> => channel[1] = pendingEpoch
    /\ ~Terminal /\ writing # 0 => writing = pendingEpoch

\* debugger/README.md, lines 38 to 40: `stopped`, and `completed` too, are
\* reported only after the leader's exit was observed.
EndIsObserved == status \in {"stopped", "completed"} => leaderExited

\* A child that reported a pause moves on only under a control that was queued
\* after the epoch of that pause.
PausedChildNeedsAControl ==
    [][Sequence > 0 /\ events[Sequence].state = "paused" /\ events' # events
         => controlEpoch > events[Sequence].epoch]_vars

\* Lines 114 to 116: the debugger protocol fails closed.  A late
\* acknowledgement held by the reader while a timer, a rejection or the writer
\* fails the session is not admitted, and no control is queued either.
FailedClosed ==
    [][status = "failed" => events' = events /\ controlEpoch' = controlEpoch]_vars

\* The timer of a control that was acknowledged in time never fails the
\* session, whatever control is pending when it fires.
TimeoutIsOfItsControl ==
    [][\A e \in timers \ timers' :
          ~Terminal /\ status' = "failed" => acknowledgedEpoch < e]_vars

\* A control is accepted once per snapshot the renderer has read: a second
\* click on the same view is refused.
OneControlPerSnapshot == [][viewSpent => controlEpoch' = controlEpoch]_vars

\* What a control is worth, whichever thread is late: a paused child moves only
\* under one, a snapshot is good for one, a failed session takes none, and only
\* its own timer fails the session for it.
ControlDiscipline ==
    PausedChildNeedsAControl /\ OneControlPerSnapshot /\ FailedClosed /\ TimeoutIsOfItsControl

\* Lines 61 to 63: a control of the renderer (Stop has the process stop behind
\* it) is acknowledged, or fails the session when its 30 seconds are over.
ControlResolves ==
    \A e \in 1..MaxEpoch :
        (pendingEpoch = e /\ pendingAction # "stop") ~> (pendingEpoch # e)

\* A rejected line ends the session, even though the reader lets go of the lock
\* between the rejection and the failure.
RejectionFails == (readerPc = "rejected") ~> (status = "failed" \/ ~registered)

-------------------------------------------------------------------------------
(* The inductive invariant behind the safety properties *)

\* A control is pending with an epoch that nothing has acknowledged yet.
EpochInv ==
    /\ EpochProgression
    /\ pendingAction = "none" <=> pendingEpoch = 0
    /\ pendingEpoch # 0 => acknowledgedEpoch < pendingEpoch
    /\ viewSpent => viewEpoch < controlEpoch

\* The history is serial, and the session knows which workflow is open in it.
WorkflowInv == SerialWorkflows /\ ActiveWorkflowIsReported

\* A live session whose last safe point is a pause has the status of one.
PauseInv ==
    ~Terminal /\ Sequence > 0 /\ events[Sequence].state = "paused"
        => status = "paused"

\* The control on its way to the child is newer than what the child was told,
\* and so than any line it can have written.
ChannelInv ==
    /\ ChannelHoldsThePending
    /\ channel # <<>> => writing = 0 /\ delivered < channel[1]
    /\ writing # 0 => delivered < writing
    /\ readerPc = "holding" => line.epoch <= delivered

\* Between any two steps of the reader, the writer, the timers and the run:
\* the epochs of what was accepted, acknowledged, delivered and queued are in
\* this order, and the status tells what the accepted safe points and the run
\* are (registry.rs, accept to process_exited).  It is inductive.
SessionInv ==
    EpochInv /\ WorkflowInv /\ PauseInv /\ ChannelInv /\ EndIsObserved

===============================================================================

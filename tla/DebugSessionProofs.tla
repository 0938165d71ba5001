-------------------------- MODULE DebugSessionProofs --------------------------
(***************************************************************************)
(* Theorems about the cooperative debugger's session, for any workflows,   *)
(* steps, bounds and capacity of the control channel.                      *)
(***************************************************************************)
EXTENDS DebugSession, SequenceTheorems, TLAPS

\* What is kept of an accepted safe point.
Event == [workflow : Workflows, epoch : 0..MaxEpoch, state : SafePointStates]

\* The two halves of TypeOK: the flags, and the rest.
Flags ==
    /\ active \in BOOLEAN /\ stopping \in BOOLEAN
    /\ streamsCancelled \in BOOLEAN /\ leaderExited \in BOOLEAN
    /\ exitObservationFailed \in BOOLEAN
    /\ registered \in BOOLEAN
    /\ protocolFailed \in BOOLEAN
    /\ writerDone \in BOOLEAN
    /\ viewSpent \in BOOLEAN

\* The rest: epochs, queues, the history and the line.
Data ==
    /\ status \in Statuses
    /\ events \in Seq(Event)
    /\ Len(events) <= MaxSequence
    /\ workflowSteps \subseteq Workflows \X Steps
    /\ controlEpoch \in 0..MaxEpoch
    /\ acknowledgedEpoch \in 0..controlEpoch
    /\ pendingAction \in Actions \cup {"none"}
    /\ pendingEpoch \in 0..controlEpoch
    /\ activeWorkflow \in Workflows \cup {"none"}
    /\ readerPc \in {"idle", "holding", "rejected"}
    /\ line \in Markers \cup {NoMarker}
    /\ readerPc = "holding" => line \in Markers
    /\ channel \in Seq(1..controlEpoch) /\ Len(channel) <= ChannelCapacity
    /\ writing \in 0..controlEpoch
    /\ delivered \in 0..controlEpoch
    /\ timers \subseteq 1..controlEpoch
    /\ viewSequence \in 0..MaxSequence /\ viewEpoch \in 0..controlEpoch

\* The type invariant is its two halves, which different provers can handle.
LEMMA TypeHalves == TypeOK <=> Flags /\ Data
  BY Zenon DEF TypeOK, Flags, Data, Event

\* The type of a channel grows with the epoch.
LEMMA ChannelGrows ==
    ASSUME NEW n \in Nat, NEW s \in Seq(1..n)
    PROVE  /\ s \in Seq(1..n + 1)
           /\ Append(s, n + 1) \in Seq(1..n + 1)
           /\ Len(Append(s, n + 1)) = Len(s) + 1
  <1>1. \A i \in 1..Len(s) : s[i] \in 1..n + 1
    <2>1. \A i \in 1..Len(s) : s[i] \in 1..n
      BY ElementOfSeq
    <2> QED
      BY <2>1
  <1>2. s \in Seq(1..n + 1)
    BY <1>1, SeqMonotonic
  <1> QED
    BY <1>2

\* The tail of the channel stays in its type.
LEMMA ChannelShrinks ==
    ASSUME NEW n \in Nat, NEW s \in Seq(1..n), s # <<>>
    PROVE  /\ Head(s) = s[1] /\ Head(s) \in 1..n
           /\ Tail(s) \in Seq(1..n) /\ Len(Tail(s)) = Len(s) - 1
  BY HeadTailProperties

\* A channel of at most one control is empty once it is taken.
LEMMA OnlyOne ==
    ASSUME NEW n \in Nat, NEW s \in Seq(1..n), s # <<>>, Len(s) <= 1
    PROVE  Head(s) = s[1] /\ Tail(s) = <<>> /\ Len(Tail(s)) = 0
  <1>1. /\ Head(s) = s[1] /\ Tail(s) \in Seq(1..n)
        /\ Len(Tail(s)) = Len(s) - 1 /\ Len(s) \in Nat
    BY ChannelShrinks, LenProperties
  <1>2. Len(Tail(s)) \in Nat
    BY <1>1, LenProperties
  <1>3. Len(Tail(s)) = 0
    BY <1>1, <1>2, SMT
  <1> QED
    BY <1>1, <1>3, EmptySeq, Zenon

\* The flags of the run and of the session stay Boolean.
LEMMA FlagsStep == Flags /\ [Next]_vars => Flags'
  <1> SUFFICES ASSUME Flags, [Next]_vars PROVE Flags'
    OBVIOUS
  <1> USE DEF Flags, runEntry, reader, writer, view
  <1>1. ASSUME NEW m \in Markers, ReadMarker(m) PROVE Flags'
    BY <1>1, Zenon DEF ReadMarker
  <1>2. ASSUME NEW act \in Actions, QueueControl(act) PROVE Flags'
    BY <1>2, Zenon DEF QueueControl
  <1>3. ASSUME NEW x \in 1..MaxEpoch, ExpireControl(x) PROVE Flags'
    BY <1>3, Zenon DEF ExpireControl
  <1>4. CASE AcceptDebugEvent
    BY <1>4, Zenon DEF AcceptDebugEvent
  <1>5. CASE ReadMalformed
    BY <1>5, Zenon DEF ReadMalformed
  <1>6. CASE RejectDebugEvent
    BY <1>6, Zenon DEF RejectDebugEvent
  <1>7. CASE FailProtocol
    BY <1>7, Zenon DEF FailProtocol
  <1>8. CASE GetDebugSession
    BY <1>8, Zenon DEF GetDebugSession
  <1>9. CASE TakeControl
    BY <1>9, Zenon DEF TakeControl
  <1>10. CASE WriteControl
    BY <1>10, Zenon DEF WriteControl
  <1>11. CASE WriteFails
    BY <1>11, Zenon DEF WriteFails
  <1>12. CASE WriterCancelled
    BY <1>12, Zenon DEF WriterCancelled
  <1>13. CASE MarkStopping
    BY <1>13, Zenon DEF MarkStopping, session
  <1>14. CASE ConfirmStopping
    BY <1>14, Zenon DEF ConfirmStopping, session
  <1>15. CASE CancelStopping
    BY <1>15, Zenon DEF CancelStopping, session
  <1>16. CASE CompleteStopEscalation
    BY <1>16, Zenon DEF CompleteStopEscalation, session
  <1>17. CASE RecordLeaderExit
    BY <1>17, Zenon DEF RecordLeaderExit
  <1>18. CASE RecordWaitFailure
    BY <1>18, Zenon DEF RecordWaitFailure
  <1>19. CASE ForgetSession
    BY <1>19, Zenon DEF ForgetSession
  <1>20. CASE UNCHANGED vars
    BY <1>20, Zenon DEF vars
  <1> QED
    BY <1>1, <1>2, <1>3, <1>4, <1>5, <1>6, <1>7, <1>8, <1>9, <1>10, <1>11, <1>12, <1>13,
       <1>14, <1>15, <1>16, <1>17, <1>18, <1>19,
       <1>20 DEF Next, ReaderStep, ControlStep, RunStep

\* So do the epochs, the channel, the accepted safe points and the rest.
LEMMA DataStep == Data /\ [Next]_vars => Data'
  <1> SUFFICES ASSUME Data, [Next]_vars PROVE Data'
    OBVIOUS
  <1> USE DebugAssumption DEF Data, accepted, pending, reader, writer, view
  <1>1. ASSUME NEW m \in Markers, ReadMarker(m) PROVE Data'
    BY <1>1, SMT DEF ReadMarker
  <1>2. CASE AcceptDebugEvent
    <2> DEFINE e == [workflow |-> line.workflow, epoch |-> line.epoch,
                     state |-> line.state]
    <2>1. line \in Markers /\ e \in Event
      BY <1>2, SMT DEF AcceptDebugEvent, Markers, Event
    <2>2. events' = Append(events, e) /\ Len(events) < MaxSequence
      BY <1>2 DEF AcceptDebugEvent, Acceptable, InOrder, Accept, Sequence
    <2>3. events' \in Seq(Event) /\ Len(events') <= MaxSequence
      BY <2>1, <2>2, SMT
    <2>4. acknowledgedEpoch' \in 0..controlEpoch /\ pendingEpoch' \in 0..controlEpoch
      BY <1>2, <2>1, SMT DEF AcceptDebugEvent, Accept, Acknowledging, ClearPending
    <2>5. /\ pendingAction' \in Actions \cup {"none"}
          /\ status' \in Statuses
          /\ activeWorkflow' \in Workflows \cup {"none"}
          /\ workflowSteps' \subseteq Workflows \X Steps
      BY <1>2, <2>1, SMT
      DEF AcceptDebugEvent, Accept, ClearPending, WorkflowAfter, Statuses, Markers
    <2> QED
      BY <1>2, <2>3, <2>4, <2>5, SMT DEF AcceptDebugEvent
  <1>3. ASSUME NEW act \in Actions, QueueControl(act) PROVE Data'
    <2>1. /\ channel' \in Seq(1..controlEpoch + 1)
          /\ Len(channel') <= ChannelCapacity
      BY <1>3, ChannelGrows, SMT DEF QueueControl
    <2> QED
      BY <1>3, <2>1, SMT DEF QueueControl
  <1>4. ASSUME NEW x \in 1..MaxEpoch, ExpireControl(x) PROVE Data'
    BY <1>4, SMT DEF ExpireControl, ClearPending, Statuses
  <1>5. CASE ReadMalformed
    BY <1>5, SMT DEF ReadMalformed
  <1>6. CASE RejectDebugEvent
    BY <1>6, SMT DEF RejectDebugEvent
  <1>7. CASE FailProtocol
    BY <1>7, SMT DEF FailProtocol, ControlFailed, ClearPending, Statuses
  <1>8. CASE GetDebugSession
    BY <1>8, SMT DEF GetDebugSession, Sequence
  <1>9. CASE TakeControl
    <2>1. /\ Head(channel) \in 1..controlEpoch
          /\ Tail(channel) \in Seq(1..controlEpoch)
          /\ Len(Tail(channel)) <= ChannelCapacity
      BY <1>9, ChannelShrinks, SMT DEF TakeControl
    <2> QED
      BY <1>9, <2>1, SMT DEF TakeControl
  <1>10. CASE WriteControl
    BY <1>10, SMT DEF WriteControl
  <1>11. CASE WriteFails
    BY <1>11, SMT DEF WriteFails, ControlFailed, ClearPending, Statuses
  <1>12. CASE WriterCancelled
    BY <1>12, SMT DEF WriterCancelled
  <1>13. CASE MarkStopping
    BY <1>13, SMT DEF MarkStopping, session
  <1>14. CASE ConfirmStopping
    BY <1>14, SMT DEF ConfirmStopping, session
  <1>15. CASE CancelStopping
    BY <1>15, SMT DEF CancelStopping, session
  <1>16. CASE CompleteStopEscalation
    BY <1>16, SMT DEF CompleteStopEscalation, session
  <1>17. CASE RecordLeaderExit
    BY <1>17, SMT DEF RecordLeaderExit, ProcessExited, ClearPending, Statuses
  <1>18. CASE RecordWaitFailure
    BY <1>18, SMT DEF RecordWaitFailure, ControlFailed, ClearPending, Statuses
  <1>19. CASE ForgetSession
    BY <1>19, SMT DEF ForgetSession
  <1>20. CASE UNCHANGED vars
    BY <1>20, Zenon DEF vars
  <1> QED
    BY <1>1, <1>2, <1>3, <1>4, <1>5, <1>6, <1>7, <1>8, <1>9, <1>10, <1>11, <1>12, <1>13, <1>14,
       <1>15, <1>16, <1>17, <1>18, <1>19, <1>20
       DEF Next, ReaderStep, ControlStep, RunStep

\* The session's state keeps its types (runner/debugger/registry.rs), and the
\* line a reader holds between two locks is one that parsed.
THEOREM TypeCorrect == Spec => []TypeOK
  <1>1. Init => Flags
    BY Zenon DEF Init, Flags
  <1>2. Init => Data
    <2>1. /\ <<>> \in Seq(Event) /\ <<>> \in Seq(1..0)
          /\ Len(<<>>) = 0
      OBVIOUS
    <2> SUFFICES ASSUME Init PROVE Data
      OBVIOUS
    <2> QED
      BY <2>1, DebugAssumption, SMT DEF Init, Data, Statuses
  <1> QED
    BY <1>1, <1>2, FlagsStep, DataStep, TypeHalves, PTL DEF Spec

\* A safe point that is accepted extends the history as it must, and the
\* control it acknowledges is no longer on its way.
LEMMA AcceptStep == Data /\ SessionInv /\ AcceptDebugEvent => SessionInv'
  <1> SUFFICES ASSUME Data, SessionInv, AcceptDebugEvent PROVE SessionInv'
    OBVIOUS
  <1> DEFINE n == Len(events)
             e == [workflow |-> line.workflow, epoch |-> line.epoch,
                   state |-> line.state]
  <1> USE DebugAssumption
  <1>1. /\ line \in Markers /\ line.epoch \in Nat
        /\ e \in Event
        /\ ~Terminal /\ ~PauseHolds
        /\ OfCurrentEpoch(line) /\ OfActiveWorkflow(line)
        /\ line.epoch <= delivered
    BY SMT DEF AcceptDebugEvent, Acceptable, Data, Markers, Event, SessionInv, ChannelInv
  <1>2. /\ events' = Append(events, e)
        /\ n \in Nat /\ Len(events') = n + 1
        /\ \A i \in 1..n : events'[i] = events[i]
        /\ events'[n + 1] = e
        /\ \A i \in 1..n : events[i] \in Event
    <2>1. events' = Append(events, e) /\ events \in Seq(Event)
      BY DEF AcceptDebugEvent, Accept, Data
    <2> QED
      BY <1>1, <2>1, SMT
  <1>3. /\ acknowledgedEpoch \in Nat /\ pendingEpoch \in Nat /\ controlEpoch \in Nat
        /\ acknowledgedEpoch <= acknowledgedEpoch'
        /\ acknowledgedEpoch' = line.epoch
        /\ \/ /\ line.epoch = pendingEpoch /\ pendingEpoch # 0
              /\ pendingEpoch' = 0 /\ pendingAction' = "none"
           \/ UNCHANGED <<pendingAction, pendingEpoch>> /\ line.epoch = acknowledgedEpoch
    BY <1>1, SMT DEF AcceptDebugEvent, Accept, Acknowledging, ClearPending, OfCurrentEpoch,
                     SessionInv, EpochInv, Data, pending
  <1>4. EpochInv'
    <2>1. EpochProgression'
      <3>1. \A i \in 1..n : events[i].epoch <= acknowledgedEpoch
        BY DEF SessionInv, EpochInv, EpochProgression, Sequence
      <3>2. \A i, j \in 1..n : i <= j => events[i].epoch <= events[j].epoch
        BY DEF SessionInv, EpochInv, EpochProgression, Sequence
      <3>3. \A i \in 1..n : events[i].epoch \in Nat
        BY <1>2, SMT DEF Event
      <3>4. \A i \in 1..n + 1 : events'[i].epoch <= acknowledgedEpoch'
        BY <1>1, <1>2, <1>3, <3>1, <3>3, SMT
      <3>5. \A i, j \in 1..n + 1 : i <= j => events'[i].epoch <= events'[j].epoch
        BY <1>1, <1>2, <1>3, <3>2, <3>3, <3>4, SMT
      <3> QED
        BY <1>2, <3>4, <3>5 DEF EpochProgression, Sequence
    <2>2. /\ (pendingAction = "none" <=> pendingEpoch = 0)'
          /\ (pendingEpoch # 0 => acknowledgedEpoch < pendingEpoch)'
      BY <1>3, SMT DEF SessionInv, EpochInv
    <2>3. (viewSpent => viewEpoch < controlEpoch)'
      BY DEF AcceptDebugEvent, view, SessionInv, EpochInv
    <2> QED
      BY <2>1, <2>2, <2>3 DEF EpochInv
  <1>5. WorkflowInv'
    <2>1. activeWorkflow = IF n = 0 \/ events[n].state \in EndsWorkflow
                           THEN "none" ELSE events[n].workflow
      BY DEF SessionInv, WorkflowInv, ActiveWorkflowIsReported, Sequence
    <2>2. IF n = 0 \/ events[n].state \in EndsWorkflow
          THEN line.state = "paused" ELSE line.workflow = events[n].workflow
      BY <1>1, <1>2, <2>1, SMT DEF OfActiveWorkflow, Event
    <2>3. SerialWorkflows'
      <3>1. ASSUME NEW i \in 1..n + 1
            PROVE  IF i = 1 \/ events'[i - 1].state \in EndsWorkflow
                   THEN events'[i].state = "paused"
                   ELSE events'[i].workflow = events'[i - 1].workflow
        <4>1. CASE i = n + 1
          BY <1>2, <2>2, <4>1, SMT
        <4>2. CASE i \in 1..n
          <5>1. events'[i] = events[i] /\ (i # 1 => events'[i - 1] = events[i - 1])
            BY <1>2, <4>2, SMT
          <5>2. IF i = 1 \/ events[i - 1].state \in EndsWorkflow
                THEN events[i].state = "paused"
                ELSE events[i].workflow = events[i - 1].workflow
            BY <4>2 DEF SessionInv, WorkflowInv, SerialWorkflows, Sequence
          <5> QED
            BY <5>1, <5>2, SMT
        <4> QED
          BY <1>2, <4>1, <4>2, SMT
      <3> QED
        BY <1>2, <3>1 DEF SerialWorkflows, Sequence
    <2>4. ActiveWorkflowIsReported'
      BY <1>2, SMT DEF AcceptDebugEvent, Accept, WorkflowAfter, ActiveWorkflowIsReported, Sequence
    <2> QED
      BY <2>3, <2>4 DEF WorkflowInv
  <1>6. PauseInv'
    BY <1>2, SMT DEF AcceptDebugEvent, Accept, PauseInv, Sequence
  <1>7. ChannelInv'
    <2>1. UNCHANGED <<channel, writing, delivered>> /\ readerPc' = "idle"
      BY DEF AcceptDebugEvent, writer
    <2>2. /\ channel # <<>> => channel[1] = pendingEpoch /\ delivered < channel[1]
          /\ writing # 0 => writing = pendingEpoch /\ delivered < writing
          /\ Len(channel) <= 1 /\ (channel # <<>> => writing = 0)
      BY <1>1 DEF SessionInv, ChannelInv, ChannelHoldsThePending
    <2>3. delivered \in Nat
      BY SMT DEF Data
    <2>4. \/ channel = <<>> /\ writing = 0
          \/ pendingEpoch' = pendingEpoch
      BY <1>1, <1>3, <2>2, <2>3, SMT
    <2> QED
      BY <2>1, <2>2, <2>4, SMT DEF ChannelInv, ChannelHoldsThePending
  <1>8. EndIsObserved'
    BY SMT DEF AcceptDebugEvent, Accept, EndIsObserved
  <1> QED
    BY <1>4, <1>5, <1>6, <1>7, <1>8 DEF SessionInv

\* What has been accepted is untouched by every other step.
LEMMA HistoryKept ==
    ASSUME SessionInv, UNCHANGED accepted PROVE EpochProgression' /\ WorkflowInv'
  BY Zenon DEF SessionInv, EpochInv, EpochProgression, WorkflowInv, SerialWorkflows,
         ActiveWorkflowIsReported, Sequence, accepted

\* A step that can at most end the session, or let go of its pending control,
\* of the control being written or of the line being held.
EndsAtMost ==
    /\ UNCHANGED <<accepted, controlEpoch, channel, delivered>>
    /\ writing' \in {0, writing}
    /\ readerPc' = "holding" => UNCHANGED reader
    /\ UNCHANGED view \/ viewSpent' = FALSE
    /\ \/ UNCHANGED <<status, pending>>
       \/ /\ status' \in TerminalStatuses
          /\ pendingAction' = "none" /\ pendingEpoch' = 0
    /\ status' \in {status, "failed"} \/ leaderExited'
    /\ leaderExited => leaderExited'

\* Such a step keeps the invariant.
LEMMA EndStep == SessionInv /\ EndsAtMost => SessionInv'
  <1> SUFFICES ASSUME SessionInv, EndsAtMost PROVE SessionInv'
    OBVIOUS
  <1>1. EpochProgression' /\ WorkflowInv'
    BY HistoryKept DEF EndsAtMost
  <1>2. EpochInv'
    <2>1. /\ (pendingAction = "none" <=> pendingEpoch = 0)'
          /\ (pendingEpoch # 0 => acknowledgedEpoch < pendingEpoch)'
      BY SMT DEF SessionInv, EpochInv, EndsAtMost, accepted, pending
    <2>2. (viewSpent => viewEpoch < controlEpoch)'
      BY Zenon DEF SessionInv, EpochInv, EndsAtMost, view
    <2> QED
      BY <1>1, <2>1, <2>2 DEF EpochInv
  <1>3. PauseInv'
    BY Zenon DEF SessionInv, PauseInv, EndsAtMost, accepted, pending, Terminal, Sequence
  <1>4. ChannelInv'
    BY SMT DEF SessionInv, ChannelInv, ChannelHoldsThePending, EndsAtMost, Terminal,
               TerminalStatuses, reader, pending
  <1>5. EndIsObserved'
    BY SMT DEF SessionInv, EndIsObserved, EndsAtMost
  <1> QED
    BY <1>1, <1>2, <1>3, <1>4, <1>5 DEF SessionInv

\* Every step but those that admit a line, queue a control or carry one to the
\* child is such a step.
LEMMA EndSteps ==
    ASSUME Flags, Data,
           \/ ReadMalformed \/ RejectDebugEvent \/ FailProtocol
           \/ GetDebugSession \/ (\E e \in 1..MaxEpoch : ExpireControl(e))
           \/ WriteFails \/ WriterCancelled \/ RunStep \/ UNCHANGED vars
    PROVE  EndsAtMost
  <1> USE DEF EndsAtMost, TerminalStatuses
  <1>1. CASE ReadMalformed
    BY <1>1, Zenon DEF ReadMalformed, writer, runEntry
  <1>2. CASE RejectDebugEvent
    BY <1>2, Zenon DEF RejectDebugEvent, writer, runEntry
  <1>3. CASE FailProtocol
    BY <1>3, Zenon DEF FailProtocol, ControlFailed, ClearPending, writer, runEntry
  <1>4. CASE GetDebugSession
    BY <1>4, Zenon DEF GetDebugSession, writer, runEntry
  <1>5. ASSUME NEW e \in 1..MaxEpoch, ExpireControl(e) PROVE EndsAtMost
    BY <1>5, Zenon DEF ExpireControl, ClearPending, writer, runEntry
  <1>6. CASE WriteFails
    BY <1>6, Zenon DEF WriteFails, ControlFailed, ClearPending, runEntry
  <1>7. CASE WriterCancelled
    BY <1>7, Zenon DEF WriterCancelled, runEntry
  <1>8. CASE RunStep
    <2>1. CASE MarkStopping \/ ConfirmStopping \/ CancelStopping \/ CompleteStopEscalation
      <3>1. UNCHANGED session /\ UNCHANGED leaderExited
        BY <2>1, Zenon DEF MarkStopping, ConfirmStopping, CancelStopping, CompleteStopEscalation
      <3> QED
        BY <3>1, Zenon DEF session, writer
    <2>2. CASE RecordLeaderExit
      BY <2>2, Zenon DEF RecordLeaderExit, ProcessExited, ClearPending, Terminal, writer
    <2>3. CASE RecordWaitFailure
      BY <2>3, Zenon DEF RecordWaitFailure, ControlFailed, ClearPending, writer
    <2>4. CASE ForgetSession
      BY <2>4, Zenon DEF ForgetSession, runEntry, writer
    <2> QED
      BY <1>8, <2>1, <2>2, <2>3, <2>4 DEF RunStep
  <1>9. CASE UNCHANGED vars
    BY <1>9, Zenon DEF vars, runEntry, writer
  <1> QED
    BY <1>1, <1>2, <1>3, <1>4, <1>5, <1>6, <1>7, <1>8, <1>9

\* A control is queued with the next epoch, when none is on its way.
LEMMA QueueStep ==
    ASSUME Data, SessionInv, NEW act \in Actions, QueueControl(act)
    PROVE  SessionInv'
  <1>1. EpochProgression' /\ WorkflowInv'
    BY HistoryKept DEF QueueControl
  <1>2. /\ ~Terminal /\ pendingEpoch = 0
        /\ controlEpoch \in Nat /\ acknowledgedEpoch \in 0..controlEpoch
        /\ delivered \in 0..controlEpoch /\ writing \in 0..controlEpoch
        /\ channel \in Seq(1..controlEpoch)
    BY SMT DEF QueueControl, SessionInv, EpochInv, Data
  <1>3. channel = <<>> /\ writing = 0
    <2>1. channel # <<>> => channel[1] = 0 /\ 1 \in 1..Len(channel)
      BY <1>2, SMT DEF SessionInv, ChannelInv, ChannelHoldsThePending
    <2> QED
      BY <1>2, <2>1, SMT DEF SessionInv, ChannelInv, ChannelHoldsThePending
  <1>4. EpochInv'
    BY <1>1, <1>2, SMT DEF QueueControl, SessionInv, EpochInv, accepted, Actions, Fresh
  <1>5. PauseInv'
    BY Zenon DEF QueueControl, SessionInv, PauseInv, accepted, Terminal, Sequence
  <1>6. ChannelInv'
    BY <1>2, <1>3, SMT DEF QueueControl, SessionInv, ChannelInv, ChannelHoldsThePending,
                           reader, writer
  <1>7. EndIsObserved'
    BY Zenon DEF QueueControl, SessionInv, EndIsObserved, runEntry
  <1> QED
    BY <1>1, <1>4, <1>5, <1>6, <1>7 DEF SessionInv

\* What goes over the pipe to the child, and what comes back: the child can
\* only write a line of an epoch it was told of.
LEMMA WireStep ==
    ASSUME Flags, Data, SessionInv,
           TakeControl \/ WriteControl \/ (\E m \in Markers : ReadMarker(m))
    PROVE  SessionInv'
  <1>1. /\ UNCHANGED <<accepted, controlEpoch, status, leaderExited>>
        /\ UNCHANGED <<pendingAction, pendingEpoch, viewEpoch, viewSpent>>
    BY Zenon DEF TakeControl, WriteControl, ReadMarker, runEntry, pending, view
  <1>2. EpochProgression' /\ WorkflowInv'
    BY <1>1, HistoryKept
  <1>3. EpochInv'
    BY <1>1, <1>2, Zenon DEF SessionInv, EpochInv, accepted
  <1>4. PauseInv'
    BY <1>1, Zenon DEF SessionInv, PauseInv, accepted, Terminal, Sequence
  <1>5. ChannelInv'
    <2> USE DEF SessionInv, ChannelInv, ChannelHoldsThePending, Terminal
    <2>1. CASE TakeControl
      <3>1. /\ channel' = <<>> /\ Len(channel') = 0
            /\ writing' \in {0, channel[1]}
        <4>1. channel \in Seq(1..controlEpoch) /\ controlEpoch \in Nat
          BY SMT DEF Data
        <4>2. /\ channel # <<>> /\ Len(channel) <= 1
              /\ channel' = Tail(channel)
              /\ writing' \in {0, Head(channel)}
          BY <2>1, Zenon DEF TakeControl
        <4> QED
          BY <4>1, <4>2, OnlyOne, Zenon
      <3>2. UNCHANGED <<delivered, readerPc, line>>
        BY <2>1, Zenon DEF TakeControl, reader
      <3> QED
        BY <1>1, <2>1, <3>1, <3>2, SMT DEF TakeControl
    <2>2. CASE WriteControl
      <3>1. UNCHANGED <<channel, readerPc, line>>
        BY <2>2, Zenon DEF WriteControl, reader
      <3>2. channel = <<>>
        BY <2>2, Zenon DEF WriteControl
      <3>3. readerPc = "holding" => line.epoch \in Nat
        BY SMT DEF Data, Markers
      <3> QED
        BY <1>1, <2>2, <3>1, <3>2, <3>3, SMT DEF WriteControl, Data
    <2>3. CASE \E m \in Markers : ReadMarker(m)
      <3>1. UNCHANGED <<channel, writing, delivered>> /\ line'.epoch <= delivered
        BY <2>3, Zenon DEF ReadMarker, writer
      <3> QED
        BY <1>1, <3>1, SMT
    <2> QED
      BY <2>1, <2>2, <2>3
  <1>6. EndIsObserved'
    BY <1>1, Zenon DEF SessionInv, EndIsObserved
  <1> QED
    BY <1>2, <1>3, <1>4, <1>5, <1>6 DEF SessionInv

\* What every step does to the invariant.
LEMMA SessionStep == Flags /\ Data /\ SessionInv /\ [Next]_vars => SessionInv'
  <1> SUFFICES ASSUME Flags, Data, SessionInv, [Next]_vars PROVE SessionInv'
    OBVIOUS
  <1>1. CASE AcceptDebugEvent
    BY <1>1, AcceptStep
  <1>2. CASE \E act \in Actions : QueueControl(act)
    BY <1>2, QueueStep
  <1>3. CASE TakeControl \/ WriteControl \/ (\E m \in Markers : ReadMarker(m))
    BY <1>3, WireStep
  <1>4. CASE \/ ReadMalformed \/ RejectDebugEvent \/ FailProtocol
             \/ GetDebugSession \/ (\E e \in 1..MaxEpoch : ExpireControl(e))
             \/ WriteFails \/ WriterCancelled \/ RunStep \/ UNCHANGED vars
    BY <1>4, EndSteps, EndStep
  <1> QED
    BY <1>1, <1>2, <1>3, <1>4 DEF Next, ReaderStep, ControlStep

\* The epochs, the workflow, the pause, the channel and the end of a session
\* agree in every reachable state (registry.rs, accept to process_exited).
THEOREM SessionHolds == Spec => []SessionInv
  <1>1. Init => SessionInv
    BY SMT DEF Init, SessionInv, EpochInv, EpochProgression, WorkflowInv, SerialWorkflows,
               ActiveWorkflowIsReported, PauseInv, ChannelInv, ChannelHoldsThePending,
               EndIsObserved, Sequence, Terminal
  <1>2. TypeOK => Flags /\ Data
    BY TypeHalves
  <1> QED
    BY <1>1, <1>2, TypeCorrect, SessionStep, PTL DEF Spec

\* Accepted safe points never go back to an earlier control epoch.
THEOREM EpochsProgress == Spec => []EpochProgression
  <1>1. SessionInv => EpochProgression
    BY DEF SessionInv, EpochInv
  <1> QED
    BY <1>1, SessionHolds, PTL

\* Accepted safe points fall into runs of one workflow each.
THEOREM WorkflowsAreSerial == Spec => []SerialWorkflows
  <1>1. SessionInv => SerialWorkflows
    BY DEF SessionInv, WorkflowInv
  <1> QED
    BY <1>1, SessionHolds, PTL

\* Only the pending control is on its way to the child, so the bounded channel
\* never refuses one while the session lives.
THEOREM OnlyThePendingIsQueued == Spec => []ChannelHoldsThePending
  <1>1. SessionInv => ChannelHoldsThePending
    BY DEF SessionInv, ChannelInv
  <1> QED
    BY <1>1, SessionHolds, PTL

\* An end of the session other than a failure was observed.
THEOREM EndsAreObserved == Spec => []EndIsObserved
  <1>1. SessionInv => EndIsObserved
    BY DEF SessionInv
  <1> QED
    BY <1>1, SessionHolds, PTL

\* Who extends the history, queues a control and drops a timer.
LEMMA WhoActs ==
    ASSUME [Next]_vars
    PROVE  /\ events' = events \/ AcceptDebugEvent
           /\ controlEpoch' = controlEpoch \/ (\E act \in Actions : QueueControl(act))
           /\ timers \subseteq timers' \/ (\E e \in 1..MaxEpoch : ExpireControl(e))
  <1> USE DEF accepted
  <1>1. CASE ReaderStep
    <2>1. AcceptDebugEvent \/ UNCHANGED events
      BY <1>1, Zenon DEF ReaderStep, ReadMarker, ReadMalformed, RejectDebugEvent, FailProtocol
    <2>2. UNCHANGED <<controlEpoch, timers>>
      BY <1>1, Zenon DEF ReaderStep, ReadMarker, ReadMalformed, RejectDebugEvent, FailProtocol,
                         AcceptDebugEvent
    <2> QED
      BY <2>1, <2>2, Zenon
  <1>2. CASE ControlStep
    <2>1. UNCHANGED events
      BY <1>2, Zenon DEF ControlStep, GetDebugSession, QueueControl, ExpireControl, TakeControl,
                         WriteControl, WriteFails, WriterCancelled
    <2>2. (\E act \in Actions : QueueControl(act)) \/ UNCHANGED controlEpoch
      BY <1>2, Zenon DEF ControlStep, GetDebugSession, ExpireControl, TakeControl,
                         WriteControl, WriteFails, WriterCancelled
    <2>3. (\E e \in 1..MaxEpoch : ExpireControl(e)) \/ timers \subseteq timers'
      BY <1>2, Zenon DEF ControlStep, GetDebugSession, QueueControl, TakeControl,
                         WriteControl, WriteFails, WriterCancelled
    <2> QED
      BY <2>1, <2>2, <2>3, Zenon
  <1>3. CASE RunStep
    <2>1. UNCHANGED <<events, controlEpoch, timers>>
      <3>1. CASE MarkStopping \/ ConfirmStopping \/ CancelStopping \/ CompleteStopEscalation
        <4>1. UNCHANGED session
          BY <3>1, Zenon DEF MarkStopping, ConfirmStopping, CancelStopping, CompleteStopEscalation
        <4> QED
          BY <4>1, Zenon DEF session
      <3>2. CASE RecordLeaderExit \/ RecordWaitFailure \/ ForgetSession
        BY <3>2, Zenon DEF RecordLeaderExit, RecordWaitFailure, ForgetSession
      <3> QED
        BY <1>3, <3>1, <3>2 DEF RunStep
    <2> QED
      BY <2>1, Zenon
  <1>4. CASE UNCHANGED vars
    BY <1>4, Zenon DEF vars
  <1> QED
    BY <1>1, <1>2, <1>3, <1>4 DEF Next

\* A child that reported a pause moves on only under a control queued after the
\* epoch of that pause: its status is still "paused", so accept asks for a
\* pending control, and nothing has acknowledged that one.
THEOREM PausedChildWaits == Spec => PausedChildNeedsAControl
  <1> DEFINE Obeys == Sequence > 0 /\ events[Sequence].state = "paused" /\ events' # events
                        => controlEpoch > events[Sequence].epoch
  <1>1. ASSUME Flags, Data, SessionInv, [Next]_vars PROVE [Obeys]_vars
    <2> SUFFICES ASSUME Sequence > 0, events[Sequence].state = "paused", events' # events
                 PROVE  controlEpoch > events[Sequence].epoch
      BY Zenon
    <2>1. Acceptable(line)
      BY <1>1, WhoActs DEF AcceptDebugEvent
    <2>2. status = "paused"
      BY <1>1, <2>1 DEF Acceptable, SessionInv, PauseInv
    <2>3. acknowledgedEpoch < pendingEpoch
      BY <1>1, <2>1, <2>2 DEF Acceptable, PauseHolds, SessionInv, EpochInv
    <2>4. events \in Seq(Event) /\ Sequence \in Nat
      BY <1>1, SMT DEF Data, Sequence
    <2>5. events[Sequence] \in Event
      BY <2>4, SMT DEF Sequence
    <2>6. events[Sequence].epoch \in Nat
      BY <2>5, SMT DEF Event
    <2>7. events[Sequence].epoch <= acknowledgedEpoch
      BY <1>1, <2>4, SMT DEF SessionInv, EpochInv, EpochProgression
    <2> QED
      BY <1>1, <2>3, <2>6, <2>7, DebugAssumption, SMT DEF Data
  <1>2. TypeOK => Flags /\ Data
    BY TypeHalves
  <1> QED
    BY <1>1, <1>2, TypeCorrect, SessionHolds, PTL DEF Spec, PausedChildNeedsAControl

\* A failed session admits no safe point and no control, late as they may be.
THEOREM FailsClosed == Spec => FailedClosed
  <1> DEFINE Closed == status = "failed" => events' = events /\ controlEpoch' = controlEpoch
  <1>1. ASSUME [Next]_vars PROVE [Closed]_vars
    <2> SUFFICES ASSUME status = "failed"
                 PROVE  events' = events /\ controlEpoch' = controlEpoch
      BY Zenon
    <2>1. Terminal
      BY DEF Terminal, TerminalStatuses
    <2> QED
      BY <1>1, <2>1, WhoActs, Zenon DEF AcceptDebugEvent, Acceptable, QueueControl
  <1> QED
    BY <1>1, PTL DEF Spec, FailedClosed

\* The timer of a control acknowledged in time never fails the session: what it
\* finds pending is a later control, of another epoch.
THEOREM TimersMind == Spec => TimeoutIsOfItsControl
  <1> DEFINE Minds == \A e \in timers \ timers' :
                         ~Terminal /\ status' = "failed" => acknowledgedEpoch < e
  <1>1. ASSUME SessionInv, [Next]_vars PROVE [Minds]_vars
    <2> SUFFICES ASSUME NEW e \in timers \ timers', ~Terminal, status' = "failed"
                 PROVE  acknowledgedEpoch < e
      BY Zenon
    <2>1. PICK x \in 1..MaxEpoch : ExpireControl(x)
      BY <1>1, WhoActs, Zenon
    <2>2. x = e
      BY <2>1, Zenon DEF ExpireControl
    <2>3. pendingEpoch = x
      BY <2>1, Zenon DEF ExpireControl, Terminal, TerminalStatuses
    <2>4. x # 0
      BY SMT
    <2> QED
      BY <1>1, <2>2, <2>3, <2>4 DEF SessionInv, EpochInv
  <1> QED
    BY <1>1, SessionHolds, PTL DEF Spec, TimeoutIsOfItsControl

\* A second control based on one snapshot is refused: the first one moved the
\* epoch the snapshot was taken at.
THEOREM OneControlEach == Spec => OneControlPerSnapshot
  <1> DEFINE Once == viewSpent => controlEpoch' = controlEpoch
  <1>1. ASSUME Data, SessionInv, [Next]_vars PROVE [Once]_vars
    <2> SUFFICES ASSUME viewSpent, controlEpoch' # controlEpoch PROVE FALSE
      BY Zenon
    <2>1. viewEpoch = controlEpoch
      BY <1>1, WhoActs, Zenon DEF QueueControl, Fresh
    <2>2. viewEpoch < controlEpoch
      BY <1>1 DEF SessionInv, EpochInv
    <2> QED
      BY <1>1, <2>1, <2>2, DebugAssumption, SMT DEF Data
  <1>2. TypeOK => Data
    BY TypeHalves
  <1> QED
    BY <1>1, <1>2, TypeCorrect, SessionHolds, PTL DEF Spec, OneControlPerSnapshot

\* The four together: what the runs check of controls holds for every set of
\* workflows and steps and every bound.
THEOREM ControlsAreDisciplined == Spec => ControlDiscipline
  BY PausedChildWaits, OneControlEach, FailsClosed, TimersMind DEF ControlDiscipline


--------------------------------------------------------------------------------
(* The timer behind each control. *)

\* A control other than Stop is pending only while its timer runs; a run whose leader or
\* watcher is gone has a session that has ended, and a session that has ended has nothing
\* pending.
TimerInv ==
    /\ pendingAction \notin {"none", "stop"} => pendingEpoch \in timers
    /\ leaderExited \/ exitObservationFailed => Terminal
    /\ ~active => leaderExited \/ exitObservationFailed
    /\ active => registered
    /\ Terminal => pendingAction = "none"

\* A pending control has a timer running that will find its session, and the firing of that
\* timer is the end of it.
ControlIsTimed ==
    pendingAction \notin {"none", "stop"} => pendingEpoch \in timers /\ registered /\ ~Terminal
TimerEndsControl == \A e \in timers \ timers' : pendingEpoch' # e

LEMMA TimerStep == Flags /\ Data /\ SessionInv /\ TimerInv /\ [Next]_vars => TimerInv'
<1> SUFFICES ASSUME Flags, Data, SessionInv, TimerInv, [Next]_vars PROVE TimerInv'
  OBVIOUS
<1> USE DEF TimerInv, Terminal, TerminalStatuses, runEntry, pending, accepted, reader, writer, view
<1>1. CASE ReaderStep
  <2>1. CASE (\E m \in Markers : ReadMarker(m)) \/ ReadMalformed \/ RejectDebugEvent
    BY <2>1 DEF ReadMarker, ReadMalformed, RejectDebugEvent
  <2>2. CASE AcceptDebugEvent
    BY <2>2 DEF AcceptDebugEvent, Accept, Acceptable, ClearPending, SessionMatches
  <2>3. CASE FailProtocol
    BY <2>3 DEF FailProtocol, ControlFailed, ClearPending
  <2> QED
    BY <1>1, <2>1, <2>2, <2>3 DEF ReaderStep
<1>2. CASE ControlStep
  <2>1. CASE GetDebugSession \/ TakeControl \/ WriteControl \/ WriterCancelled
    BY <2>1 DEF GetDebugSession, TakeControl, WriteControl, WriterCancelled
  <2>2. ASSUME NEW act \in Actions, QueueControl(act) PROVE TimerInv'
    BY <2>2 DEF QueueControl
  <2>3. ASSUME NEW e \in 1..MaxEpoch, ExpireControl(e) PROVE TimerInv'
    BY <2>3 DEF ExpireControl, ClearPending
  <2>4. CASE WriteFails
    BY <2>4 DEF WriteFails, ControlFailed, ClearPending
  <2> QED
    BY <1>2, <2>1, <2>2, <2>3, <2>4 DEF ControlStep
<1>3. CASE RunStep
  <2> USE DEF session
  <2>1. CASE MarkStopping \/ ConfirmStopping \/ CompleteStopEscalation \/ ForgetSession
    BY <2>1 DEF MarkStopping, ConfirmStopping, CompleteStopEscalation, ForgetSession
  <2>4. CASE CancelStopping
    <3>1. /\ active /\ active' = ~leaderExited
          /\ UNCHANGED <<leaderExited, exitObservationFailed, registered, status, pendingAction,
                        pendingEpoch, timers>>
      BY <2>4 DEF CancelStopping
    <3>2. ~active' => leaderExited
      BY <3>1, Zenon
    <3> QED
      BY <3>1, <3>2
  <2>2. CASE RecordLeaderExit
    BY <2>2 DEF RecordLeaderExit, ProcessExited, ClearPending
  <2>3. CASE RecordWaitFailure
    BY <2>3 DEF RecordWaitFailure, ControlFailed, ClearPending
  <2> QED
    BY <1>3, <2>1, <2>2, <2>3, <2>4 DEF RunStep
<1>4. CASE UNCHANGED vars
  BY <1>4 DEF vars
<1> QED
  BY <1>1, <1>2, <1>3, <1>4 DEF Next

\* Every control resolves: from the moment it is queued to its acknowledgement or to the end of
\* its session its own timer is running and will find the session where it left it; whatever the
\* timer finds, the control is not pending once it has fired (ControlResolves, without the clock).
THEOREM EveryControlIsTimed == Spec => []ControlIsTimed /\ [][TimerEndsControl]_vars
<1>1. TimerInv => ControlIsTimed
  BY DEF TimerInv, ControlIsTimed
<1>2. ASSUME Data, SessionInv, TimerInv, [Next]_vars PROVE TimerEndsControl
  <2> SUFFICES ASSUME NEW e \in timers \ timers' PROVE pendingEpoch' # e
    BY DEF TimerEndsControl
  <2>1. PICK x \in 1..MaxEpoch : ExpireControl(x)
    BY <1>2, WhoActs, Zenon
  <2>2. x = e
    BY <2>1, Zenon DEF ExpireControl
  <2>3. e # 0
    BY <2>2, DebugAssumption
  <2>4. CASE pendingEpoch = e
    <3>1. pendingAction # "none"
      BY <1>2, <2>3, <2>4 DEF SessionInv, EpochInv
    <3>2. registered /\ ~Terminal
      BY <1>2, <3>1 DEF TimerInv
    <3> QED
      BY <2>1, <2>2, <2>3, <2>4, <3>2 DEF ExpireControl, ClearPending
  <2>5. CASE pendingEpoch # e
    <3>1. pendingEpoch' \in {pendingEpoch, 0}
      BY <2>1 DEF ExpireControl, ClearPending, pending
    <3> QED
      BY <2>3, <2>5, <3>1
  <2> QED
    BY <2>4, <2>5
<1>3. Init => TimerInv
  BY DEF Init, TimerInv, Terminal, TerminalStatuses
<1>4. TypeOK => Flags /\ Data
  BY TypeHalves
<1>5. Spec => []TimerInv
  BY <1>3, <1>4, TimerStep, TypeCorrect, SessionHolds, PTL DEF Spec
<1>6. Data /\ SessionInv /\ TimerInv /\ [Next]_vars => [TimerEndsControl]_vars
  BY <1>2
<1> QED
  BY <1>1, <1>4, <1>5, <1>6, TypeCorrect, SessionHolds, PTL DEF Spec
===============================================================================

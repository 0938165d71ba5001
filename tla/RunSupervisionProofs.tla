------------------------- MODULE RunSupervisionProofs -------------------------
(***************************************************************************)
(* Proofs about RunSupervision for every set of runs, starters and stops.  *)
(***************************************************************************)
EXTENDS RunSupervision, TLAPS

(* An emptied ring is a ring. *)
LEMMA EmptyRing == [k \in EventKinds |-> {}] \in [EventKinds -> SUBSET Runs]
  OBVIOUS

(* Every variable keeps the type it is declared with. *)
THEOREM TypeCorrect == Spec => []TypeOK
<1>1. Init => TypeOK
  <2> SUFFICES ASSUME Init PROVE TypeOK
    OBVIOUS
  <2> USE DEF Init
  <2>1. ring \in [EventKinds -> SUBSET Runs]
    BY EmptyRing
  <2>2. /\ startPc \in [Starters -> StartPcs]
        /\ startRun \in [Starters -> Runs \cup {NoRun}]
        /\ startGen \in [Starters -> Nat]
    BY DEF StartPcs
  <2>3. /\ stopPc \in [Stops -> StopPcs]
        /\ stopRun \in [Stops -> Runs \cup {NoRun}]
    BY DEF StopPcs
  <2>4. QED
    BY <2>1, <2>2, <2>3 DEF TypeOK
<1>2. TypeOK /\ Next => TypeOK'
  <2> SUFFICES ASSUME TypeOK, Next PROVE TypeOK'
    OBVIOUS
  <2> USE DEF TypeOK, StartPcs, StopPcs, EventKinds, NoRun, registry, starters,
              stops, system, history
  <2>1. ASSUME NEW a \in Starters, StartStep(a) PROVE TypeOK'
    <3>1. CASE ReserveRunStart(a)
      BY <3>1 DEF ReserveRunStart
    <3>2. CASE PrepareRun(a)
      BY <3>2 DEF PrepareRun
    <3>3. CASE StartFails(a)
      BY <3>3 DEF StartFails, StartReturns, ReleaseReservation
    <3>4. ASSUME NEW r \in Runs, SpawnChild(a, r) PROVE TypeOK'
      BY <3>4 DEF SpawnChild
    <3>5. CASE Activate(a)
      BY <3>5 DEF Activate, ReleaseReservation
    <3>6. CASE RegisterDebugSession(a)
      BY <3>6 DEF RegisterDebugSession, StartReturns
    <3>7. CASE PublishStarted(a)
      BY <3>7 DEF PublishStarted
    <3>8. CASE SpawnTasks(a)
      BY <3>8 DEF SpawnTasks, StartReturns
    <3>9. QED
      BY <2>1, <3>1, <3>2, <3>3, <3>4, <3>5, <3>6, <3>7, <3>8 DEF StartStep
  <2>2. ASSUME NEW s \in Stops, StopProceeds(s) PROVE TypeOK'
    <3> USE DEF StopStep
    <3>1. CASE SignalTerminate(s)
      BY <3>1 DEF SignalTerminate
    <3>2. CASE CancelStopping(s)
      BY <3>2 DEF CancelStopping, Remove
    <3>3. CASE ConfirmStopping(s)
      BY <3>3 DEF ConfirmStopping
    <3>4. CASE PublishStopRequested(s)
      BY <3>4 DEF PublishStopRequested
    <3>5. CASE GraceExpires(s)
      BY <3>5 DEF GraceExpires
    <3>6. CASE SignalKill(s)
      BY <3>6 DEF SignalKill
    <3>7. CASE CompleteStopEscalation(s)
      BY <3>7 DEF CompleteStopEscalation, Remove
    <3>8. CASE PublishKillFailed(s)
      BY <3>8 DEF PublishKillFailed
    <3>9. QED
      BY <2>2, <3>1, <3>2, <3>3, <3>4, <3>5, <3>6, <3>7, <3>8 DEF StopProceeds
  <2>3. ASSUME NEW r \in Runs, RunStep(r) PROVE TypeOK'
    <3>1. CASE RecordLeaderExit(r)
      BY <3>1 DEF RecordLeaderExit, Remove
    <3>2. CASE RecordWaitFailure(r)
      BY <3>2 DEF RecordWaitFailure, Remove
    <3>3. CASE AutoStopFindsNoRun(r)
      BY <3>3 DEF AutoStopFindsNoRun
    <3>4. ASSUME NEW s \in Stops, StopRun(s, r) \/ AutoStop(s, r) PROVE TypeOK'
      BY <3>4 DEF StopRun, AutoStop, MarkStopping
    <3>5. CASE ReadLine(r) \/ PublishLine(r) \/ ReaderEnds(r)
      BY <3>5 DEF ReadLine, PublishLine, ReaderEnds, ReaderStep
    <3>6. CASE LeaderExits(r) \/ Fork(r) \/ DescendantsExit(r)
      BY <3>6 DEF LeaderExits, Fork, DescendantsExit
    <3>7. QED
      BY <2>3, <3>1, <3>2, <3>3, <3>4, <3>5, <3>6 DEF RunStep
  <2>4. CASE SwitchStep
    <3>1. CASE BeginWorkspaceSwitch \/ CancelWorkspaceSwitch
      BY <3>1 DEF BeginWorkspaceSwitch, CancelWorkspaceSwitch
    <3>2. CASE CompleteWorkspaceSwitch
      <4>1. ring' \in [EventKinds -> SUBSET Runs]
        BY <3>2, EmptyRing DEF CompleteWorkspaceSwitch
      <4>2. generation' \in Nat
        BY <3>2 DEF CompleteWorkspaceSwitch
      <4>3. workspaceSwitching' \in BOOLEAN
        BY <3>2 DEF CompleteWorkspaceSwitch
      <4>4. UNCHANGED <<active, stopping, leaderExited, exitObservationFailed,
                escalationComplete, streamsCancelled, starting, startPc,
                startRun, startGen, stopPc, stopRun, watcher, reader,
                announced, leader, descendants, runGen, stopConfirmed>>
        BY <3>2 DEF CompleteWorkspaceSwitch
      <4>5. QED
        BY <4>1, <4>2, <4>3, <4>4
    <3>3. QED
      BY <2>4, <3>1, <3>2 DEF SwitchStep
  <2> QED
    BY <2>1, <2>2, <2>3, <2>4 DEF Next
<1>3. TypeOK /\ UNCHANGED vars => TypeOK'
  BY DEF TypeOK, vars, registry, starters, stops, system, history
<1>4. QED
  BY <1>1, <1>2, <1>3, PTL DEF Spec

(* The inductive invariant: who holds the slot, that a live leader is in it,  *)
(* that removable entries are dead, and that everything in the slot belongs   *)
(* to the open workspace.                                                     *)
THEOREM InductiveInvariant == Spec => []IInv
<1>1. Init => IInv
  BY EmptyRing DEF Init, IInv, StartInv, StopInv, LeaderInv,
         WatchedRunsAreActive, GenerationInv, RingInWorkspace, Busy, Pending,
         Launched, EventKinds
<1>2. TypeOK /\ TypeOK' /\ IInv /\ Next => IInv'
  <2> SUFFICES ASSUME TypeOK, TypeOK', IInv, Next PROVE IInv'
    OBVIOUS
  <2> USE DEF TypeOK, EventKinds, registry, starters, stops, system, history,
              IInv, StartInv, StopInv, LeaderInv, WatchedRunsAreActive,
              GenerationInv, RingInWorkspace, Busy, Pending, Launched
  <2>1. ASSUME NEW a \in Starters, StartStep(a) PROVE IInv'
    <3>1. CASE ReserveRunStart(a)
      BY <3>1 DEF ReserveRunStart, StartPcs
    <3>2. CASE PrepareRun(a)
      BY <3>2 DEF PrepareRun
    <3>3. CASE StartFails(a)
      BY <3>3 DEF StartFails, StartReturns, ReleaseReservation
    <3>4. ASSUME NEW r \in Runs, SpawnChild(a, r) PROVE IInv'
      BY <3>4 DEF SpawnChild
    <3>5. CASE Activate(a)
      <4>1. /\ active = {} /\ starting = 1
            /\ stopping = {} /\ leaderExited = {}
            /\ exitObservationFailed = {} /\ escalationComplete = {}
            /\ \A b \in Starters : Busy(b) => b = a
        BY <3>5 DEF Activate
      <4>2. StartInv'
        BY <3>5, <4>1 DEF Activate, ReleaseReservation
      <4>3. QED
        BY <3>5, <4>1, <4>2 DEF Activate, ReleaseReservation
    <3>6. CASE RegisterDebugSession(a)
      BY <3>6 DEF RegisterDebugSession, StartReturns
    <3>7. CASE PublishStarted(a)
      BY <3>7 DEF PublishStarted
    <3>8. CASE SpawnTasks(a)
      BY <3>8 DEF SpawnTasks, StartReturns
    <3>9. QED
      BY <2>1, <3>1, <3>2, <3>3, <3>4, <3>5, <3>6, <3>7, <3>8 DEF StartStep
  <2>2. ASSUME NEW s \in Stops, StopProceeds(s) PROVE IInv'
    <3> USE DEF StopStep
    <3>1. CASE SignalTerminate(s)
      BY <3>1 DEF SignalTerminate
    <3>2. CASE CancelStopping(s)
      BY <3>2 DEF CancelStopping, Remove
    <3>3. CASE ConfirmStopping(s)
      BY <3>3 DEF ConfirmStopping
    <3>4. CASE PublishStopRequested(s)
      BY <3>4 DEF PublishStopRequested
    <3>5. CASE GraceExpires(s)
      BY <3>5 DEF GraceExpires
    <3>6. CASE SignalKill(s)
      BY <3>6 DEF SignalKill
    <3>7. CASE CompleteStopEscalation(s)
      BY <3>7 DEF CompleteStopEscalation, Remove
    <3>8. CASE PublishKillFailed(s)
      BY <3>8 DEF PublishKillFailed
    <3>9. QED
      BY <2>2, <3>1, <3>2, <3>3, <3>4, <3>5, <3>6, <3>7, <3>8 DEF StopProceeds
  <2>3. ASSUME NEW r \in Runs, RunStep(r) PROVE IInv'
    <3>1. CASE RecordLeaderExit(r)
      BY <3>1 DEF RecordLeaderExit, Remove
    <3>2. CASE RecordWaitFailure(r)
      BY <3>2 DEF RecordWaitFailure, Remove
    <3>3. CASE AutoStopFindsNoRun(r)
      BY <3>3 DEF AutoStopFindsNoRun
    <3>4. ASSUME NEW s \in Stops, StopRun(s, r) \/ AutoStop(s, r) PROVE IInv'
      BY <3>4 DEF StopRun, AutoStop, MarkStopping
    <3>5. CASE ReadLine(r) \/ ReaderEnds(r)
      BY <3>5 DEF ReadLine, ReaderEnds, ReaderStep
    <3>6. CASE PublishLine(r)
      BY <3>6 DEF PublishLine, ReaderStep, SessionMatches
    <3>7. CASE LeaderExits(r) \/ Fork(r) \/ DescendantsExit(r)
      BY <3>7 DEF LeaderExits, Fork, DescendantsExit
    <3>8. QED
      BY <2>3, <3>1, <3>2, <3>3, <3>4, <3>5, <3>6, <3>7 DEF RunStep
  <2>4. CASE SwitchStep
    <3>1. CASE BeginWorkspaceSwitch
      BY <3>1 DEF BeginWorkspaceSwitch, StartPcs
    <3>2. CASE CancelWorkspaceSwitch
      BY <3>2 DEF CancelWorkspaceSwitch
    <3>3. CASE CompleteWorkspaceSwitch
      <4>1. ring'["session"] = {}
        BY <3>3 DEF CompleteWorkspaceSwitch
      <4>2. QED
        BY <3>3, <4>1 DEF CompleteWorkspaceSwitch
    <3>4. QED
      BY <2>4, <3>1, <3>2, <3>3 DEF SwitchStep
  <2> QED
    BY <2>1, <2>2, <2>3, <2>4 DEF Next
<1>3. IInv /\ UNCHANGED vars => IInv'
  BY DEF IInv, StartInv, StopInv, LeaderInv, WatchedRunsAreActive, GenerationInv,
         RingInWorkspace, Busy, Pending, Launched, vars, registry, starters, stops, system,
         history
<1>4. QED
  BY <1>1, <1>2, <1>3, TypeCorrect, PTL DEF Spec

(* At most one process is starting or running, and never during a switch.     *)
THEOREM SlotIsExclusive == Spec => []SlotExclusive
<1>1. TypeOK /\ IInv => SlotExclusive
  BY DEF TypeOK, IInv, StartInv, Busy, Pending, SlotExclusive
<1>2. QED
  BY <1>1, TypeCorrect, InductiveInvariant, PTL

(* A second process leader is never alive beside the first.                   *)
THEOREM OneLeaderAtATime == Spec => []OneLeader
<1>1. TypeOK /\ IInv => OneLeader
  BY DEF TypeOK, IInv, StartInv, LeaderInv, Busy, Pending, OneLeader
<1>2. QED
  BY <1>1, TypeCorrect, InductiveInvariant, PTL

(* No session event of a run of an earlier workspace is in the ring.          *)
THEOREM RingBelongsToWorkspace == Spec => []RingInWorkspace
<1>1. IInv => RingInWorkspace
  BY DEF IInv, GenerationInv
<1>2. QED
  BY <1>1, InductiveInvariant, PTL

-------------------------------------------------------------------------------
(* What the abstract slot holds, read off the registry. *)
HolderFacts ==
    /\ \A r \in active : SlotHolder = r
    /\ workspaceSwitching => SlotHolder = "switching"
    /\ ~workspaceSwitching /\ active = {} /\ starting > 0
          => SlotHolder = "starting"
    /\ ~workspaceSwitching /\ active = {} /\ starting = 0
          => SlotHolder = "free"

LEMMA HolderOfRegistry == TypeOK /\ IInv => HolderFacts
  BY DEF TypeOK, IInv, StartInv, HolderFacts, SlotHolder

(* Every step of the supervisor is a step of the abstract slot or leaves the  *)
(* slot, the live leaders and the used run ids as they are.                   *)
THEOREM SupervisionImplementsSlot == Spec => SlotSpec
<1>1. Init => Slot!Init
  BY DEF Init, Slot!Init, SlotHolder, LiveRuns, UsedRuns
<1>2. /\ TypeOK /\ TypeOK' /\ IInv /\ IInv' /\ HolderFacts /\ HolderFacts'
      /\ [Next]_vars
      => [Slot!Next]_(Slot!vars)
  <2> SUFFICES ASSUME TypeOK, TypeOK', IInv, IInv', HolderFacts, HolderFacts',
                      [Next]_vars
               PROVE  [Slot!Next]_(Slot!vars)
    OBVIOUS
  <2> DEFINE Holds == UNCHANGED <<active, starting, workspaceSwitching>>
  <2>1. Holds => SlotHolder' = SlotHolder
    BY DEF SlotHolder
  <2>2. Holds /\ leader' = leader => UNCHANGED Slot!vars
    BY <2>1 DEF Slot!vars, LiveRuns, UsedRuns
  <2>3. ASSUME NEW r \in Runs, Holds, leader[r] # "none",
               leader' = [leader EXCEPT ![r] = "dead"]
        PROVE  [Slot!Next]_(Slot!vars)
    <3>1. SlotHolder' = SlotHolder /\ UsedRuns' = UsedRuns
          /\ LiveRuns' = LiveRuns \ {r}
      BY <2>1, <2>3 DEF TypeOK, LiveRuns, UsedRuns
    <3>2. CASE r \in LiveRuns
      BY <3>1, <3>2 DEF Slot!Next, Slot!Die
    <3>3. CASE r \notin LiveRuns
      <4>1. LiveRuns' = LiveRuns
        BY <3>1, <3>3
      <4>2. QED
        BY <3>1, <4>1 DEF Slot!vars
    <3>4. QED
      BY <3>2, <3>3
  <2>4. ASSUME NEW r \in active, leader[r] = "dead", leader' = leader,
               active' = active \ {r},
               UNCHANGED <<starting, workspaceSwitching>>
        PROVE  [Slot!Next]_(Slot!vars)
    <3>1. /\ active' = {} /\ starting' = 0 /\ ~workspaceSwitching'
      BY <2>4 DEF IInv, StartInv, Pending
    <3>2. SlotHolder = r /\ SlotHolder' = "free"
      BY <3>1 DEF HolderFacts
    <3>3. r \in Runs /\ r \notin LiveRuns
      BY <2>4 DEF TypeOK, LiveRuns
    <3>4. LiveRuns' = LiveRuns /\ UsedRuns' = UsedRuns
      BY <2>4 DEF LiveRuns, UsedRuns
    <3>5. Slot!Release(r)
      BY <3>2, <3>3, <3>4 DEF Slot!Release
    <3>6. QED
      BY <3>3, <3>5 DEF Slot!Next
  <2>5. ASSUME NEW a \in Starters, StartStep(a)
        PROVE  [Slot!Next]_(Slot!vars)
    <3> USE DEF TypeOK, registry, starters, stops, system, history
    <3>1. CASE ReserveRunStart(a)
      <4>1. SlotHolder = "free" /\ SlotHolder' = "starting"
        BY <3>1 DEF ReserveRunStart, HolderFacts
      <4>2. leader' = leader
        BY <3>1 DEF ReserveRunStart
      <4>3. QED
        BY <4>1, <4>2 DEF Slot!Next, Slot!Reserve, LiveRuns, UsedRuns
    <3>2. CASE PrepareRun(a)
      BY <2>2, <3>2 DEF PrepareRun
    <3>3. CASE StartFails(a)
      <4>1. Pending(a) /\ starting = 1 /\ active = {} /\ ~workspaceSwitching
        BY <3>3 DEF StartFails, Pending, IInv, StartInv, Busy
      <4>2. starting' = 0 /\ active' = {} /\ ~workspaceSwitching'
        BY <3>3, <4>1 DEF StartFails, ReleaseReservation
      <4>3. SlotHolder = "starting" /\ SlotHolder' = "free"
        BY <4>1, <4>2 DEF HolderFacts
      <4>4. LiveRuns = {}
        BY <3>3, <4>1 DEF StartFails, LiveRuns, IInv, StartInv, LeaderInv, Busy
      <4>5. LiveRuns' = LiveRuns /\ UsedRuns' = UsedRuns
        BY <3>3 DEF StartFails, LiveRuns, UsedRuns
      <4>6. QED
        BY <4>3, <4>4, <4>5 DEF Slot!Next, Slot!Abandon
    <3>4. ASSUME NEW r \in Runs, SpawnChild(a, r)
          PROVE  [Slot!Next]_(Slot!vars)
      <4>1. Pending(a) /\ starting = 1 /\ active = {} /\ ~workspaceSwitching
        BY <3>4 DEF SpawnChild, Pending, IInv, StartInv, Busy
      <4>2. SlotHolder = "starting" /\ SlotHolder' = "starting"
        BY <3>4, <4>1, <2>1 DEF SpawnChild, HolderFacts
      <4>3. LiveRuns = {}
        BY <3>4, <4>1 DEF SpawnChild, LiveRuns, IInv, StartInv, LeaderInv, Busy
      <4>4. LiveRuns' = LiveRuns \cup {r}
        BY <3>4 DEF SpawnChild, LiveRuns
      <4>5. UsedRuns' = UsedRuns \cup {r} /\ r \notin UsedRuns
        BY <3>4 DEF SpawnChild, UsedRuns
      <4>6. Slot!Spawn(r)
        BY <4>2, <4>3, <4>4, <4>5 DEF Slot!Spawn
      <4>7. QED
        BY <4>6 DEF Slot!Next
    <3>5. CASE Activate(a)
      <4> DEFINE r == startRun[a]
      <4>1. /\ starting = 1 /\ active = {} /\ ~workspaceSwitching
            /\ r \in Runs /\ leader[r] # "none"
        BY <3>5 DEF Activate, Pending, IInv, StartInv, Busy
      <4>2. r \in active' /\ leader' = leader
        BY <3>5 DEF Activate
      <4>3. SlotHolder = "starting" /\ SlotHolder' = r
        BY <4>1, <4>2 DEF HolderFacts
      <4>4. r \in UsedRuns /\ LiveRuns \subseteq {r}
        BY <3>5, <4>1 DEF Activate, LiveRuns, UsedRuns, IInv, StartInv,
                          LeaderInv, Busy
      <4>5. LiveRuns' = LiveRuns /\ UsedRuns' = UsedRuns
        BY <4>2 DEF LiveRuns, UsedRuns
      <4>6. Slot!Own(r)
        BY <4>3, <4>4, <4>5 DEF Slot!Own
      <4>7. QED
        BY <4>1, <4>6 DEF Slot!Next
    <3>6. CASE RegisterDebugSession(a)
      <4>1. startRun[a] \in Runs /\ leader[startRun[a]] # "none" /\ Holds
        BY <3>6 DEF RegisterDebugSession, IInv, StartInv, Launched
      <4>2. \/ leader' = leader
            \/ leader' = [leader EXCEPT ![startRun[a]] = "dead"]
        BY <3>6 DEF RegisterDebugSession
      <4>3. QED
        BY <2>2, <2>3, <4>1, <4>2
    <3>7. CASE PublishStarted(a) \/ SpawnTasks(a)
      BY <2>2, <3>7 DEF PublishStarted, SpawnTasks
    <3>8. QED
      BY <2>5, <3>1, <3>2, <3>3, <3>4, <3>5, <3>6, <3>7 DEF StartStep
  <2>6. ASSUME NEW s \in Stops, StopProceeds(s)
        PROVE  [Slot!Next]_(Slot!vars)
    <3> USE DEF registry, starters, stops, system, history
    <3>1. CASE \/ SignalTerminate(s) \/ ConfirmStopping(s)
               \/ PublishStopRequested(s) \/ GraceExpires(s)
               \/ PublishKillFailed(s)
      BY <2>2, <3>1 DEF SignalTerminate, ConfirmStopping, PublishStopRequested,
                        GraceExpires, PublishKillFailed, StopStep
    <3>2. CASE SignalKill(s)
      <4>1. stopRun[s] \in Runs /\ Holds
        BY <3>2 DEF SignalKill, StopStep, TypeOK
      <4>2. leader' = leader \/ leader' = [leader EXCEPT ![stopRun[s]] = "dead"]
        BY <3>2 DEF SignalKill, StopStep
      <4>3. leader' = leader \/ leader[stopRun[s]] # "none"
        BY <3>2 DEF SignalKill, StopStep, TypeOK, IInv, StopInv
      <4>4. QED
        BY <2>2, <2>3, <4>1, <4>2, <4>3
    <3>3. CASE CancelStopping(s)
      <4> DEFINE r == stopRun[s]
      <4>1. CASE r \in leaderExited
        <5>1. r \in active /\ leader[r] = "dead"
          BY <4>1 DEF TypeOK, IInv, LeaderInv
        <5>2. /\ leader' = leader /\ active' = active \ {r}
              /\ UNCHANGED <<starting, workspaceSwitching>>
          BY <3>3, <4>1 DEF CancelStopping, Remove, StopStep
        <5>3. QED
          BY <2>4, <5>1, <5>2
      <4>2. CASE r \notin leaderExited
        BY <2>2, <3>3, <4>2 DEF CancelStopping, StopStep
      <4>3. QED
        BY <4>1, <4>2
    <3>4. CASE CompleteStopEscalation(s)
      <4> DEFINE r == stopRun[s]
      <4>1. CASE r \in stopping /\ r \in leaderExited \cup exitObservationFailed
        <5>1. r \in active /\ leader[r] = "dead"
          BY <3>4, <4>1 DEF CompleteStopEscalation, StopStep, TypeOK, IInv, StopInv
        <5>2. /\ leader' = leader /\ active' = active \ {r}
              /\ UNCHANGED <<starting, workspaceSwitching>>
          BY <3>4, <4>1 DEF CompleteStopEscalation, Remove, StopStep
        <5>3. QED
          BY <2>4, <5>1, <5>2
      <4>2. CASE ~(r \in stopping /\ r \in leaderExited \cup exitObservationFailed)
        BY <2>2, <3>4, <4>2 DEF CompleteStopEscalation, StopStep
      <4>3. QED
        BY <4>1, <4>2
    <3>5. QED
      BY <2>6, <3>1, <3>2, <3>3, <3>4 DEF StopProceeds
  <2>7. ASSUME NEW r \in Runs, RunStep(r)
        PROVE  [Slot!Next]_(Slot!vars)
    <3> USE DEF registry, starters, stops, system, history
    <3>1. CASE RecordLeaderExit(r)
      <4>1. CASE r \notin stopping \/ r \in escalationComplete
        BY <2>4, <3>1, <4>1 DEF RecordLeaderExit, Remove
      <4>2. CASE ~(r \notin stopping \/ r \in escalationComplete)
        BY <2>2, <3>1, <4>2 DEF RecordLeaderExit
      <4>3. QED
        BY <4>1, <4>2
    <3>2. CASE RecordWaitFailure(r)
      <4>1. CASE r \in stopping /\ r \in escalationComplete
        <5>1. r \in active /\ leader[r] = "dead"
          BY <4>1 DEF TypeOK, IInv, LeaderInv
        <5>2. /\ leader' = leader /\ active' = active \ {r}
              /\ UNCHANGED <<starting, workspaceSwitching>>
          BY <3>2, <4>1 DEF RecordWaitFailure, Remove
        <5>3. QED
          BY <2>4, <5>1, <5>2
      <4>2. CASE ~(r \in stopping /\ r \in escalationComplete)
        BY <2>2, <3>2, <4>2 DEF RecordWaitFailure
      <4>3. QED
        BY <4>1, <4>2
    <3>3. CASE AutoStopFindsNoRun(r)
      BY <2>2, <3>3 DEF AutoStopFindsNoRun
    <3>4. ASSUME NEW s \in Stops, StopRun(s, r) \/ AutoStop(s, r)
          PROVE  [Slot!Next]_(Slot!vars)
      BY <2>2, <3>4 DEF StopRun, AutoStop, MarkStopping
    <3>5. CASE ReadLine(r) \/ PublishLine(r) \/ ReaderEnds(r)
      BY <2>2, <3>5 DEF ReadLine, PublishLine, ReaderEnds, ReaderStep
    <3>6. CASE LeaderExits(r)
      BY <2>3, <3>6 DEF LeaderExits
    <3>7. CASE Fork(r) \/ DescendantsExit(r)
      BY <2>2, <3>7 DEF Fork, DescendantsExit
    <3>8. QED
      BY <2>7, <3>1, <3>2, <3>3, <3>4, <3>5, <3>6, <3>7 DEF RunStep
  <2>8. CASE SwitchStep
    <3> USE DEF registry, starters, stops, system, history
    <3>1. leader' = leader
      BY <2>8 DEF SwitchStep, BeginWorkspaceSwitch, CancelWorkspaceSwitch,
                  CompleteWorkspaceSwitch
    <3>2. LiveRuns' = LiveRuns /\ UsedRuns' = UsedRuns
      BY <3>1 DEF LiveRuns, UsedRuns
    <3>3. CASE BeginWorkspaceSwitch
      <4>1. SlotHolder = "free" /\ SlotHolder' = "switching"
        BY <3>3 DEF BeginWorkspaceSwitch, HolderFacts
      <4>2. QED
        BY <3>2, <4>1 DEF Slot!Next, Slot!CloseForSwitch
    <3>4. CASE CancelWorkspaceSwitch \/ CompleteWorkspaceSwitch
      <4>1. workspaceSwitching /\ active = {} /\ starting = 0
        BY <3>4 DEF CancelWorkspaceSwitch, CompleteWorkspaceSwitch, IInv,
                    StartInv, Pending, Busy
      <4>2. ~workspaceSwitching' /\ active' = {} /\ starting' = 0
        BY <3>4, <4>1 DEF CancelWorkspaceSwitch, CompleteWorkspaceSwitch
      <4>3. SlotHolder = "switching" /\ SlotHolder' = "free"
        BY <4>1, <4>2 DEF HolderFacts
      <4>4. QED
        BY <3>2, <4>3 DEF Slot!Next, Slot!Reopen
    <3>5. QED
      BY <2>8, <3>3, <3>4 DEF SwitchStep
  <2>9. CASE UNCHANGED vars
    BY <2>2, <2>9 DEF vars, registry, system
  <2>10. QED
    BY <2>5, <2>6, <2>7, <2>8, <2>9 DEF Next
<1>3. QED
  BY <1>1, <1>2, TypeCorrect, InductiveInvariant, HolderOfRegistry, PTL
     DEF Spec, SlotSpec, Slot!Spec

--------------------------------------------------------------------------------
(* The end of a run, as its readers see it: an exit the watcher has reported,  *)
(* or a stop that was delivered, has cancelled the streams, unless the watcher *)
(* could not observe the exit; a reader exists only beside its watcher.        *)
EndInv ==
    /\ stopConfirmed \subseteq streamsCancelled
    /\ \A r \in active : watcher[r] = "done" =>
          r \in exitObservationFailed \cup streamsCancelled
    /\ \A r \in active : watcher[r] = "autostop" => r \in exitObservationFailed
    /\ \A r \in Runs : watcher[r] = "none" => reader[r] = "none"

(* EndInv is inductive on top of the type and of the slot's invariant. *)
LEMMA EndIsRecorded == Spec => []EndInv
<1>1. Init => EndInv
  BY DEF Init, EndInv
<1>2. TypeOK /\ TypeOK' /\ IInv /\ EndInv /\ Next => EndInv'
  <2> SUFFICES ASSUME TypeOK, TypeOK', IInv, EndInv, Next PROVE EndInv'
    OBVIOUS
  <2> USE DEF TypeOK, registry, starters, stops, system, history, EndInv
  <2>1. ASSUME NEW a \in Starters, StartStep(a) PROVE EndInv'
    <3>1. CASE \/ ReserveRunStart(a) \/ PrepareRun(a) \/ StartFails(a)
               \/ RegisterDebugSession(a) \/ PublishStarted(a)
      BY <3>1 DEF ReserveRunStart, PrepareRun, StartFails, StartReturns,
                  RegisterDebugSession, PublishStarted
    <3>2. ASSUME NEW r \in Runs, SpawnChild(a, r) PROVE EndInv'
      BY <3>2 DEF SpawnChild
    <3>3. CASE Activate(a)
      <4>1. startRun[a] \in Runs /\ watcher[startRun[a]] = "none"
        BY <3>3 DEF Activate, IInv, StartInv
      <4>2. QED
        BY <3>3, <4>1 DEF Activate
    <3>4. CASE SpawnTasks(a)
      <4>1. startRun[a] \in Runs
        BY <3>4 DEF SpawnTasks
      <4>2. QED
        BY <3>4, <4>1 DEF SpawnTasks
    <3>5. QED
      BY <2>1, <3>1, <3>2, <3>3, <3>4 DEF StartStep
  <2>2. ASSUME NEW s \in Stops, StopProceeds(s) PROVE EndInv'
    BY <2>2 DEF StopProceeds, StopStep, Remove, SignalTerminate, CancelStopping,
                ConfirmStopping, PublishStopRequested, GraceExpires, SignalKill,
                CompleteStopEscalation, PublishKillFailed
  <2>3. ASSUME NEW r \in Runs, RunStep(r) PROVE EndInv'
    <3>1. CASE RecordLeaderExit(r)
      BY <3>1 DEF RecordLeaderExit, Remove
    <3>2. CASE RecordWaitFailure(r)
      BY <3>2 DEF RecordWaitFailure, Remove
    <3>3. CASE AutoStopFindsNoRun(r)
      BY <3>3 DEF AutoStopFindsNoRun
    <3>4. ASSUME NEW s \in Stops, StopRun(s, r) \/ AutoStop(s, r) PROVE EndInv'
      BY <3>4 DEF StopRun, AutoStop, MarkStopping
    <3>5. CASE ReadLine(r) \/ PublishLine(r) \/ ReaderEnds(r)
      BY <3>5 DEF ReadLine, PublishLine, ReaderEnds, ReaderStep
    <3>6. CASE LeaderExits(r) \/ Fork(r) \/ DescendantsExit(r)
      BY <3>6 DEF LeaderExits, Fork, DescendantsExit
    <3>7. QED
      BY <2>3, <3>1, <3>2, <3>3, <3>4, <3>5, <3>6 DEF RunStep
  <2>4. CASE SwitchStep
    BY <2>4 DEF SwitchStep, BeginWorkspaceSwitch, CancelWorkspaceSwitch,
                CompleteWorkspaceSwitch
  <2> QED
    BY <2>1, <2>2, <2>3, <2>4 DEF Next
<1>3. EndInv /\ UNCHANGED vars => EndInv'
  BY DEF EndInv, vars, registry, history
<1>4. QED
  BY <1>1, <1>2, <1>3, TypeCorrect, InductiveInvariant, PTL DEF Spec

(* Only a line published under the registry's lock takes a reader from holding *)
(* to reading, and then the session still matches.                             *)
LEMMA OnlyPublishLineResumes ==
  ASSUME TypeOK, IInv, EndInv, [Next]_vars, NEW r \in Runs,
         reader[r] = "holding", reader'[r] = "reading"
  PROVE  SessionMatches(r) /\ watcher' = watcher
<1> USE DEF TypeOK, registry, starters, stops, system, history
<1>1. ASSUME NEW a \in Starters, StartStep(a) PROVE FALSE
  <2>1. CASE SpawnTasks(a)
    <3>1. startRun[a] \in Runs /\ reader[startRun[a]] = "none"
      BY <2>1 DEF SpawnTasks, IInv, StartInv, Launched, EndInv
    <3>2. QED
      BY <2>1, <3>1 DEF SpawnTasks
  <2>2. CASE ~SpawnTasks(a)
    <3>1. reader' = reader
      BY <1>1, <2>2 DEF StartStep, ReserveRunStart, PrepareRun, StartFails,
             SpawnChild, Activate, RegisterDebugSession, PublishStarted
    <3>2. QED
      BY <3>1
  <2>3. QED
    BY <2>1, <2>2
<1>2. ASSUME NEW s \in Stops, StopProceeds(s) PROVE FALSE
  BY <1>2 DEF StopProceeds, StopStep, SignalTerminate, CancelStopping,
              ConfirmStopping, PublishStopRequested, GraceExpires, SignalKill,
              CompleteStopEscalation, PublishKillFailed
<1>3. ASSUME NEW q \in Runs, RunStep(q)
      PROVE  SessionMatches(r) /\ watcher' = watcher
  <2>1. CASE PublishLine(q)
    BY <2>1 DEF PublishLine, ReaderStep
  <2>2. CASE ReadLine(q) \/ ReaderEnds(q)
    BY <2>2 DEF ReadLine, ReaderEnds, ReaderStep
  <2>3. CASE ~(PublishLine(q) \/ ReadLine(q) \/ ReaderEnds(q))
    <3>1. reader' = reader
      BY <1>3, <2>3 DEF RunStep, RecordLeaderExit, RecordWaitFailure,
             AutoStopFindsNoRun, StopRun, AutoStop, MarkStopping, LeaderExits,
             Fork, DescendantsExit
    <3>2. QED
      BY <3>1
  <2>4. QED
    BY <2>1, <2>2, <2>3
<1>4. CASE SwitchStep
  BY <1>4 DEF SwitchStep, BeginWorkspaceSwitch, CancelWorkspaceSwitch,
              CompleteWorkspaceSwitch
<1>5. CASE UNCHANGED vars
  BY <1>5 DEF vars
<1>6. QED
  BY <1>1, <1>2, <1>3, <1>4, <1>5 DEF Next

(* No line is published after the run's exit or after a delivered stop. *)
THEOREM OutputEndsWithTheRun == Spec => OutputPrecedesTheEnd
<1> DEFINE Ordered(r) ==
        reader[r] = "holding" /\ reader'[r] = "reading" =>
            /\ watcher[r] = "done" => r \in exitObservationFailed
            /\ r \notin stopConfirmed
<1>1. TypeOK /\ IInv /\ EndInv /\ [Next]_vars => \A r \in Runs : Ordered(r)
  <2> SUFFICES ASSUME TypeOK, IInv, EndInv, [Next]_vars, NEW r \in Runs,
                      reader[r] = "holding", reader'[r] = "reading"
               PROVE  /\ watcher[r] = "done" => r \in exitObservationFailed
                      /\ r \notin stopConfirmed
    OBVIOUS
  <2>1. SessionMatches(r)
    BY OnlyPublishLineResumes
  <2>2. QED
    BY <2>1 DEF SessionMatches, EndInv
<1>2. QED
  BY <1>1, TypeCorrect, InductiveInvariant, EndIsRecorded, PTL
     DEF Spec, OutputPrecedesTheEnd

--------------------------------------------------------------------------------
(* What a stop is owed, where every signal can be delivered (kill(2) fails with *)
(* ESRCH at most, which counts as delivered).                                   *)

\* A stop of r is under way: its command, or the timer the command left behind.
Escalating(r) == \E s \in Stops : stopRun[s] = r /\ stopPc[s] # "idle"

\* Stops aim at runs the renderer knows, and mark them for as long as they are in the slot;
\* what is marked is being escalated or has been; a delivered KILL has emptied the group and
\* nothing forks in it again.
DeliveryInv ==
    /\ \A s \in Stops : stopPc[s] \notin {"termFailed", "killFailed"}
    /\ \A s \in Stops : stopPc[s] # "idle" =>
          stopRun[s] \in announced /\ (stopRun[s] \in active => stopRun[s] \in stopping)
    /\ \A s \in Stops : stopPc[s] = "killed" => stopRun[s] \notin descendants
    /\ \A r \in stopping : Escalating(r) \/ r \in escalationComplete
    /\ stopConfirmed \subseteq announced /\ stopConfirmed \cap active \subseteq stopping
    /\ \A r \in escalationComplete :
          r \in stopping /\ r \notin descendants \cup leaderExited \cup exitObservationFailed

\* A run is watched from the end of its start on, and a watcher that has ended has left its
\* report on the entry.
ReportInv ==
    /\ \A a \in Starters : startPc[a] \in {"spawned", "activated", "registered"} =>
          startRun[a] \notin announced
    /\ \A a \in Starters : startPc[a] = "published" => startRun[a] \in announced
    /\ \A r \in Runs : r \notin announced =>
          watcher[r] = "none" /\ r \notin stopping \cup streamsCancelled
    /\ \A r \in announced : leader[r] # "none"
    /\ \A r \in active : watcher[r] = "none" =>
          \E a \in Starters : Launched(a) /\ startRun[a] = r
    /\ \A r \in active : watcher[r] = "done" => r \in leaderExited \cup exitObservationFailed
    /\ \A r \in active : watcher[r] = "autostop" => r \in exitObservationFailed
    /\ \A r \in exitObservationFailed : watcher[r] = "autostop" \/ r \in stopping

LEMMA DeliveryAtFirst == Init => DeliveryInv /\ ReportInv
BY DEF Init, DeliveryInv, ReportInv

\* A command that is starting a run is never told that the session is over: nobody can have
\* stopped or outlived a run whose id has not left the backend.
LEMMA DebugLaunchMatches ==
    ASSUME TypeOK, IInv, ReportInv, NEW a \in Starters, startPc[a] = "activated"
    PROVE  SessionMatches(startRun[a])
BY DEF TypeOK, IInv, StartInv, Launched, ReportInv, SessionMatches

LEMMA ReportsAreKept ==
    ASSUME TypeOK, TypeOK', IInv, IInv', ReportInv, DeliveryInv, [Next]_vars PROVE ReportInv'
<1> USE DEF TypeOK, registry, starters, stops, system, history, ReportInv
<1>1. ASSUME NEW a \in Starters, StartStep(a) PROVE ReportInv'
  <2>1. CASE ReserveRunStart(a) \/ PrepareRun(a)
    BY <2>1 DEF ReserveRunStart, PrepareRun, Launched
  <2>2. CASE StartFails(a)
    BY <2>2 DEF StartFails, StartReturns, Launched
  <2>3. ASSUME NEW r \in Runs, SpawnChild(a, r) PROVE ReportInv'
    BY <2>3 DEF SpawnChild, Launched
  <2>4. CASE Activate(a)
    BY <2>4 DEF Activate, IInv, StartInv, Launched
  <2>5. CASE RegisterDebugSession(a)
    <3>1. SessionMatches(startRun[a])
      BY <2>5, DebugLaunchMatches DEF RegisterDebugSession
    <3> QED
      BY <2>5, <3>1 DEF RegisterDebugSession, Launched
  <2>6. CASE PublishStarted(a)
    <3>1. startRun[a] \in Runs /\ leader[startRun[a]] # "none" /\ \A b \in Starters : Busy(b) => b = a
      BY <2>6 DEF PublishStarted, IInv, StartInv, Launched, Busy
    <3> QED
      BY <2>6, <3>1 DEF PublishStarted, Launched, Busy
  <2>7. CASE SpawnTasks(a)
    <3>1. startRun[a] \in Runs /\ startRun[a] \in announced
      BY <2>7 DEF SpawnTasks
    <3>2. /\ UNCHANGED <<registry, announced, leader>>
          /\ watcher' = [watcher EXCEPT ![startRun[a]] = "waiting"]
          /\ startPc' = [startPc EXCEPT ![a] = "idle"]
          /\ startRun' = [startRun EXCEPT ![a] = NoRun]
      BY <2>7 DEF SpawnTasks, StartReturns
    <3>3. \A r \in active : watcher'[r] = "none" =>
            \E b \in Starters : Launched(b)' /\ startRun'[b] = r
      <4> SUFFICES ASSUME NEW r \in active, watcher'[r] = "none"
                   PROVE  \E b \in Starters : Launched(b)' /\ startRun'[b] = r
        OBVIOUS
      <4>1. r # startRun[a] /\ watcher[r] = "none"
        BY <3>1, <3>2
      <4>2. PICK b \in Starters : Launched(b) /\ startRun[b] = r
        BY <4>1
      <4>3. startPc'[b] = startPc[b] /\ startRun'[b] = startRun[b]
        BY <3>2, <4>1, <4>2
      <4> QED
        BY <4>2, <4>3 DEF Launched
    <3>4. \A b \in Starters : startPc'[b] # "idle" => startPc'[b] = startPc[b] /\ startRun'[b] = startRun[b]
      BY <3>2
    <3>5. \A r \in Runs : \/ watcher'[r] = watcher[r]
                          \/ r = startRun[a] /\ watcher'[r] = "waiting"
      <4>1. watcher \in [Runs -> {"none", "waiting", "autostop", "done"}]
        OBVIOUS
      <4> QED
        BY <3>1, <3>2, <4>1
    <3>6. /\ \A r \in Runs : r \notin announced' =>
                watcher'[r] = "none" /\ r \notin stopping' \cup streamsCancelled'
          /\ \A r \in active' : watcher'[r] = "done" => r \in (leaderExited \cup exitObservationFailed)'
          /\ \A r \in active' : watcher'[r] = "autostop" => r \in exitObservationFailed'
      BY <3>1, <3>2, <3>5
    <3>7. \A r \in exitObservationFailed' : watcher'[r] = "autostop" \/ r \in stopping'
      <4>1. startRun[a] \notin exitObservationFailed /\ exitObservationFailed \subseteq Runs
        BY <2>7 DEF SpawnTasks, IInv, StartInv, Launched
      <4> QED
        BY <3>2, <3>5, <4>1
    <3> QED
      BY <3>2, <3>3, <3>4, <3>6, <3>7
  <2> QED
    BY <1>1, <2>1, <2>2, <2>3, <2>4, <2>5, <2>6, <2>7 DEF StartStep
<1>2. ASSUME NEW s \in Stops, StopProceeds(s) PROVE ReportInv'
  <2> USE DEF StopStep
  <2>1. CASE SignalTerminate(s) \/ PublishStopRequested(s) \/ GraceExpires(s) \/ PublishKillFailed(s)
    BY <2>1 DEF SignalTerminate, PublishStopRequested, GraceExpires, PublishKillFailed, Launched
  <2>2. CASE ConfirmStopping(s)
    BY <2>2 DEF ConfirmStopping, Launched, DeliveryInv
  <2>3. CASE SignalKill(s)
    BY <2>3 DEF SignalKill, Launched
  <2>4. CASE CompleteStopEscalation(s)
    BY <2>4 DEF CompleteStopEscalation, Remove, Launched
  <2>5. CASE CancelStopping(s)
    BY <2>5 DEF CancelStopping, DeliveryInv
  <2> QED
    BY <1>2, <2>1, <2>2, <2>3, <2>4, <2>5 DEF StopProceeds
<1>3. ASSUME NEW r \in Runs, RunStep(r) PROVE ReportInv'
  <2>1. CASE RecordLeaderExit(r)
    BY <2>1 DEF RecordLeaderExit, Remove, Launched
  <2>2. CASE RecordWaitFailure(r)
    BY <2>2 DEF RecordWaitFailure, Remove, Launched
  <2>3. CASE AutoStopFindsNoRun(r)
    BY <2>3 DEF AutoStopFindsNoRun, Launched
  <2>4. ASSUME NEW s \in Stops, StopRun(s, r) \/ AutoStop(s, r) PROVE ReportInv'
    BY <2>4 DEF StopRun, AutoStop, MarkStopping, Launched
  <2>5. CASE ReadLine(r) \/ PublishLine(r) \/ ReaderEnds(r)
    BY <2>5 DEF ReadLine, PublishLine, ReaderEnds, ReaderStep, Launched
  <2>6. CASE LeaderExits(r) \/ Fork(r) \/ DescendantsExit(r)
    BY <2>6 DEF LeaderExits, Fork, DescendantsExit, Launched
  <2> QED
    BY <1>3, <2>1, <2>2, <2>3, <2>4, <2>5, <2>6 DEF RunStep
<1>4. CASE SwitchStep
  BY <1>4 DEF SwitchStep, BeginWorkspaceSwitch, CancelWorkspaceSwitch, CompleteWorkspaceSwitch, Launched
<1>5. CASE UNCHANGED vars
  BY <1>5 DEF vars, Launched
<1> QED
  BY <1>1, <1>2, <1>3, <1>4, <1>5 DEF Next

LEMMA DeliveryIsKept ==
    ASSUME TypeOK, TypeOK', IInv, ReportInv, DeliveryInv, ~SignalErrors, [Next]_vars
    PROVE  DeliveryInv'
<1> USE DEF TypeOK, registry, starters, stops, system, history, DeliveryInv, Escalating
<1>1. ASSUME NEW a \in Starters, StartStep(a) PROVE DeliveryInv'
  <2>1. CASE ReserveRunStart(a) \/ PrepareRun(a) \/ StartFails(a) \/ PublishStarted(a) \/ SpawnTasks(a)
    BY <2>1 DEF ReserveRunStart, PrepareRun, StartFails, PublishStarted, SpawnTasks
  <2>2. ASSUME NEW r \in Runs, SpawnChild(a, r) PROVE DeliveryInv'
    BY <2>2 DEF SpawnChild
  <2>3. CASE Activate(a)
    <3>1. startRun[a] \notin announced
      BY <2>3 DEF Activate, ReportInv
    <3> QED
      BY <2>3, <3>1 DEF Activate
  <2>4. CASE RegisterDebugSession(a)
    BY <2>4 DEF RegisterDebugSession
  <2> QED
    BY <1>1, <2>1, <2>2, <2>3, <2>4 DEF StartStep
<1>2. ASSUME NEW s \in Stops, StopProceeds(s) PROVE DeliveryInv'
  <2> USE DEF StopStep, StopPcs
  <2>1. CASE SignalTerminate(s)
    BY <2>1 DEF SignalTerminate
  <2>2. CASE ConfirmStopping(s)
    BY <2>2 DEF ConfirmStopping
  <2>3. CASE PublishStopRequested(s)
    BY <2>3 DEF PublishStopRequested
  <2>4. CASE GraceExpires(s)
    BY <2>4 DEF GraceExpires
  <2>5. CASE SignalKill(s)
    BY <2>5 DEF SignalKill
  <2>6. CASE CompleteStopEscalation(s)
    BY <2>6 DEF CompleteStopEscalation, Remove
  <2>7. CASE CancelStopping(s) \/ PublishKillFailed(s)
    BY <2>7 DEF CancelStopping, PublishKillFailed
  <2> QED
    BY <1>2, <2>1, <2>2, <2>3, <2>4, <2>5, <2>6, <2>7 DEF StopProceeds
<1>3. ASSUME NEW r \in Runs, RunStep(r) PROVE DeliveryInv'
  <2>1. CASE RecordLeaderExit(r)
    BY <2>1 DEF RecordLeaderExit, Remove
  <2>2. CASE RecordWaitFailure(r)
    BY <2>2 DEF RecordWaitFailure, Remove
  <2>3. CASE AutoStopFindsNoRun(r)
    BY <2>3 DEF AutoStopFindsNoRun
  <2>4. ASSUME NEW s \in Stops, MarkStopping(s, r), r \in announced PROVE DeliveryInv'
    BY <2>4 DEF MarkStopping
  <2>5. ASSUME NEW s \in Stops, AutoStop(s, r) PROVE r \in announced
    BY <2>5 DEF AutoStop, ReportInv
  <2>6. CASE ReadLine(r) \/ PublishLine(r) \/ ReaderEnds(r)
    BY <2>6 DEF ReadLine, PublishLine, ReaderEnds, ReaderStep
  <2>7. CASE LeaderExits(r) \/ DescendantsExit(r)
    BY <2>7 DEF LeaderExits, DescendantsExit
  <2>8. CASE Fork(r)
    BY <2>8 DEF Fork, IInv, StopInv, LeaderInv
  <2> QED
    BY <1>3, <2>1, <2>2, <2>3, <2>4, <2>5, <2>6, <2>7, <2>8 DEF RunStep, StopRun, AutoStop
<1>4. CASE SwitchStep
  BY <1>4 DEF SwitchStep, BeginWorkspaceSwitch, CancelWorkspaceSwitch, CompleteWorkspaceSwitch
<1>5. CASE UNCHANGED vars
  BY <1>5 DEF vars
<1> QED
  BY <1>1, <1>2, <1>3, <1>4, <1>5 DEF Next

\* Both hold in every state, where signals are delivered.
THEOREM DeliveryIsTracked == Spec /\ ~SignalErrors => [](DeliveryInv /\ ReportInv)
<1> SUFFICES ASSUME ~SignalErrors PROVE Spec => [](DeliveryInv /\ ReportInv)
  OBVIOUS
<1>1. TypeOK /\ TypeOK' /\ IInv /\ IInv' /\ DeliveryInv /\ ReportInv /\ [Next]_vars
         => DeliveryInv' /\ ReportInv'
  BY DeliveryIsKept, ReportsAreKept
<1> QED
  BY <1>1, DeliveryAtFirst, TypeCorrect, InductiveInvariant, PTL DEF Spec

\* Once a stop was delivered, the slot is given back only when the leader is dead and the
\* group is empty, whoever removes the entry: the watcher, the timer of this stop or of
\* another.  A signal that fails breaks it (RunStopRollback.cfg).
THEOREM StopsEmptyTheGroup == Spec /\ ~SignalErrors => StopReleasesEmptyGroup
<1> DEFINE Emptied(r) ==
        r \in active /\ r \notin active' => leader[r] = "dead" /\ r \notin descendants
<1> SUFFICES ASSUME ~SignalErrors PROVE Spec => StopReleasesEmptyGroup
  OBVIOUS
<1>1. TypeOK /\ IInv /\ DeliveryInv /\ ReportInv /\ [Next]_vars => \A r \in stopConfirmed : Emptied(r)
  <2> SUFFICES ASSUME TypeOK, IInv, DeliveryInv, ReportInv, [Next]_vars, NEW r \in stopConfirmed,
                      r \in active, r \notin active'
               PROVE  leader[r] = "dead" /\ r \notin descendants
    OBVIOUS
  <2> USE DEF TypeOK, registry, starters, stops, system, history
  <2>1. r \in stopping
    BY DEF DeliveryInv
  <2>2. r \in escalationComplete => leader[r] = "dead" /\ r \notin descendants
    BY DEF IInv, LeaderInv, DeliveryInv
  <2>3. ASSUME NEW a \in Starters, StartStep(a) PROVE FALSE
    BY <2>3 DEF StartStep, ReserveRunStart, PrepareRun, StartFails, SpawnChild, Activate,
       RegisterDebugSession, PublishStarted, SpawnTasks
  <2>4. ASSUME NEW s \in Stops, StopProceeds(s) PROVE leader[r] = "dead" /\ r \notin descendants
    <3>1. CASE CompleteStopEscalation(s)
      <4>1. r = stopRun[s] /\ stopPc[s] = "killed"
        BY <3>1 DEF CompleteStopEscalation, StopStep, Remove
      <4> QED
        BY <4>1 DEF IInv, StopInv, DeliveryInv
    <3>2. CASE ~CompleteStopEscalation(s)
      BY <2>4, <3>2 DEF StopProceeds, StopStep, SignalTerminate, CancelStopping, ConfirmStopping,
         PublishStopRequested, GraceExpires, SignalKill, PublishKillFailed, DeliveryInv
    <3> QED
      BY <3>1, <3>2
  <2>5. ASSUME NEW q \in Runs, RunStep(q) PROVE r \in escalationComplete
    <3>1. CASE RecordLeaderExit(q) \/ RecordWaitFailure(q)
      BY <2>1, <3>1 DEF RecordLeaderExit, RecordWaitFailure, Remove
    <3>2. CASE ~(RecordLeaderExit(q) \/ RecordWaitFailure(q))
      <4>1. active' = active
        BY <2>5, <3>2 DEF RunStep, AutoStopFindsNoRun, StopRun, AutoStop, MarkStopping, ReadLine,
           PublishLine, ReaderEnds, ReaderStep, LeaderExits, Fork, DescendantsExit
      <4> QED
        BY <4>1
    <3> QED
      BY <3>1, <3>2
  <2>6. CASE SwitchStep \/ UNCHANGED vars
    BY <2>6 DEF SwitchStep, BeginWorkspaceSwitch, CancelWorkspaceSwitch, CompleteWorkspaceSwitch, vars
  <2> QED
    BY <2>2, <2>3, <2>4, <2>5, <2>6 DEF Next
<1> QED
  BY <1>1, DeliveryIsTracked, TypeCorrect, InductiveInvariant, PTL DEF Spec, StopReleasesEmptyGroup

\* Who still has to act on a run that is stopped or cannot be observed: a stop that is under
\* way, a watcher that will ask for one, a watcher that will hear of the leader's death, or
\* the command that is about to spawn that watcher.
StopIsOwed(r) ==
    \/ Escalating(r)
    \/ watcher[r] = "autostop"
    \/ watcher[r] = "waiting" /\ leader[r] = "dead"
    \/ \E a \in Starters : Launched(a) /\ startRun[a] = r
NoStopIsLost == \A r \in active \cap (stopConfirmed \cup exitObservationFailed) : StopIsOwed(r)

\* No stop is lost: as long as a delivered stop, or a run whose exit could not be observed,
\* has not given the slot back, somebody who is scheduled is still going to act on it
\* (StopFreesSlot, without the scheduler).
THEOREM StopsAreNeverLost == Spec /\ ~SignalErrors => []NoStopIsLost
<1> SUFFICES ASSUME ~SignalErrors PROVE Spec => []NoStopIsLost
  OBVIOUS
<1>1. TypeOK /\ IInv /\ DeliveryInv /\ ReportInv => NoStopIsLost
  <2> SUFFICES ASSUME TypeOK, IInv, DeliveryInv, ReportInv, NEW r \in active,
                      r \in stopConfirmed \cup exitObservationFailed
               PROVE  StopIsOwed(r)
    BY DEF NoStopIsLost
  <2>1. r \in Runs /\ watcher[r] \in {"none", "waiting", "autostop", "done"}
    BY DEF TypeOK
  <2>2. r \in stopping \/ watcher[r] = "autostop"
    BY DEF DeliveryInv, ReportInv
  <2>3. CASE r \in escalationComplete
    <3>1. leader[r] = "dead" /\ r \notin leaderExited \cup exitObservationFailed
      BY <2>3 DEF IInv, LeaderInv, DeliveryInv
    <3>2. watcher[r] # "done"
      BY <3>1 DEF ReportInv
    <3> QED
      BY <2>1, <3>1, <3>2 DEF StopIsOwed, ReportInv
  <2>4. CASE r \notin escalationComplete
    BY <2>2, <2>4 DEF DeliveryInv, StopIsOwed
  <2> QED
    BY <2>3, <2>4
<1> QED
  BY <1>1, DeliveryIsTracked, TypeCorrect, InductiveInvariant, PTL
================================================================================

---------------------------- MODULE RunSupervision ----------------------------
(***************************************************************************)
(* The managed-process supervisor of runner/: the RunRegistry (state.rs,   *)
(* state/lifecycle.rs), the start and stop commands (commands.rs), the     *)
(* watcher that awaits the child, the TERM -> grace -> KILL timers, the    *)
(* stream readers (output.rs) and the workspace-switch gate.  Every action *)
(* is the part of a handler between two acquisitions of the `runs` lock.   *)
(***************************************************************************)
EXTENDS Naturals

CONSTANTS
    Runs,          \* run ids; start_run mints a fresh one for every launch
    Starters,      \* concurrent invocations of start_run
    Stops,         \* concurrent invocations of request_process_stop
    MaxSwitches,   \* bound on completed workspace switches
    SignalErrors   \* whether kill(2) may fail with something else than ESRCH

ASSUME SupervisionAssumption ==
    /\ MaxSwitches \in Nat
    /\ SignalErrors \in BOOLEAN
    /\ Runs \cap {"free", "starting", "switching", "none"} = {}

NoRun == "none"

VARIABLES
    \* RunRegistry, guarded by the `runs` mutex
    active,            \* keys of the `active` map
    stopping, leaderExited, exitObservationFailed, escalationComplete,
                       \* the active runs whose ActiveRun flag is set
    streamsCancelled,  \* runs whose cancellation watch channel holds true
    starting,          \* reservations not yet activated or dropped
    workspaceSwitching,
    \* the rest of RuntimeState
    generation,        \* completed switches: which workspace root is installed
    ring,              \* by kind, the runs with a retained runtime event
    \* the tasks
    startPc, startRun, startGen, \* start_run
    stopPc, stopRun,             \* request_process_stop and its timer
    watcher,                     \* the task awaiting the child
    reader,                      \* the stream readers of a run
    announced,         \* runs whose id has left the backend (process.started)
    \* the operating system
    leader,            \* the process leader: "none", "alive", "dead"
    descendants,       \* runs with a live descendant in the process group
    \* history
    runGen,            \* the generation a run was prepared in
    stopConfirmed           \* runs with a stop that confirm_stopping accepted

registry == <<active, stopping, leaderExited, exitObservationFailed,
              escalationComplete, streamsCancelled, starting,
              workspaceSwitching>>
starters == <<startPc, startRun, startGen>>
stops == <<stopPc, stopRun>>
system == <<leader, descendants>>
history == <<runGen, stopConfirmed>>
vars == <<registry, generation, ring, starters, stops, watcher, reader,
          announced, system, history>>

StartPcs == {"idle", "reserved", "prepared", "spawned", "activated",
             "registered", "published"}
StopPcs == {"idle", "marked", "termFailed", "termed", "confirmed", "grace",
            "kill", "killed", "killFailed"}
\* "session" events are published under the lock or through the run's
\* session; "stop" events (stop_requested, kill_failed) are published bare.
EventKinds == {"session", "stop"}

TypeOK ==
    /\ active \subseteq Runs
    /\ stopping \subseteq active
    /\ leaderExited \subseteq active
    /\ exitObservationFailed \subseteq active
    /\ escalationComplete \subseteq active
    /\ streamsCancelled \subseteq Runs
    /\ starting \in Nat
    /\ workspaceSwitching \in BOOLEAN
    /\ generation \in Nat
    /\ ring \in [EventKinds -> SUBSET Runs]
    /\ startPc \in [Starters -> StartPcs]
    /\ startRun \in [Starters -> Runs \cup {NoRun}]
    /\ \A a \in Starters :
          startPc[a] \in {"spawned", "activated", "registered", "published"} =>
             startRun[a] \in Runs
    /\ startGen \in [Starters -> Nat]
    /\ stopPc \in [Stops -> StopPcs]
    /\ stopRun \in [Stops -> Runs \cup {NoRun}]
    /\ \A s \in Stops : stopPc[s] # "idle" => stopRun[s] \in Runs
    /\ watcher \in [Runs -> {"none", "waiting", "autostop", "done"}]
    /\ reader \in [Runs -> {"none", "reading", "holding", "done"}]
    /\ announced \subseteq Runs
    /\ leader \in [Runs -> {"none", "alive", "dead"}]
    /\ descendants \subseteq Runs
    /\ runGen \in [Runs -> Nat]
    /\ stopConfirmed \subseteq Runs

Init ==
    /\ active = {} /\ stopping = {} /\ leaderExited = {}
    /\ exitObservationFailed = {} /\ escalationComplete = {}
    /\ streamsCancelled = {}
    /\ starting = 0
    /\ workspaceSwitching = FALSE
    /\ generation = 0
    /\ ring = [k \in EventKinds |-> {}]
    /\ startPc = [a \in Starters |-> "idle"]
    /\ startRun = [a \in Starters |-> NoRun]
    /\ startGen = [a \in Starters |-> 0]
    /\ stopPc = [s \in Stops |-> "idle"]
    /\ stopRun = [s \in Stops |-> NoRun]
    /\ watcher = [r \in Runs |-> "none"]
    /\ reader = [r \in Runs |-> "none"]
    /\ announced = {}
    /\ leader = [r \in Runs |-> "none"]
    /\ descendants = {}
    /\ runGen = [r \in Runs |-> 0]
    /\ stopConfirmed = {}

\* HashMap::remove on the registry: the entry goes with all its flags.
Remove(r) ==
    /\ active' = active \ {r}
    /\ stopping' = stopping \ {r}
    /\ leaderExited' = leaderExited \ {r}
    /\ exitObservationFailed' = exitObservationFailed \ {r}
    /\ escalationComplete' = escalationComplete \ {r}

\* Seeded fault: the exit and the confirmed stop do not end the session.
FaultySessionMatches(r) == ~workspaceSwitching /\ r \in active

\* session_matches: the run's streams may still be observed.
SessionMatches(r) ==
    /\ ~workspaceSwitching
    /\ r \in active
    /\ r \notin leaderExited
    /\ r \notin streamsCancelled

-------------------------------------------------------------------------------
(* start_run *)

\* RunStartReservation is dropped (a failed start) or consumed by activate.
ReleaseReservation == starting' = IF starting > 0 THEN starting - 1 ELSE 0

\* start_run returns; its locals go out of scope.
StartReturns(a) ==
    /\ startPc' = [startPc EXCEPT ![a] = "idle"]
    /\ startRun' = [startRun EXCEPT ![a] = NoRun]
    /\ startGen' = [startGen EXCEPT ![a] = 0]

\* reserve_run_start: refused while a switch, a start or a run is under way.
ReserveRunStart(a) ==
    /\ startPc[a] = "idle"
    /\ ~workspaceSwitching
    /\ starting = 0
    /\ active = {}
    /\ starting' = starting + 1
    /\ startPc' = [startPc EXCEPT ![a] = "reserved"]
    /\ UNCHANGED <<active, stopping, leaderExited, exitObservationFailed,
                   escalationComplete, streamsCancelled, workspaceSwitching,
                   generation, ring, startRun, startGen, stops, watcher,
                   reader, announced, system, history>>

\* workspace_root() and prepare_run: everything the launch uses is resolved
\* against the root installed now.
PrepareRun(a) ==
    /\ startPc[a] = "reserved"
    /\ startPc' = [startPc EXCEPT ![a] = "prepared"]
    /\ startGen' = [startGen EXCEPT ![a] = generation]
    /\ UNCHANGED <<registry, generation, ring, startRun, stops, watcher,
                   reader, announced, system, history>>

\* Any of the early returns before activate: no workspace, preparation,
\* environment, revalidation or spawn refused; the reservation is dropped.
StartFails(a) ==
    /\ startPc[a] \in {"reserved", "prepared"}
    /\ ReleaseReservation
    /\ StartReturns(a)
    /\ UNCHANGED <<active, stopping, leaderExited, exitObservationFailed,
                   escalationComplete, streamsCancelled, workspaceSwitching,
                   generation, ring, stops, watcher, reader, announced,
                   system, history>>

SpawnChild(a, r) ==
    /\ startPc[a] = "prepared"
    /\ leader[r] = "none"
    /\ leader' = [leader EXCEPT ![r] = "alive"]
    /\ runGen' = [runGen EXCEPT ![r] = startGen[a]]
    /\ startRun' = [startRun EXCEPT ![a] = r]
    /\ startPc' = [startPc EXCEPT ![a] = "spawned"]
    /\ UNCHANGED <<registry, generation, ring, startGen, stops, watcher,
                   reader, announced, descendants, stopConfirmed>>

\* RunStartReservation::activate: reservation and entry swap under one lock.
Activate(a) ==
    /\ startPc[a] = "spawned"
    /\ ReleaseReservation
    /\ active' = active \cup {startRun[a]}
    /\ startPc' = [startPc EXCEPT ![a] = "activated"]
    /\ UNCHANGED <<stopping, leaderExited, exitObservationFailed,
                   escalationComplete, streamsCancelled, workspaceSwitching,
                   generation, ring, startRun, startGen, stops, watcher,
                   reader, announced, system, history>>

\* register_debug_session of a debug launch.  When the session no longer
\* matches, the child is killed and awaited and start_run returns an error
\* with the entry still in `active`.
RegisterDebugSession(a) ==
    /\ startPc[a] = "activated"
    /\ IF SessionMatches(startRun[a])
       THEN /\ startPc' = [startPc EXCEPT ![a] = "registered"]
            /\ UNCHANGED <<startRun, startGen, leader>>
       ELSE /\ StartReturns(a)
            /\ leader' = [leader EXCEPT ![startRun[a]] = "dead"]
    /\ UNCHANGED <<registry, generation, ring, stops, watcher, reader,
                   announced, descendants, history>>

\* publish_event("process.started"): the renderer learns the run id.  A launch
\* without debug comes here straight from activate.
PublishStarted(a) ==
    /\ startPc[a] \in {"activated", "registered"}
    /\ ring' = [ring EXCEPT !["session"] = @ \cup {startRun[a]}]
    /\ announced' = announced \cup {startRun[a]}
    /\ startPc' = [startPc EXCEPT ![a] = "published"]
    /\ UNCHANGED <<registry, generation, startRun, startGen, stops, watcher,
                   reader, system, history>>

\* The readers and the watcher are spawned and start_run returns.
SpawnTasks(a) ==
    /\ startPc[a] = "published"
    /\ watcher' = [watcher EXCEPT ![startRun[a]] = "waiting"]
    /\ reader' = [reader EXCEPT ![startRun[a]] = "reading"]
    /\ StartReturns(a)
    /\ UNCHANGED <<registry, generation, ring, stops, announced, system,
                   history>>

-------------------------------------------------------------------------------
(* the watcher task: child.wait() *)

\* Seeded fault: the exit frees the slot although an escalation is pending.
EagerRecordLeaderExit(r) ==
    /\ watcher[r] = "waiting"
    /\ leader[r] = "dead"
    /\ watcher' = [watcher EXCEPT ![r] = "done"]
    /\ r \in active
    /\ streamsCancelled' = streamsCancelled \cup {r}
    /\ ring' = [ring EXCEPT !["session"] = @ \cup {r}]
    /\ Remove(r)
    /\ UNCHANGED <<starting, workspaceSwitching, generation, starters, stops,
                   reader, announced, system, history>>

\* Seeded fault: an exit after the KILL keeps the entry for ever.
StuckRecordLeaderExit(r) ==
    /\ watcher[r] = "waiting"
    /\ leader[r] = "dead"
    /\ watcher' = [watcher EXCEPT ![r] = "done"]
    /\ r \in active
    /\ streamsCancelled' = streamsCancelled \cup {r}
    /\ ring' = [ring EXCEPT !["session"] = @ \cup {r}]
    /\ IF r \notin stopping
       THEN Remove(r)
       ELSE /\ leaderExited' = leaderExited \cup {r}
            /\ UNCHANGED <<active, stopping, exitObservationFailed,
                           escalationComplete>>
    /\ UNCHANGED <<starting, workspaceSwitching, generation, starters, stops,
                   reader, announced, system, history>>

\* record_leader_exit_with: flags, cancellation, the process.exited event and
\* the removal of the entry happen under one hold of the lock.  The entry is
\* still there (WatchedRunsAreActive, part of the inductive invariant).
RecordLeaderExit(r) ==
    /\ watcher[r] = "waiting"
    /\ leader[r] = "dead"
    /\ watcher' = [watcher EXCEPT ![r] = "done"]
    /\ r \in active
    /\ streamsCancelled' = streamsCancelled \cup {r}
    /\ ring' = [ring EXCEPT !["session"] = @ \cup {r}]
    /\ IF r \notin stopping \/ r \in escalationComplete
       THEN Remove(r)
       ELSE /\ leaderExited' = leaderExited \cup {r}
            /\ UNCHANGED <<active, stopping, exitObservationFailed,
                           escalationComplete>>
    /\ UNCHANGED <<starting, workspaceSwitching, generation, starters, stops,
                   reader, announced, system, history>>

\* Seeded fault: a run whose exit cannot be observed is forgotten.
ForgetfulRecordWaitFailure(r) ==
    /\ watcher[r] = "waiting"
    /\ r \in active
    /\ r \notin leaderExited
    /\ watcher' = [watcher EXCEPT ![r] = "done"]
    /\ ring' = [ring EXCEPT !["session"] = @ \cup {r}]
    /\ Remove(r)
    /\ UNCHANGED <<streamsCancelled, starting, workspaceSwitching, generation,
                   starters, stops, reader, announced, system, history>>

\* record_wait_failure_with: child.wait() itself failed.  A run nobody is
\* stopping yet is stopped by the watcher.
RecordWaitFailure(r) ==
    /\ watcher[r] = "waiting"
    /\ r \in active
    /\ r \notin leaderExited
    /\ watcher' = [watcher EXCEPT
                     ![r] = IF r \in stopping THEN "done" ELSE "autostop"]
    /\ ring' = [ring EXCEPT !["session"] = @ \cup {r}]
    /\ IF r \in stopping /\ r \in escalationComplete
       THEN Remove(r)
       ELSE /\ exitObservationFailed' = exitObservationFailed \cup {r}
            /\ UNCHANGED <<active, stopping, leaderExited, escalationComplete>>
    /\ UNCHANGED <<streamsCancelled, starting, workspaceSwitching, generation,
                   starters, stops, reader, announced, system, history>>

-------------------------------------------------------------------------------
(* request_process_stop *)

\* mark_stopping; an unknown run returns Ok(false) and changes nothing.
MarkStopping(s, r) ==
    /\ stopPc[s] = "idle"
    /\ r \in active
    /\ stopping' = stopping \cup {r}
    /\ stopPc' = [stopPc EXCEPT ![s] = "marked"]
    /\ stopRun' = [stopRun EXCEPT ![s] = r]
    /\ UNCHANGED <<active, leaderExited, exitObservationFailed,
                   escalationComplete, streamsCancelled, starting,
                   workspaceSwitching, generation, ring, starters, reader,
                   announced, system, history>>

\* stop_run, or the debugger's Stop, for a run the renderer knows.
StopRun(s, r) ==
    /\ r \in announced
    /\ MarkStopping(s, r)
    /\ UNCHANGED watcher

\* The watcher's own stop after a failed wait.
AutoStop(s, r) ==
    /\ watcher[r] = "autostop"
    /\ MarkStopping(s, r)
    /\ watcher' = [watcher EXCEPT ![r] = "done"]

AutoStopFindsNoRun(r) ==
    /\ watcher[r] = "autostop"
    /\ r \notin active
    /\ watcher' = [watcher EXCEPT ![r] = "done"]
    /\ UNCHANGED <<registry, generation, ring, starters, stops, reader,
                   announced, system, history>>

StopStep(s, from, to) ==
    /\ stopPc[s] = from
    /\ stopPc' = [stopPc EXCEPT ![s] = to]
    /\ stopRun' = [stopRun EXCEPT ![s] = IF to = "idle" THEN NoRun ELSE @]
    /\ UNCHANGED <<generation, starters, watcher, reader, announced, runGen>>

\* signal_process_tree(pid, Terminate).  The group may ignore TERM; a leader
\* that obeys takes a LeaderExits step.  ESRCH counts as success.
SignalTerminate(s) ==
    /\ \/ StopStep(s, "marked", "termed")
       \/ SignalErrors /\ StopStep(s, "marked", "termFailed")
    /\ UNCHANGED <<registry, ring, system, stopConfirmed>>

\* Seeded fault: a failed TERM drops the run whether or not it has exited.
DroppingCancelStopping(s) ==
    /\ stopPc[s] = "termFailed"
    /\ stopPc' = [stopPc EXCEPT ![s] = "idle"]
    /\ Remove(stopRun[s])
    /\ UNCHANGED <<stopRun, generation, starters, watcher, reader, announced,
                   runGen, streamsCancelled, starting, workspaceSwitching,
                   ring, system, stopConfirmed>>

\* TERM was not delivered: the stop is rolled back.
CancelStopping(s) ==
    LET r == stopRun[s] IN
    /\ StopStep(s, "termFailed", "idle")
    /\ IF r \in leaderExited
       THEN Remove(r)
       ELSE /\ stopping' = stopping \ {r}
            /\ UNCHANGED <<active, leaderExited, exitObservationFailed,
                           escalationComplete>>
    /\ UNCHANGED <<streamsCancelled, starting, workspaceSwitching, ring,
                   system, stopConfirmed>>

ConfirmStopping(s) ==
    LET r == stopRun[s] IN
    /\ StopStep(s, "termed", "confirmed")
    /\ stopConfirmed' = IF r \in stopping THEN stopConfirmed \cup {r} ELSE stopConfirmed
    /\ streamsCancelled' = IF r \in stopping
                           THEN streamsCancelled \cup {r}
                           ELSE streamsCancelled
    /\ UNCHANGED <<active, stopping, leaderExited, exitObservationFailed,
                   escalationComplete, starting, workspaceSwitching, ring,
                   system>>

\* publish_event("process.stop_requested"), then the grace timer is spawned.
PublishStopRequested(s) ==
    /\ StopStep(s, "confirmed", "grace")
    /\ ring' = [ring EXCEPT !["stop"] = @ \cup {stopRun[s]}]
    /\ UNCHANGED <<registry, system, stopConfirmed>>

\* The timer wakes: stopping_pid decides whether a KILL is still wanted.
GraceExpires(s) ==
    /\ StopStep(s, "grace",
                IF stopRun[s] \in stopping \ escalationComplete
                THEN "kill" ELSE "idle")
    /\ UNCHANGED <<registry, ring, system, stopConfirmed>>

\* signal_process_tree(pid, Kill): SIGKILL cannot be ignored, so a delivered
\* one empties the whole group.
SignalKill(s) ==
    LET r == stopRun[s] IN
    /\ \/ /\ StopStep(s, "kill", "killed")
          /\ leader' = [leader EXCEPT ![r] = "dead"]
          /\ descendants' = descendants \ {r}
       \/ /\ SignalErrors
          /\ StopStep(s, "kill", "killFailed")
          /\ UNCHANGED system
    /\ UNCHANGED <<registry, ring, stopConfirmed>>

CompleteStopEscalation(s) ==
    LET r == stopRun[s] IN
    /\ StopStep(s, "killed", "idle")
    /\ IF r \in stopping /\ r \in leaderExited \cup exitObservationFailed
       THEN Remove(r)
       ELSE /\ escalationComplete' = IF r \in stopping
                                     THEN escalationComplete \cup {r}
                                     ELSE escalationComplete
            /\ UNCHANGED <<active, stopping, leaderExited,
                           exitObservationFailed>>
    /\ UNCHANGED <<streamsCancelled, starting, workspaceSwitching, ring,
                   system, stopConfirmed>>

\* publish_event("process.kill_failed"): the entry is kept.
PublishKillFailed(s) ==
    /\ StopStep(s, "killFailed", "idle")
    /\ ring' = [ring EXCEPT !["stop"] = @ \cup {stopRun[s]}]
    /\ UNCHANGED <<registry, system, stopConfirmed>>

-------------------------------------------------------------------------------
(* stream readers *)

ReaderStep(r, from, to) ==
    /\ reader[r] = from
    /\ reader' = [reader EXCEPT ![r] = to]
    /\ UNCHANGED <<registry, generation, starters, stops, watcher, announced,
                   system, history>>

\* A line arrives from the leader or from a descendant that inherited the
\* pipe; run_session_is_current is checked before it is looked at.
ReadLine(r) ==
    /\ leader[r] = "alive" \/ r \in descendants
    /\ ReaderStep(r, "reading", IF SessionMatches(r) THEN "holding" ELSE "done")
    /\ UNCHANGED ring

\* The line waited for the emission gate; with_current_run_session checks
\* again and publishes under the lock.
PublishLine(r) ==
    /\ ReaderStep(r, "holding", IF SessionMatches(r) THEN "reading" ELSE "done")
    /\ ring' = IF SessionMatches(r) THEN [ring EXCEPT !["session"] = @ \cup {r}] ELSE ring

\* Cancellation wins the select, or the pipe is at end of file.
ReaderEnds(r) ==
    /\ \/ r \in streamsCancelled
       \/ leader[r] = "dead" /\ r \notin descendants /\ reader[r] = "reading"
    /\ \/ ReaderStep(r, "reading", "done")
       \/ ReaderStep(r, "holding", "done")
    /\ UNCHANGED ring

-------------------------------------------------------------------------------
(* workspace switch, driven by commands/workspace.rs *)

BeginWorkspaceSwitch ==
    /\ ~workspaceSwitching
    /\ active = {}
    /\ starting = 0
    /\ workspaceSwitching' = TRUE
    /\ UNCHANGED <<active, stopping, leaderExited, exitObservationFailed,
                   escalationComplete, streamsCancelled, starting, generation,
                   ring, starters, stops, watcher, reader, announced, system,
                   history>>

CancelWorkspaceSwitch ==
    /\ workspaceSwitching
    /\ workspaceSwitching' = FALSE
    /\ UNCHANGED <<active, stopping, leaderExited, exitObservationFailed,
                   escalationComplete, streamsCancelled, starting, generation,
                   ring, starters, stops, watcher, reader, announced, system,
                   history>>

CompleteWorkspaceSwitch ==
    /\ workspaceSwitching
    /\ generation < MaxSwitches
    /\ generation' = generation + 1
    /\ ring' = [k \in EventKinds |-> {}]
    /\ workspaceSwitching' = FALSE
    /\ UNCHANGED <<active, stopping, leaderExited, exitObservationFailed,
                   escalationComplete, streamsCancelled, starting, starters,
                   stops, watcher, reader, announced, system, history>>

-------------------------------------------------------------------------------
(* the operating system *)

LeaderExits(r) ==
    /\ leader[r] = "alive"
    /\ leader' = [leader EXCEPT ![r] = "dead"]
    /\ UNCHANGED <<registry, generation, ring, starters, stops, watcher,
                   reader, announced, descendants, history>>

Fork(r) ==
    /\ leader[r] = "alive"
    /\ descendants' = descendants \cup {r}
    /\ UNCHANGED <<registry, generation, ring, starters, stops, watcher,
                   reader, announced, leader, history>>

DescendantsExit(r) ==
    /\ r \in descendants
    /\ descendants' = descendants \ {r}
    /\ UNCHANGED <<registry, generation, ring, starters, stops, watcher,
                   reader, announced, leader, history>>

-------------------------------------------------------------------------------
StartStep(a) ==
    \/ ReserveRunStart(a) \/ PrepareRun(a) \/ StartFails(a)
    \/ \E r \in Runs : SpawnChild(a, r)
    \/ Activate(a) \/ RegisterDebugSession(a) \/ PublishStarted(a)
    \/ SpawnTasks(a)

\* What a stop does once it has marked the run, up to the end of its timer.
StopProceeds(s) ==
    \/ SignalTerminate(s) \/ CancelStopping(s) \/ ConfirmStopping(s)
    \/ PublishStopRequested(s) \/ GraceExpires(s) \/ SignalKill(s)
    \/ CompleteStopEscalation(s) \/ PublishKillFailed(s)

RunStep(r) ==
    \/ RecordLeaderExit(r) \/ RecordWaitFailure(r) \/ AutoStopFindsNoRun(r)
    \/ \E s \in Stops : StopRun(s, r) \/ AutoStop(s, r)
    \/ ReadLine(r) \/ PublishLine(r) \/ ReaderEnds(r)
    \/ LeaderExits(r) \/ Fork(r) \/ DescendantsExit(r)

SwitchStep ==
    BeginWorkspaceSwitch \/ CancelWorkspaceSwitch \/ CompleteWorkspaceSwitch

Next ==
    \/ \E a \in Starters : StartStep(a)
    \/ \E s \in Stops : StopProceeds(s)
    \/ \E r \in Runs : RunStep(r)
    \/ SwitchStep

Spec == Init /\ [][Next]_vars

\* Every spawned task is polled until it finishes: a start command runs to its
\* end, a stop and its timer run to theirs, and the watcher reports the result
\* of child.wait().  Nothing forces a user to start or stop a run, a process to
\* exit or print, or a workspace to be switched.
Fairness ==
    /\ \A a \in Starters :
          WF_vars(StartStep(a) /\ startPc[a] # "idle")
    /\ \A s \in Stops : WF_vars(StopProceeds(s))
    /\ \A r \in Runs :
          /\ WF_vars(RecordLeaderExit(r))
          /\ WF_vars(AutoStopFindsNoRun(r) \/ \E s \in Stops : AutoStop(s, r))

FairSpec == Spec /\ Fairness

-------------------------------------------------------------------------------
(* Properties *)

Pending(a) == startPc[a] \in {"reserved", "prepared", "spawned"}

\* README.md of runner/, invariants 1 and 2: one process at most is starting
\* or running, however many commands race for the slot, and a workspace
\* switch never overlaps one.
SlotExclusive ==
    /\ \A a, b \in Starters : Pending(a) /\ Pending(b) => a = b
    /\ \A r1, r2 \in active : r1 = r2
    /\ \A a \in Starters : Pending(a) => active = {}
    /\ workspaceSwitching => active = {} /\ \A a \in Starters : ~Pending(a)

\* The registry's slot covers the operating system's processes: whatever mix
\* of exits, failed waits and failed signals emptied the slot before, a second
\* leader is never spawned while one is alive.
OneLeader ==
    \A r1, r2 \in Runs : leader[r1] = "alive" /\ leader[r2] = "alive" => r1 = r2

\* Events are cleared with the workspace: no output, start, exit or failed
\* wait of a run prepared in an earlier workspace is ever retained again.
RingInWorkspace ==
    \A r \in ring["session"] : runGen[r] = generation

\* Terminal-event ordering: a reader that waited for the emission gate does not
\* publish its line after the run's process.exited, nor after a delivered stop.
OutputPrecedesTheEnd ==
    [][\A r \in Runs :
         reader[r] = "holding" /\ reader'[r] = "reading" =>
            /\ watcher[r] = "done" => r \in exitObservationFailed
            /\ r \notin stopConfirmed]_vars

\* README.md of runner/, lines 97 and 98: once a stop was delivered, the slot
\* is given back only when the leader is dead and the escalation has cleared
\* the process group of descendants too.
StopReleasesEmptyGroup ==
    [][\A r \in stopConfirmed :
         r \in active /\ r \notin active' =>
            leader[r] = "dead" /\ r \notin descendants]_vars

\* A delivered stop gives the slot back, whoever reports first: the watcher,
\* the timer, or a watcher that cannot observe the exit.  A run whose exit cannot
\* be observed is resolved through the same TERM -> KILL policy without anybody
\* asking (commands.rs, lines 287 to 290).
StopFreesSlot ==
    \A r \in Runs :
        (r \in stopConfirmed \/ r \in exitObservationFailed) ~> (r \notin active)

\* The abstract slot this supervisor implements, and its state in terms of the
\* registry and of the operating system.
SlotHolder ==
    IF workspaceSwitching THEN "switching"
    ELSE IF active # {} THEN CHOOSE r \in active : TRUE
    ELSE IF starting > 0 THEN "starting" ELSE "free"
LiveRuns == {r \in Runs : leader[r] = "alive"}
UsedRuns == {r \in Runs : leader[r] # "none"}

Slot == INSTANCE ManagedSlot WITH
            slot <- SlotHolder, alive <- LiveRuns, used <- UsedRuns

\* Every step of the supervisor is a step of the abstract slot or leaves it
\* alone: in particular the slot is released only by a run whose leader died.
SlotSpec == Slot!Spec

-------------------------------------------------------------------------------
(* The inductive invariant behind the properties above, in named parts. *)

Busy(a) == startPc[a] # "idle"
Launched(a) == startPc[a] \in {"activated", "registered", "published"}

\* One start command at a time is past its reservation; until it has activated
\* the run the counter holds its place, afterwards the entry does.
StartInv ==
    /\ \A a, b \in Starters : Busy(a) /\ Busy(b) => a = b
    /\ \A a \in Starters : Pending(a) => starting = 1 /\ active = {}
    /\ starting # 0 => \E a \in Starters : Pending(a)
    /\ \A a \in Starters : startPc[a] = "spawned" \/ Launched(a) =>
          leader[startRun[a]] # "none" /\ watcher[startRun[a]] = "none"
    /\ \A a \in Starters : Launched(a) =>
          startRun[a] \in active \ (leaderExited \cup exitObservationFailed)
    /\ \A r1, r2 \in active : r1 = r2
    /\ workspaceSwitching => active = {} /\ \A a \in Starters : ~Busy(a)

\* A stop aims at a run that was launched, and a delivered KILL has killed the
\* leader it was sent to.
StopInv ==
    \A s \in Stops :
        /\ stopPc[s] # "idle" => leader[stopRun[s]] # "none"
        /\ stopPc[s] = "killed" => leader[stopRun[s]] = "dead"

\* A live leader is in the slot, and the flags that let an entry be removed are
\* only ever set on a run whose leader is dead.
LeaderInv ==
    /\ \A r \in Runs : leader[r] = "alive" =>
          \/ r \in active
          \/ \E a \in Starters : startPc[a] = "spawned" /\ startRun[a] = r
    /\ \A r \in Runs : leader[r] = "none" =>
          r \notin active /\ watcher[r] = "none"
    /\ \A r \in leaderExited \cup escalationComplete : leader[r] = "dead"

\* While the watcher still waits, the entry it will report on is there.
WatchedRunsAreActive ==
    \A r \in Runs : watcher[r] = "waiting" =>
        r \in active \ (leaderExited \cup exitObservationFailed)

\* Whatever holds the slot was prepared in the workspace that is open now.
GenerationInv ==
    /\ \A a \in Starters : startPc[a] = "prepared" => startGen[a] = generation
    /\ \A a \in Starters : startPc[a] = "spawned" =>
          runGen[startRun[a]] = generation
    /\ \A r \in active : runGen[r] = generation
    /\ RingInWorkspace

IInv ==
    StartInv /\ StopInv /\ LeaderInv /\ WatchedRunsAreActive /\ GenerationInv

===============================================================================

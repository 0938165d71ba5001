# A TLA+ verification project for Aone IDE

Aone IDE is a Tauri desktop IDE: a Rust backend (`src/src-tauri/src`) owns the
workspace, its index, the processes it runs, the terminal and every network
connection; a React renderer (`src/src`) calls it over IPC and shows its
events.  This directory models the parts where threads, tasks, timers,
processes, files and late answers meet, checks them with TLC on small
instances, and proves the most important of their properties with TLAPS for
every instance.

Paths below are relative to `src/src-tauri/src` or to `src/src` unless they
start with `src/`.

## 1. Inventory

| Part | State it keeps | Operations | What is hard |
|---|---|---|---|
| `runner` (supervision) | one managed run behind a `Mutex<RunRegistry>`: reservation counter, `ActiveRun` flags, switch gate, event ring | `start_run`, `stop_run`, the task that waits for the child, the delayed KILL, two output readers per run | commands hold the lock in short sections only; concurrent stops share one mark; a child that cannot be waited for; lines held by a reader over the end of the run |
| `runner/debugger` | per run: status, accepted safe points, control epochs, one pending control, a bounded channel | lines of the child, `control_debug_session`, the control writer, a 30 s timer per control | the child is not trusted; controls are decided on old snapshots; a timer races an acknowledgement |
| `terminal` | one slot (`Idle`, `Starting`, `Active`), a switch gate; per session a closed flag, input budgets, two bounded queues, four threads | open with consent, write, resize, close, finish, close all | four threads end in any order without a join; budgets are counters beside a queue; exit against output |
| `commands/workspace`, `state` | the open context behind a fair `RwLock`, a single-flight operation flag, an analysis reservation per context | open, pick file, rescan, and through onboarding clone and create | a switch closes two gates and waits for a worker that waits for it; every step may fail |
| `watcher` | a bounded queue, an overflow flag, a worker thread per context | the callback of the notify crate, batching, delta, full rescan, publication | changes during a scan, overflow, a worker that outlives its workspace |
| `store` | SQLite index and outbox of one workspace | replace all, replace, remove, pending, acknowledge; paged queries | delivery over crashes and failed emits; pages of an index that changes |
| `otlp` | receiver slot, retained traces | start with consent, stop, ingest | reservation against a concurrent start; retransmission; deletion between key and event |
| `websocket` | map of sessions, rate limits | connect with consent, send, disconnect | removal before the task has ended |
| `ai`, `git`, `search` | a reservation, a lock, the newest token | one call, one mutation, one search | what was approved or asked for changes while the user or the disk decides |
| `editor` | none; the file | save, create, format | optimistic check of a hash, then rename, then index |
| `graph_algorithms` | none | communities of a returned graph | termination of a vote |
| renderer: documents (`features/editor`) | buffers, tabs, previews, calls in flight | type, save, format, close, read, the lock of an opening | an answer is applied to the text of later |
| renderer: workspace, runs, flow (`app`, `features/graph`) | generations, refs that mark an operation in flight, request numbers | initialise, open, rescan, reload, start, stop, trace, page | late answers, events before answers |
| renderer: debugger (`features/execution-debugger`) | the run that is followed, refresh flags, two timers, an armed breakpoint | follow, refresh, control, continue to a breakpoint | snapshots out of order, refreshes merged away |
| renderer: consoles (`features/terminal`, `features/realtime`) | early events, the active session, a bounded event list | mount, open, connect, input, leave | the id of a session arrives after its events |
| renderer: panels (`features/{source-control,search,api-catalog}`, `useAiExplanation`) | request generations, busy marks, a cache of lists | refresh, mutate, query, load pages, explain | which of several answers is the newest |

How they interact: a workspace switch (`commands/workspace.rs`) closes the
terminal's gate, then the runner's, waits for the analysis reservation of the
old context, which its watcher's worker and every save also take, scans and
commits through the store, starts the new watcher, installs the context
(joining the old worker) and opens the gates.  A start of a run or of a
terminal is refused while its gate is closed; a switch is refused while one of
them is busy.  The debugger's registry lives inside the runner's state and
changes with the run: exit, wait failure and stop end the session.  The
renderer sees answers and events, which travel apart; it adopts a workspace
after the backend installed it, and decides by generations, request numbers and
tokens whose answer still counts.  It is never trusted to order its calls, so the
models of the backend admit them in any order.

What makes each part correct:

* supervision - one managed process group at a time; a switch and a run exclude
  each other; a stop that was confirmed ends the whole group before the slot is
  free; nothing is stuck; the ring holds output of the open workspace only;
* debugger - a paused child moves only under a control; epochs do not go back;
  one workflow at a time; a failed session stays failed; every control resolves;
* terminal - budgets are exact; the exit comes last and the slot is free by
  then; errors are reported; every thread ends; no shell is left that nobody can
  close;
* workspace - no change is forgotten; the index does not go back; events are
  delivered in order, by the open workspace only; a switch ends and leaves no
  gate closed;
* what is asked of an index - a flow, a catalogue or a list of spans is complete
  or says that it is not, and is of the open workspace;
* documents - unsaved text is lost by its user only; a save replaces the text it
  was based on;
* views - what is shown answers the last question; a session does not go back;
  the controls and marks of an operation come back.

## 2. Modules

| Module | Models | Run |
|---|---|---|
| `ManagedSlot` | what supervision promises: a slot that is free, starting, owned or switching, and one leader (abstract specification) | through `SlotSpec` |
| `RunSupervision` | `runner/{commands,state,state/lifecycle,output,process}.rs`; implements `ManagedSlot` through `Slot == INSTANCE ManagedSlot WITH ...` | `run_*` |
| `DebugSession` | `runner/debugger/{registry,control,protocol}.rs` with the run's life as far as it touches the session | `debug_*` |
| `TerminalSession` | `terminal/{io,input,state}.rs`: the threads and budgets of one session | `sessions` |
| `TerminalConsole` | `terminal/{state,commands}.rs` and `TerminalConsole.tsx`: the slot, its opens and the console | `sessions` |
| `WebSocketSessions` | `websocket/{commands,state,transport}.rs`, `useWebSocketController.ts`, `WebSocketConsole.tsx` | `sessions` |
| `WorkspaceIndex` | `commands/workspace.rs`, `state/`, `watcher/`, `store/outbox.rs`, the replacing part of `graph_store.rs`, the save of `editor/`, the gates of `runner` and `terminal`: the components of a switch together | `workspace_*` |
| `TraceReceiver` | `otlp/{state,commands,http,ingest}.rs` with `runner/state.rs` | `workspace_indexing` |
| `FlowPages` | `store/execution_flow/query.rs` and `mergeExecutionFlow` of `graphQueries.ts` | `workspace_indexing` |
| `ApiCatalog` | `store/api_inventory/query.rs`, `commands/api_inventory.rs`, `useApiCatalog.ts` | `workspace_indexing` |
| `StructuralCommunities` | `graph_algorithms/communities.rs` | `workspace_indexing` |
| `EditorBuffers` | `useEditorController.ts`, the reads of `useAppController.ts`, `editor/writing.rs`, formatting | `renderer`, `editor_cancel` |
| `DebuggerView` | `useExecutionDebuggerSession.ts`, `sessionPolicy.ts` against an abstract session per run | `renderer` |
| `BreakpointAdvance` | `useCooperativeBreakpoint.ts`, the control guard of `ExecutionDebugger.tsx` and what tells the view of a control in `useExecutionDebuggerSession.ts` | `renderer`, `breakpoint_reached` |
| `RunView` | `useRunActions.ts`, `lib/runLifecycle.ts`, the run part of `useRuntimeSubscriptions.ts` | `renderer` |
| `WorkspaceView` | `useAppController.ts`, `workspaceMutation.ts`: initialise, open, rescan, reload | `renderer` |
| `FlowView` | `useWorkspaceGraphs.ts`, `graphQueries.ts`: tracing and paging a flow | `renderer` |
| `SourceControl` | `SourceControlPanel.tsx`, the copy of the status in the workbench, `git/commands.rs` | `renderer` |
| `WorkspaceSearch` | `SearchPanel.tsx`, `search/{commands,state}.rs` | `renderer` |
| `AiExplanation` | `useAiExplanation.ts`, `EvidencePanel.tsx`, `ai/command.rs` | `renderer` |
| `RunSupervisionProofs`, `DebugSessionProofs`, `SessionsProofs`, `WorkspaceIndexProofs`, `IndexingProofs`, `EditorProofs`, `AnswersProofs`, `RendererProofs` | theorems (section 4) | |
| `MCRunSupervision`, `MCDebugSession`, `MCWorkspaceIndex`, `MCEditorBuffers` | constants, symmetry and views for TLC | |
| `MCSessions`, `MCIndexing`, `MCRenderer` | several components in one run | |

`MCSessions`, `MCIndexing` and `MCRenderer` compose components that share no
variable, because the code joins them only through what each of these modules
already has of the other: an opening, an index, a session.  The variable
`subject` chooses, in the initial state, the component whose behaviour is looked
at; the others rest in a reachable state in which they owe no step, so that the
fairness of all of them can be stated together.  The state count is the sum of
the components' and not their product.  `WorkspaceIndex`, `RunSupervision` (with
its switch) and `DebugSession` (with its run) are real compositions.

### Correspondence

*RunSupervision.*  The variables before "the rest of RuntimeState" are the
fields of `RunRegistry`; a flag of `ActiveRun` is the set of runs that have it.
Each command and task has a program counter; an action is what the code does
between two acquisitions of the `runs` lock, so `start_run` is
`ReserveRunStart`, `PrepareRun`, `SpawnChild`, `Activate`,
`RegisterDebugSession`, `PublishStarted`, `SpawnTasks`, with `StartFails` where
the code returns early and the reservation is dropped.  `request_process_stop`
is `StopRun`/`AutoStop` (mark), `SignalTerminate`, `CancelStopping` or
`ConfirmStopping`, `PublishStopRequested`, `GraceExpires`, `SignalKill`,
`CompleteStopEscalation` or `PublishKillFailed`.  The two readers of a run are
one process: they do the same under the same lock.  The kernel is
`LeaderExits`, `Fork`, `DescendantsExit`; a delivered KILL empties the group.
`generation` stands for the installed root.

*DebugSession.*  The `accept` function is split into the guards it is made of
(`InOrder`, `OfCurrentEpoch`, `OfActiveWorkflow`, `PauseHolds`,
`Acknowledges`), conjoined in `Acceptable`, and the update `Accept`.  A line
is any marker with an epoch the child has been told, or a malformed one.  The
reader lets go of the lock between rejection and failure, so these are two
steps.  The renderer keeps the last snapshot it read (`viewSequence`,
`viewEpoch`) and may act on it at any later time.

*TerminalSession.*  Each thread has a program counter; queues are sequences,
`messages` and `bytes` the atomic counters.  `TakeFromSlot` and the three close
steps are `close`/`finish` with `shutdown`/`complete`; the input mutex is the
guard of `TakeInput`.

*TerminalConsole.*  `slot` is the registry, `opener` the one `open_terminal` that
holds the reservation over its dialog, `openCall` the promise of the console,
`early` the events it keeps until the id arrives.  What a session's threads do is
abstracted to printing, ending and failing.

*WebSocketSessions.*  A connection has a `stage` in the backend; `events` is the
bounded list of the controller, from which `ActiveSession` and `Phase` are derived
as `WebSocketConsole` does; `socketEvents` are the events under way.

*WorkspaceIndex.*  A file's content is a version number; `index` is the version
a row describes.  A context is one opening of a root, with its watcher, queue,
worker, copy of what the worker has read, reservation and store mutex.  `op` is
the program counter of the one operation the reservation admits; opening the
root that is already open rescans in place, as in the code.  The `RwLock` is
fair: once `install_workspace` waits to write, no reader enters
(`CanReadCurrent`).  `Transaction` commits rows and the outbox record together.
A save writes and indexes under the read lock.

*TraceReceiver.*  A start, a connection, a deletion and a switch have a stage each;
a step is what one lock covers.  A span is a pair of a trace and a number; `ring`
is the part of the runtime's ring that spans take.

*FlowPages, ApiCatalog, StructuralCommunities.*  One query is one step, since it
holds the lock of the store; what is interleaved are changes of the index, the page
loop of the renderer, and openings.  A limit of the code is a constant, and several
settings of the limits are checked so that each one ends some walk.

*EditorBuffers.*  `documents` is the reducer's state; `op` and `read` are the calls
in flight; `Begin` are the handlers of the user, `Follow` the backend sections and
answers, each with the effects React runs after it.

*DebuggerView, BreakpointAdvance, RunView, WorkspaceView, FlowView, SourceControl,
WorkspaceSearch, AiExplanation.*  A ref or a state of a hook is a variable of that
name.  A request is a record that carries what its closure captured - a
generation, a snapshot, a query - and goes through the stages asked, answered and,
where the code awaits something in between, checked.  Answers come in any order
unless the code orders them.  `BreakpointAdvance` has the refresh of the debugger view
in one step (`refreshing`, `Refresh`) and keeps what it depends on: the events that
wait (`unflushed`), the timer of the control (`waitTimer`) and its answer
(`ControlAnswered`).  Checkpoints are numbered in the order of their first report, which
replaces a symmetry set where liveness is checked.  The variables named history in their modules excuse
known gaps (section 5) or remember what a property speaks of; no guard reads them.

## 3. Runs

Each finishes within four minutes on two workers.  Deadlock is checked in
`run_safety` and `run_liveness`; the other models end in states where the component has
stopped or a bound is reached.

| Run | Question | Bounds |
|---|---|---|
| `run_safety` | slot exclusive, one leader, ring of the open workspace: the inductive invariant `IInv`; no output after the end of its run; implements `ManagedSlot` | 2 runs, 2 starters, 2 stops, 1 switch, signals may fail; symmetry |
| `run_liveness` | a confirmed stop empties the group before the slot is free; the slot is freed; a wait failure is resolved | 2 runs, 1 starter, 2 stops, signals succeed |
| `run_stop_rollback` | the first of these when a second stop fails (**violated**) | 1 run, 2 stops, signals may fail |
| `debug_safety` | the inductive invariant of the session and what a control is worth | 2 workflows, 2 steps, 2 events, epochs to 2, channel of 2; symmetry |
| `debug_liveness` | controls resolve; a rejection fails the session | 1 workflow, 2 events, epoch 1, channel of 1 |
| `sessions` | budgets, exits and errors of a terminal; no shell is lost; early output is replayed or its loss told; the WebSocket console is true; all threads end; a dead session is let go | inputs of 1 and 2 bytes, 2 writes, budget of 3 bytes and 2 messages, queue of 1; 2 opens, 2 mounts, early buffer of 2; 2 connections, 1 slot, list of 4, 3 events under way |
| `workspace_indexing` | no change forgotten, gates, rows never go back, who publishes; spans; pages of a flow; catalogue; communities | 2 roots, 2 files, queue of 1, batch of 2, 2 requests, 2 changes, failures; 2 starts, 2 exports, 2 spans; 3 nodes, 3 facts, 5 settings of the limits; 4 operations, pages of 1, lists of 3; all graphs of 5 nodes |
| `workspace_switch` | delivery; every operation ends | 1 file, batch of 1, 2 requests, 2 changes, 1 crash, failures |
| `workspace_gap` | no observation gap (**violated**) | 1 request, 1 change, nothing fails |
| `renderer` | the thirteen properties of the renderer's components | 2 files, 2 texts, 2 reads, 2 saves; 2 runs; 2 workflows of 3 steps, 3 safe points; 2 workspaces, 3 versions, 2 loads; 2 roots of 3 pages; 2 repositories, mutations and status calls; 2 queries and searches; 2 nodes and calls |
| `editor_cancel` | a cancelled opening leaves the tabs unchanged (**violated**) | 2 files, 1 read, 1 save |
| `breakpoint_reached` | Continue stops at the armed checkpoint (**violated**) | 1 workflow, 2 steps, 3 safe points |

Why the bounds are enough.  Two runs are what it takes to hand the slot on and
meet a leftover of the first; a third would repeat the second.  Two stops are
the smallest number that interfere, and the automatic stop after a wait failure
is one of them.  Two epochs let a line of the first be held while the second is
pending.  The small limits (queue of 1, batch of 2, channel of 2, budget of 3
bytes, early buffer of 2, list of 4) are reached in these runs; the code's are 64,
2048, 16, 32, 300 and larger.  A late answer needs two calls of a kind and two
things they may be about, and that is what the renderer's constants give; the
theorems of section 4 are about any number.  Two requests contain an open and a
switch or rescan; a return to the first root needs three, and with it comes the
save of an earlier opening (section 5), which the theorems about the index cover.

`ControlDiscipline` and the other action properties look at one step, but the steps
they forbid need an interleaving to set up; `StaleIsOwed` is the central one of
the index: it says where the knowledge of a change is, at every moment.

### Fairness

* `RunSupervision`: a start that began goes on, a stop and its timer go on, the
  task that waits sees the end of the leader, and the automatic stop is issued.
  Nobody is obliged to start or stop a run, a leader need not exit by itself,
  TERM may be ignored.
* `DebugSession`: the reader finishes with the line it holds, and timers fire.
  The child, the renderer and the pipe owe nothing.
* `TerminalSession`: threads are scheduled; a blocked write, read or wait
  returns for the reasons the code relies on only: the close signal for the
  polls of `IO_RETRY_INTERVAL`, the death of the shell for read and wait.
* `TerminalConsole`: events are delivered, an open and a refused input are
  answered, a session that was taken from the slot is shut down.  The dialog may
  stay open for ever.
* `WorkspaceIndex`: the command, the save, callback and worker threads go on
  when they can.  A waiter on the analysis condition variable could in principle
  be overtaken by others for ever; changes are bounded, so `SwitchEnds` says the
  switch ends once the disk is quiet.
* `DebuggerView`: requests are answered, batches of events are flushed, timers
  fire, and a control that the child leaves alone expires.  The child and the user
  owe nothing.
* `BreakpointAdvance`: requests are answered or fail, events are flushed, the timer of a
  control fires, effects run, and a control expires or the process that was stopped ends.
  That the view catches up is not assumed: it asks only when an event, a timer or an
  answer makes it, and a refresh that is asked for may be lost.
* `RunView`: answers and terminal events arrive, a stopped run ends
  (`StopFreesSlot` of `RunSupervision`); a run that is left alone need not.
* `WorkspaceView`: reads are answered, the event arrives, timers and continuations
  run.  The picker may stay open for ever and nobody retries.

React runs effects and the event loop answers promises and timers, so weak fairness
of these is what the platform gives; nothing is assumed of the user, of child
processes or of other programs.

### What the violated runs show

1. **A stop that is rolled back takes another stop's KILL away**
   (`run_stop_rollback`, `runner/state/lifecycle.rs:28-41`).  Both stops share the
   `stopping` mark.  When the second one's TERM fails, the mark is cleared, the
   first one's timer does nothing, and the slot is freed at the leader's exit with
   descendants alive.  `runner/README.md:96-98` promises the slot only after "any
   requested escalation is complete".
2. **There is a gap between the scan and the watcher** (`workspace_gap`,
   `commands/workspace.rs:165-177`).  The comment at line 189 says there is none.
   A file that changes in it stays stale until it changes again.
3. **A cancelled opening shows the text from before the last save**
   (`editor_cancel`, `features/editor/useEditorController.ts:57-77`).  The effect
   that shows a source runs again when the lock is given back, and a save never
   updated that source.  `src/docs/PERFORMANCE.md:446-447` promises unchanged tabs.
4. **Continue never reaches its breakpoint** (`breakpoint_reached`,
   `runner/debugger/registry.rs:119-126`).  A checkpoint can be armed only after it
   was reported, and the registry refuses a checkpoint that was reported before; the
   session fails.  `src/docs/INSTRUMENTED_DEBUGGER.md:45-48` promises that it is
   reported again.

## 4. Proofs

All theorems are about every value of the constants that meets the named
assumptions of the modules.  The assumptions say that a bound is a natural number
(positive where `Init` already uses the first), that a queue has a slot, and that
an id is not one of the strings the model uses beside ids.  Each invariant below
was first checked by TLC on the bounds of section 3 and then proved inductive: one
step per action, and in it one per conjunct that the action can disturb.

### Supervision (`RunSupervisionProofs`)

| Theorem | States |
|---|---|
| `TypeCorrect` | `TypeOK` |
| `InductiveInvariant` | `IInv` |
| `SlotIsExclusive` | `SlotExclusive`: a switch and a run exclude each other |
| `OneLeaderAtATime` | `OneLeader` |
| `RingBelongsToWorkspace` | `RingInWorkspace` |
| `SupervisionImplementsSlot` | `Spec => SlotSpec`, the refinement of `ManagedSlot` |
| `OutputEndsWithTheRun` | `OutputPrecedesTheEnd`: no line after the exit or the stop |
| `StopsEmptyTheGroup` | `StopReleasesEmptyGroup`, where signals do not fail |
| `StopsAreNeverLost` | `NoStopIsLost`: who still has to act on a run that is stopped |

None of the safety invariants is inductive.  `SlotExclusive` says nothing of a
starter between its reservation and its activation, so that a step of it could
violate it; `IInv` adds where the starters and stops are:

* `StartInv` - at most one starter is busy; while it is pending nothing is
  active and the reservation counter is one, otherwise the counter is zero; the
  run it launched has an entry without an observed end until it spawns the
  tasks; there is at most one entry; and a switch excludes all of these;
* `StopInv` - a stop aims at a run that was launched, and a delivered KILL has
  killed its leader;
* `LeaderInv` - a live leader has an entry, or is about to get it from the
  starter that spawned it; the flags that let an entry be removed are only set
  when the leader is dead;
* `WatchedRunsAreActive` - a run whose task still waits has an entry, so the
  result of the wait finds it;
* `GenerationInv` - entries, and starters past their preparation, belong to the
  installed generation, because the switch cannot complete beside them.

The refinement follows from it: `HolderOfRegistry` says which run the mapped slot
holds, and each action is a step of `ManagedSlot` or a stutter.

That output ends with its run needs one more invariant, `EndInv`: whoever tells the end -
the watcher after the exit, a stop after its signal - has cancelled the streams before,
unless the watcher could not observe the exit.  A reader that holds a line publishes it only
in the step that checks the cancellation (`OnlyPublishLineResumes`).

The two theorems about stops assume `~SignalErrors`, as `run_liveness` does: with a signal
that fails the statement is false, and `run_stop_rollback` shows it.  `DeliveryInv` says that
a run stays marked from the first stop of it until it leaves the slot, that whoever marked it
is still escalating or has killed the group, and that nothing forks in a group that was
killed; `ReportInv` that a run is watched from the end of its start on and that a watcher
leaves its report on the entry before it ends.  So the entry is removed only behind an
escalation (`StopsEmptyTheGroup`), and until then a stop, its timer, the watcher or the
command about to spawn that watcher still has a step to take (`StopsAreNeverLost`, the part of
`StopFreesSlot` that does not depend on the scheduler).

### Debug sessions (`DebugSessionProofs`)

| Theorem | States |
|---|---|
| `TypeCorrect` | `TypeOK` |
| `SessionHolds` | `SessionInv`, the inductive invariant |
| `EpochsProgress`, `WorkflowsAreSerial` | `EpochProgression`, `SerialWorkflows`: what the history of accepted safe points looks like |
| `OnlyThePendingIsQueued` | `ChannelHoldsThePending` |
| `EndsAreObserved` | `EndIsObserved` |
| `PausedChildWaits` | `PausedChildNeedsAControl` |
| `FailsClosed` | `FailedClosed` |
| `TimersMind` | `TimeoutIsOfItsControl` |
| `OneControlEach`, `ControlsAreDisciplined` | `OneControlPerSnapshot`, `ControlDiscipline` |
| `EveryControlIsTimed` | `ControlIsTimed` and `[][TimerEndsControl]_vars`: a pending control has its own timer, which will find it |

The runs bound the controls by 2 and the safe points by 2; here both are
arbitrary, so the 2000 safe points of the code and any number of controls are
covered.  The properties are not inductive because none of them says how the
control on its way relates to the ones before it.  `SessionInv` orders the epochs
(acknowledged below pending; delivered below the one in the channel or in the
writer; a held line not above the delivered one, since the child can only have
been told so), and ties the status to the history (`PauseInv`: a live session
whose last safe point is a pause is paused).  A line that is accepted is thus
never of a control still in the channel, which is why the acknowledgement leaves
the channel empty and `queue_debug_control` never finds it full.  The proof
treats the steps in four groups: the one that accepts (`AcceptStep`), the one
that queues (`QueueStep`), those that carry a control or a line over the pipe
(`WireStep`), and all others, which can at most end the session or take its
pending control away (`EndsAtMost`).  The action properties follow from
`WhoActs`, which names the only step that extends the history, queues a control
or drops a timer.

`EveryControlIsTimed` is what `ControlResolves` needs beside the clock: as long as a control
other than Stop is pending, the session is registered and has not ended, the timer of that
very epoch runs, and the step in which it fires leaves the control not pending, whatever it
finds.  `TimerInv` adds that a leader or a watcher that is gone has ended the session, and
that an ended session has nothing pending.

### Terminal sessions (`SessionsProofs`)

`TypeCorrect`, `BudgetIsExact` (the two atomic counters are the length and the
bytes of the queue and of what a thread holds, so that nothing is lost from a
budget of any size) and `EndsAreTold` (`OutputIsTold`: the exit is told last and
after the data, an error of the reader is told).  `InductiveInvariant` says where everything
is: `ClosingInv` that the slot is emptied once and the close signal follows;
`DataInv`, `ErrorInv` and `ExitInv` that each chunk, each error and the exit is
published, queued or in a hand, and how many there can be; `HandsInv` which calls and
which thread hold an input, and `InputBudget` sums these up.  The bytes of a queue are
a recursive function of the sequence; its lemmas are proved by well-founded
descent on the length.

`ShutdownNeverStalls` and `EveryStepCounts` are the part of `SessionEnds` that does not depend
on the scheduler.  The first: from the moment the shell is dead or the slot is taken until
everything is released, one of the threads has a step it can take - `CloseMoves`,
`WriterMoves` and so on spell out when each of the fair actions is enabled, and `EndingInv`
says what a thread that waits waits for (a pump only for output or for the readers, a full
output queue only for the pump, a caller only for its writer).  It assumes
`OutputCapacity > 0`: without a slot the reader could never hand anything over.  The second:
every step lowers `StepsLeft`, a natural number that weighs the threads, the queues and the
chunks and inputs to come, so there are only so many steps until then.

### Terminal slot, consoles and the composition (`SessionsProofs`)

| Theorem | States |
|---|---|
| `ShellIsNeverLost` | `NoShellIsLost` |
| `GapIsAlwaysTold` | `GapIsTold` |
| `ConsoleTypeCorrect` | the types of `TerminalConsole` |
| `PermitsAreExact` | the types of `WebSocketSessions`, and that the permits taken are those of the connections that hold one |
| `ConsoleTellsTheTruth` | `ConsoleIsTrue` |
| `SessionsHold` | `SessionsInv`, of the composition that the run checks |

`SlotInv` says who holds the slot - the shell that runs, or the open that will start
one - and `CallInv` what the renderer knows of it: the call that asked for the open is
still running, or the console went and the session is one of `stray`; a session in the slot is
shown, about to be told, or being closed.  The two meet in `ExitToldInv`: an exit is under
way only for a shell that is gone, so the console never lets go of one that lives.

That gaps are announced is about order.  `Chain(s, a, b, q)` says that the events of
session `s` in the queue `q` take the chunks told of it from `a` to `b`, none left out.
`GapInv` says that such chains join what the console has shown to what the shell has
printed: over the queue of events for a session that is shown, over the early buffer and
then that queue for one whose answer is under way, as long as the buffer dropped nothing.
`ReplayOfChain` shows by induction over the early buffer that its replay ends at the last
chunk without a gap.

The WebSocket console is an argument about two ways that meet late.  `StreamInv` is about
the events in the list and under way, taken as one `Stream`: each fits the stage of its
session (`Fits`), a closed event is the last of its session, and a beginning under way is of
the newest connection; a frame only moves events along the stream and drops the oldest.
`CommandInv` is about the answers: a connection in the making is the newest one and the
console waits for it, and an open session that nobody shuts down is the newest one and the
console waits for its answer or holds it as `preferred` and `fallback`
(`OpenIsAnswered`).  So no second connection is asked for while one is open
(`OpenIsShown`), which is what keeps a late event of an older session from taking the
console.  Both hold while `left` is empty (`ToldInv`).

### Workspace and index (`WorkspaceIndexProofs`)

| Theorem | States |
|---|---|
| `IndexHolds` | `IndexInv`, the inductive invariant |
| `DeliveryIsOrdered` | `DeliveryInOrder`: nothing is acknowledged before it was emitted, nor emitted before it was committed, over crashes and failed emits |
| `OnlyTheOpenPublishes` | `OnlyCurrentPublishes`: only the installed context publishes |
| `ObservationHolds` | `ObservationInv`, the inductive invariant of the rows |
| `NoChangeIsForgotten` | `StaleIsOwed`: while a context is watched, a stale file is still to be indexed |
| `RowsNeverGoBack` | `IndexNeverGoesBack`: no writer replaces a row by an older version |
| `SwitchesNeverStall` | `SwitchNeverStalls`: no open, rescan or save is in a circle of waiting threads |

`GatesAgree` and `OperationInv` say at each step of the one operation which
reservations and gates it holds; `WorkerInv` that contexts come one after the other and
that the worker of a context that was replaced has been joined, so that it cannot
publish into the next; `DeliveryInv` what a worker is about to emit or to acknowledge.

`StaleIsOwed` is about what is known now, and a commit writes what was read before.
`ObservationInv` therefore adds, for each of the three writers of the rows - a worker,
the command's scan or rescan, a save:

* `TurnsInv` - which reservation it holds from its first read to its commit, which is
  why no two writers of a root are between these steps at once;
* `SeenInv` - that a file it has read and that changed since was told of again, to the
  events, the queue, the flag or the batch, so that the commit leaves nobody to forget;
* `GrowthInv` - that what it will write is neither ahead of the disk nor behind the row.

The steps fall into two groups: those that leave the rows alone (`SeenKeeps`,
`GrowthKeeps`), where every context goes on (`Follows`), begins or gives up with an excuse
(`Begins`); and the five that commit (`CommitKeeps`).  The sets `excused` and `survived`
are history: a context is excused for files that changed between the scan and its watcher
and for those of a rescan that failed, and a row is exempt after a save of an earlier
opening of its root wrote the file.  Both are gaps of the code, told in section 5.

`SwitchesNeverStall` is about who waits for whom.  The command waits for the reservation, the
store, the callback and the worker of the open context and then for the write lock; a worker
waits for the reservation, the store and, with the store held, for the read lock; a save waits
for the reservation and, with the read lock held, for the store.  `HoldersInv` says that
whoever holds one of these is at a step that can go on: the store is held only by a worker at
`project`, a reservation only by a worker that analyses, by the command past its wait or by the
one save, and the worker that is joined is not watched any more.  The circle worker (store) -
command (write lock) - save (read lock) cannot close because the worker was joined before the
command asks for the write lock, and a save that waits for a store waits for the open context's
(`WorkerInv`, `TurnsInv`).  `CommandMoves`, `SaveMoves`, `CallbackMoves` and `WorkerMoves`
spell out when a fair action is enabled.

### Traces (`IndexingProofs`)

`TracesHold` states `TracesInv`, of the receiver from its registry to the ring.  Its
inductive invariant joins the keys of the active receiver with what was made of them:
`KeyInv` says that a span in the ring or about to be has its key, `KeysInv` that a key
has its span in the ring, in a connection, or among those known to be missing
(`unshown`), and `OnceInv` that nothing is shown, or about to be, twice unless its trace
was deleted between key and event (`torn`).  A receiver yet to come has a number that no
span or connection carries, so replacing the registry keeps all three (`ReplacedKeeps`).
The proof treats the steps by what they do: nothing that shows (`NothingShownKeeps`), a
connection that goes on (`MovesKeeps`), a key (`ReserveKeeps`), an event (`ShowsKeeps`),
a refusal (`DropKeeps`), a deletion (`DeleteKeeps`).  What `retain` leaves of the ring is
an embedding into it (`RetainEmbeds`), by induction over its length; eviction is one as
well (`PublishedPlaces`).  It assumes only that an export carries a span
(`TraceReceiverAssumption`).

### Catalogue (`IndexingProofs`)

`CatalogHolds` states `CatalogInv`, for every inventory, every size of a page and of the
cache, and any number of changes and openings.  A list alone says nothing of the pages
still to come, so `LoadIsComplete` adds what a load has so far: every operation that was
there all the time, up to its cursor, and `AnswerInv` that the answer has those from the
cursor to the next one.  `LoadIsWitnessed` keeps the histories `steady` and `ever` on either
side of what the open index would answer; `LoadIsCurrent` that the load is for the key of
the hook, which is not in the cache, so that `cacheCompleted` never replaces an entry, and
a list from the cache is whole because it was when it was put there (`CacheInv`).
`PageIsFirst` is about a page of a finite set of numbers: what is not on it comes after its
last operation.  That a complete list misses no more of its last page's index than it shows
ones that are gone is a count (`LargerHasMoreOfItsOwn`).  Assumed are finitely many
operations and that a workspace is open (`ApiCatalogAssumption`).

### Communities (`IndexingProofs`)

| Theorem | States |
|---|---|
| `CommunitiesHold` | `CommunityInv`, the types and `CommunitiesSettle` |
| `CommunitiesAlwaysImprove` | `CommunitiesImprove`: labels do not go round in circles |

The run takes all graphs of five nodes; here the graph is any finite one.  A vote is a
node, a neighbor and what the vote is for, the edge or a triangle on it, so weights and
scores are numbers of votes and no sum is needed.  `VotersAgree` makes the first theorem
inductive: in a round that changed nothing, who has voted has its winner.  For the second,
`AgreementHasParts` divides the votes within communities into those among the others and
those of one node, which are as many from both its ends (`ReversedAreAsMany`): a node that
takes another label changes the agreement by twice the difference of the two scores, and
its winner (`WinnerIsBest`) has the larger, or an equal one and a smaller label.

### Pages of a flow (`IndexingProofs`)

`FlowPagesHold` states `FlowPagesInv`: types and bounds, that the pages bring the links of
the root in their order, each once and none skipped, and that a flow which does not say it
is truncated is connected and follows every node it shows.  The run takes graphs of three
nodes and five settings of the limits; the theorem takes every finite graph and every
setting.

The rows of a node are a finite set of numbers in their order, so that what a page reads is
a fact about a window of that order (`ReadIsOfRows`, `RootPageIs`: the i-th link of a page at
an offset is the link of that number).  `add_links` is a recursive function over the links
it is given.  `AddLinksGrow` goes through it by induction over the naturals and says what
of a walk grows, that everything new is queued, and that a link it does not take sets the
cut.  The inductive invariant `FlowIInv` is about the walk under way and the flow shown:

* `WalkSound` - what is queued is in the walk, every edge ends in it, all hangs together;
* `WalkFollows` - unless it cut something, a walk has followed every node that it no longer
  queues and that no guess led to.  This is what the count of `expand` has to give:
  `NodeIsExpanded` shows that a node which does not set the cut has had as many new
  edges as it has links, so that each of them is there;
* `WalkPage` - a walk answers for the page that begins where the flow it will join ends;
* `FlowShownInv` - a flow that forgot nothing follows its nodes, and the root up to `next`.

`PageMerges` says what `mergeExecutionFlow` makes of the two, and `PageIsJoined` that the
pages follow on: a page that begins before the last link has at least one, so the number of
pages is bounded by that of the links.

### Documents (`EditorProofs`)

| Theorem | States |
|---|---|
| `EditorHolds`, `EditorTyped` | the inductive invariant, the types |
| `DirtyTellsTheTruth` | `DirtyMeansUnsaved` |
| `DiscardsAreConsented` | `DiscardIsConsented` |
| `SavesReplaceTheirBase` | `SaveReplacesItsBase` |
| `UnsavedTextSurvives` | `UnsavedTextIsKept` |

`BuffersInv` says that the tabs are the open documents and that a flag tells the
truth; `SourcesInv` and `WritesInv` are about the calls in flight: each names a file,
and one write at a time is between the check of its hash and its rename, because it
holds the analysis reservation - which is why a save never replaces a text it did
not see, other programs excepted; `LockInv` is about the texts whose loss the user agreed
to.  The lemmas say what opening, closing and pinning do to a sequence of tabs without
duplicates.

### Answers (`AnswersProofs`)

`AnswersStayCurrent` (`AnswersAreCurrent`: the flow that is shown answers the last
trace, the status the open repository, the result the query that is typed, the
explanation the node that is selected), `CommitsAreApproved` (`CommitIsApproved`),
`LastTraceIsShown`, `OverviewIsOfTheOpen` and `AnswersTyped`.  The inductive
invariants are about the answers under way: `FlowInv`, `WorkspaceInv`, `GitInv`,
`SearchInv` and `AiInv` say which of them still count - those whose generation or
number is the current one - and that such an answer is about what is on the screen
when it arrives.

### Renderer (`RendererProofs`)

| Theorem | States |
|---|---|
| `RendererHolds`, `RendererTyped` | the inductive invariant, `RendererTypeOK` |
| `LiveRunsAreShown` | `LiveRunIsShown` |
| `EndsAreRemembered` | `EndIsTold`: the end of a run is remembered when its answer comes after it |
| `ViewsNeverGoBack` | `ViewNeverGoesBack` |
| `EditorIsKept` | the inductive invariant of the documents, in the composition |

`DebuggerInv` says that every session, answer and view is of the run it is kept for,
so that two snapshots that are compared are of one session; `RunViewInv` that answers
to starts come in order, so that the run that lives is the last one, and that an end is
remembered, still to be told, or of a run nobody asks for; `BreakpointInv` and
`OverviewInv` hold the types of what is asked for and of what is loaded.

### Only model-checked

Every safety and action property of the runs that pass has a theorem; that of `run_liveness`
has the hypothesis its configuration has, that signals do not fail.

All liveness properties stay with TLC, since fairness and `ENABLED` are outside what TLAPS
proves here: `StopFreesSlot`, `ControlResolves`, `SessionEnds`, `DeadSessionIsCleared`,
`RejectionFails`, `SwitchEnds`, `EndingIsShown`, `ControlsComeBack`, `OverviewCatchesUp` and
`EndClearsRun`.  For the first three and for `SwitchEnds` the theorems above prove what is
left without the scheduler: `StopsAreNeverLost` and `EveryControlIsTimed` that somebody has
still to act, `ShutdownNeverStalls` and `SwitchesNeverStall` that somebody can, and
`EveryStepCounts` that a terminal session cannot go on for ever.  That the predicates named
`...Moves` imply that a fair action is enabled is read off the guards, not proved.

## 5. Abstractions, gaps and what is not modelled

### Abstractions

* Redaction, rate limiting, previews, paths, ignore rules, size limits, wording and
  logging are left out.
* `DebugSession` leaves out parents, duplicates of steps by identity beyond the
  set of accepted ones, and the mapping to source: they refuse a line, as a
  malformed one is refused.
* `RunSupervision` leaves out the cause of a wait failure, the reuse of process
  numbers and the missing debug pipe of `runner/commands.rs:146-152`, which a piped spawn
  always provides.  `process.stop_requested` and `process.kill_failed` are
  published without the session check; `RingInWorkspace` is about the kinds of event
  the code does check.
* In `WorkspaceIndex` the last check of a save's hash and its rename are one step (in
  `EditorBuffers` they are two).  The overflow flag has no wake-up of its own, as in
  the code, so `Owed` counts a raised flag as knowledge although the worker reads it at
  the next event.
* In `TerminalSession` `shell` stands for every process that has the terminal open.  A
  descendant that outlives a shell that exited by itself keeps the reader polling
  (`terminal/io.rs:114-115`) and delays the exit event until it ends or the terminal is
  closed; `SessionEnds` is about sessions without one.
* `BreakpointAdvance` leaves out reports after the end of a session, each of which is
  refused with an event, and control requests that fail in transport.
* `WebSocketSessions` needs a list of at least 4 events; when an event that a connect
  answer is about was evicted before it came, the session is not followed
  (`Remembered`).  `BeginningsAreTold` states the order in which the
  events of one connection reach the renderer.

### Known gaps

The properties hold of the code except where it does not aim at them, or misses in a way
too narrow for a run of its own.  The models take those steps and remember them in a
variable named history; a property excuses exactly these:

* *Documents.*  A save never updates the source it was read from.  `openSource`
  reports a failure without asking whether the workspace is still open
  (`useAppController.ts:252-254`, against `src/app/README.md:50-51`).
* *Workspace.*  A cancelled opening or retry advances the generation
  (`workspaceMutation.ts:36-37`): loads in flight are dropped and their loading flag stays.
  A reload that starts during an opening may commit data of the old workspace
  (`crossed`; `docs/PERFORMANCE.md:447-448`), and two loads of one generation are not
  ordered (`overlapped`; `app/README.md:37`).
* *Runs.*  The answer of a start that arrives after another workspace was adopted
  activates a run whose end may be forgotten (`crossed`).
* *Debugger.*  A refresh for a new target is dropped when the old one ends meanwhile
  (`useExecutionDebuggerSession.ts:145`) and the answer of an old control cancels the timer of
  a new one (237) (`impaired`).  The expiry of a control publishes no event; the
  timer of 30.5 s is the only notice of it and any event of the session clears it
  (210-213; `disarmed`, in `BreakpointAdvance` `cleared`).  The control buttons
  then stay disabled until another event, at the latest the end of the process; so they do
  when the refresh that would have shown the outcome failed (`lost`).
  `ControlsComeBack` excuses these two only while nothing is under way that would tell
  the view (`Unnoticed`).  `pendingControlRef` survives a change of the run (`stranded`).  Continue at the armed checkpoint that is the current one sends nothing
  (`useCooperativeBreakpoint.ts:81-84`).
* *Terminal.*  A console that is unmounted while an open is in flight leaves the shell
  running (`stray`, `TerminalConsole.tsx:189`): the next console cannot open and the
  workspace cannot be switched (`docs/ARCHITECTURE.md:396`).  A failed writer ends the
  session without a word.
* *WebSocket.*  Sessions that opened while the console was left may be hidden or in the
  wrong phase; a disconnect of a session that is still opening, after re-entry, says that
  nothing was disconnected.  Two ready branches of `select!` may skip the Close frame.
* *Source control.*  A status call of a panel that was left keeps its refs, so that its
  late answer sets the status of another workspace (`docs/PERFORMANCE.md:429-433`); a mutation
  of a panel that was left brings no refresh.  Another program may change the index
  between the last check and Git's own reading (`raced`).
* *Search.*  An older call whose command begins last cancels the newest (`overtaken`).
* *AI.*  A cancelled opening silences the answer and leaves the busy mark until another
  node is selected (`silenced`).
* *Traces.*  The start that was declined or failed cancels a newer reservation; a
  deletion between key and event lets a span appear twice (`torn`); a span refused
  because of a switch that then fails is lost, since its retry is a duplicate
  (`unshown`); a receiver of an earlier opening of the same root may still publish.
* *Catalogue.*  An exchange - one operation removed from the pages that were loaded, one
  added behind the cursor - passes as complete (against `docs/PERFORMANCE.md:404-405`).  Changes
  of files do not advance `workspaceGeneration`, so a loaded catalogue stays as it is.
* *Flow.*  `truncated` of a merged flow is that of its last page (`forgotten`;
  `docs/ARCHITECTURE.md:294-296`).  Rows that are refused in `is_excluded_node` but
  counted by the query (a root-level `fixtures/` or `__tests__/`) make `next_offset` lag, and
  pages repeat links up to the ten pages the renderer asks for.  A node first reached
  through an inferred link is not followed when a firm link reaches it later, with
  `truncated` false (`guessed`).  The cursor is an offset: a change of the index
  between two pages skips or repeats root links until the next reload.
* *Communities.*  On long paths the vote needs more than its 64 rounds, and the cap ends
  it unsettled although the answer says only that nothing was truncated.
* *Debug permits.*  A step of one workflow lets a child that is one safe point ahead of
  its pause go on before the permit of the step (`runner/debugger/registry.rs:107-141`, against
  `docs/INSTRUMENTED_DEBUGGER.md:48-50`), since line 113 accepts the acknowledged epoch for
  every action.
* *Return to a workspace.*  `state/app.rs:82-100` compares the id, which is the root.
  A save that began before the workspace was left continues after it was opened again.  It
  holds the reservation of the earlier opening only, so that it and the worker or the rescan of
  the new one may commit in either order, and the older version may stay in the index.  It takes three
  requests; `survived` remembers the files, and `StaleIsOwed` and `IndexNeverGoesBack`
  are about all others.

### Not modelled

* The delayed KILL that fails (`runner/commands.rs:350`) beyond its event, a reused
  process-group number (348), `control_failed` over a newer status (`registry.rs:303`), an
  outbox larger than one drain at start (`worker.rs:207`).
* Trace ingestion, profiles and preparation of a run, onboarding downloads, the HTTP client and
  its network policy, tool configuration, domain types, menus: one request each,
  with no state between requests.
* `ApiClientSession` and the search of the explorer are two more guards of the kind that
  `AnswersProofs` covers; the replay of a recorded trace is presentation.
* Neighbourhood and overview queries and strongly connected components: pure functions
  of one transaction.
* Views and generated bindings.  Of the 46 thousand lines of TypeScript about half are
  generated bindings and most of the rest is markup; neither holds a state that outlives a
  rendering.  The state of the program is in its Rust backend and in the hooks, and that is what
  the modules cover.

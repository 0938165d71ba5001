---------------------------- MODULE WorkspaceIndex ----------------------------
(***************************************************************************)
(* The open workspace and its index: opening a folder (commands/           *)
(* workspace.rs, state/), the filesystem watcher and its worker thread     *)
(* (watcher/), the store with its transactional outbox (store/), the       *)
(* editor's save, and the gates of the runner and of the terminal that a   *)
(* switch holds closed.  A file's content is a version number; a context   *)
(* is one opening of a root, with its watcher, worker, store handle and    *)
(* analysis reservation.                                                   *)
(***************************************************************************)
EXTENDS Naturals, Sequences, FiniteSets

CONSTANTS
    Roots, Files,
    QueueCapacity, \* MAX_WATCH_QUEUED_EVENTS, 64 in the code
    MaxBatch,      \* MAX_WATCH_BATCH_PATHS, 2048 in the code
    DrainLimit,    \* MAX_OUTBOX_DRAIN, 200 in the code
    MaxRequests,   \* bound on the requests to open a folder or to rescan
    MaxChanges,    \* bound on the changes of the disk
    MaxCrashes,    \* bound on the ends of the application
    Failures       \* whether scans, watchers, the store and emits may fail

ASSUME IndexAssumption ==
    /\ QueueCapacity \in Nat \ {0} /\ MaxBatch \in Nat /\ DrainLimit \in Nat \ {0}
    /\ MaxRequests \in Nat /\ MaxChanges \in Nat /\ MaxCrashes \in Nat
    /\ Failures \in BOOLEAN
    /\ "none" \notin Roots
    /\ IsFiniteSet(Files) /\ Files # {}

Contexts == 1..MaxRequests
Unread == [f \in Files |-> 0]

VARIABLES
    disk, changes,              \* versions on disk, and how often they changed
    index,                      \* the store's rows: the version it describes
    committed, acked,           \* last sequence of the outbox; acknowledged up to
    watch,                      \* the contexts (see FreshContext)
    \* AppState and the gates
    current, runtimeRoot, runtimeSwitching, terminalSwitching,
    \* the workspace operation that holds the single reservation
    op, kind, target, opCopy, opens, requests,
    \* write_workspace_file
    savePc, saveCtx, saveFile, saveExpected,
    \* history
    emitted,                    \* last sequence ever emitted
    excused,                    \* files a context may have missed, see below
    survived,                   \* files written by a save of an earlier opening
    crashes

database == <<index, committed, acked>>
gates == <<runtimeRoot, runtimeSwitching, terminalSwitching>>
operation == <<op, kind, target, opCopy, opens, requests>>
save == <<savePc, saveCtx, saveFile, saveExpected>>
vars == <<disk, changes, database, watch, current, gates, operation, save,
          emitted, excused, survived, crashes>>

FreshContext ==
    [root |-> "none", on |-> FALSE,
     events |-> {}, callback |-> "idle", queue |-> <<>>, overflowed |-> FALSE,
     worker |-> "none", batch |-> {}, rescan |-> FALSE, copy |-> Unread,
     drained |-> 0,
     analysis |-> "free",   \* AnalysisCoordinator: who holds the reservation
     store |-> "free"]      \* whether the worker holds the store's mutex

\* Of a file; 0 stands for one that was not read.
Versions == Nat \ {0}
Copies == [Files -> Nat]
OpStates == {"idle", "beginRuntime", "waiting", "scanning", "rescanning",
             "watching", "releasing", "dropping", "joining", "installing",
             "refreshing", "completeRuntime", "completeTerminal",
             "cancelRuntime", "cancelTerminal"}
\* The worker may publish what the store recorded.
Publishing == {"snapshot", "project", "pending", "emit", "ack"}
WorkerStates == {"none", "idle", "collecting", "waiting", "delta", "scanning",
                 "check", "ended"} \cup Publishing

ContextRecords ==
    [root : Roots \cup {"none"}, on : BOOLEAN,
     events : SUBSET Files, callback : {"idle", "full", "bulk"},
     queue : Seq(SUBSET Files), overflowed : BOOLEAN,
     worker : WorkerStates, batch : SUBSET Files, rescan : BOOLEAN,
     copy : Copies, drained : Nat,
     analysis : {"free", "worker", "command", "save"},
     store : {"free", "worker"}]

TypeOK ==
    /\ disk \in [Roots -> [Files -> Versions]] /\ changes \in 0..MaxChanges
    /\ index \in [Roots -> Copies]
    /\ committed \in [Roots -> Nat] /\ acked \in [Roots -> Nat]
    /\ watch \in [Contexts -> ContextRecords]
    /\ \A c \in Contexts : /\ Len(watch[c].queue) <= QueueCapacity
                          /\ Cardinality(watch[c].batch) <= MaxBatch
    /\ current \in 0..opens /\ opens \in 0..MaxRequests /\ requests \in 0..MaxRequests
    /\ runtimeRoot \in Roots \cup {"none"}
    /\ runtimeSwitching \in BOOLEAN /\ terminalSwitching \in BOOLEAN
    /\ op \in OpStates /\ kind \in {"open", "rescan"}
    /\ target \in Roots \cup {"none"} /\ opCopy \in Copies
    /\ savePc \in {"idle", "waiting", "reserved", "reading", "written"}
    /\ saveCtx \in 0..opens /\ saveFile \in Files /\ saveExpected \in Nat
    /\ savePc # "idle" => saveCtx # 0
    /\ emitted \in [Roots -> Nat]
    /\ excused \in [Contexts -> SUBSET Files]
    /\ survived \in SUBSET (Roots \X Files)
    /\ crashes \in 0..MaxCrashes

Init ==
    /\ disk = [r \in Roots |-> [f \in Files |-> 1]] /\ changes = 0
    /\ index = [r \in Roots |-> Unread]
    /\ committed = [r \in Roots |-> 0] /\ acked = [r \in Roots |-> 0]
    /\ watch = [c \in Contexts |-> FreshContext]
    /\ current = 0 /\ runtimeRoot = "none"
    /\ runtimeSwitching = FALSE /\ terminalSwitching = FALSE
    /\ op = "idle" /\ kind = "open" /\ target = "none" /\ opCopy = Unread
    /\ opens = 0 /\ requests = 0
    /\ savePc = "idle" /\ saveCtx = 0 /\ saveExpected = 0
    /\ saveFile = CHOOSE f \in Files : TRUE
    /\ emitted = [r \in Roots |-> 0]
    /\ excused = [c \in Contexts |-> {}]
    /\ survived = {} /\ crashes = 0

RootOf(c) == IF c = 0 THEN "none" ELSE watch[c].root

\* AppState::current is a fair RwLock: while install_workspace waits to write,
\* no new reader gets in.
CanReadCurrent == op # "installing"

\* A changed file is reported to every watcher of its root.
Reported(r, f) ==
    [c \in Contexts |->
        IF watch[c].on /\ watch[c].root = r
        THEN [watch[c] EXCEPT !.events = @ \cup {f}] ELSE watch[c]]

\* A transaction of the store: the rows and one outbox record, together.
Transaction(r, rows) ==
    /\ index' = [index EXCEPT ![r] = rows]
    /\ committed' = [committed EXCEPT ![r] = @ + 1]
    /\ UNCHANGED acked

-------------------------------------------------------------------------------
(* the disk and the native watcher's callback *)

Change(r, f) ==
    /\ changes < MaxChanges
    /\ changes' = changes + 1
    /\ disk' = [disk EXCEPT ![r][f] = @ + 1]
    /\ watch' = Reported(r, f)
    /\ UNCHANGED <<database, current, gates, operation, save, emitted, excused,
                   survived, crashes>>

WatchStep(c, ctx) ==
    /\ watch' = [watch EXCEPT ![c] = ctx]
    /\ UNCHANGED <<disk, changes, current, gates, operation, save, survived, crashes>>

CallbackStep(c, ctx) ==
    WatchStep(c, ctx) /\ UNCHANGED <<database, emitted, excused>>

\* try_send: a full queue drops the paths, and is flagged in a second step.
Notify(c, f) ==
    LET w == watch[c] IN
    /\ w.callback = "idle" /\ f \in w.events
    /\ CallbackStep(c,
         IF Len(w.queue) < QueueCapacity
         THEN [w EXCEPT !.events = @ \ {f}, !.queue = Append(@, {f})]
         ELSE [w EXCEPT !.events = @ \ {f}, !.callback = "full"])

\* Seeded fault: a full queue only drops the paths.
SilentFlagOverflow(c) ==
    /\ watch[c].callback = "full"
    /\ CallbackStep(c, [watch[c] EXCEPT !.callback = "idle"])

FlagOverflow(c) ==
    /\ watch[c].callback = "full"
    /\ CallbackStep(c, [watch[c] EXCEPT !.callback = "idle", !.overflowed = TRUE])

\* One event with more paths than a batch may have: flagged first, then an
\* empty event wakes the worker if the queue has room.
NotifyMany(c) ==
    /\ watch[c].callback = "idle" /\ watch[c].events # {}
    /\ CallbackStep(c, [watch[c] EXCEPT !.events = {}, !.overflowed = TRUE,
                                        !.callback = "bulk"])

SendEmpty(c) ==
    LET w == watch[c] IN
    /\ w.callback = "bulk"
    /\ CallbackStep(c, [w EXCEPT !.callback = "idle",
                          !.queue = IF Len(@) < QueueCapacity THEN Append(@, {}) ELSE @])

-------------------------------------------------------------------------------
(* the worker thread of a context *)

\* extend_watch_paths: too many paths become a full rescan, which needs none.
Extended(w, paths, rescan) ==
    LET all == w.batch \cup paths IN
    IF rescan \/ Cardinality(all) > MaxBatch
    THEN [w EXCEPT !.queue = Tail(@), !.batch = {}, !.rescan = TRUE]
    ELSE [w EXCEPT !.queue = Tail(@), !.batch = all]

Receive(c) ==
    LET w == watch[c] IN
    /\ w.worker = "idle" /\ w.queue # <<>>
    /\ CallbackStep(c, [Extended(w, Head(w.queue), w.overflowed) EXCEPT
                          !.overflowed = FALSE, !.worker = "collecting"])

Collect(c) ==
    LET w == watch[c] IN
    /\ w.worker = "collecting" /\ w.queue # <<>>
    /\ CallbackStep(c, Extended(w, Head(w.queue), w.rescan))

\* A quiet period or the end of the window; the flag is read once more.
CollectEnds(c) ==
    LET w == watch[c]  rescan == w.rescan \/ w.overflowed IN
    /\ w.worker = "collecting"
    /\ CallbackStep(c, [w EXCEPT !.rescan = rescan, !.overflowed = FALSE,
                          !.batch = IF rescan THEN {} ELSE @, !.worker = "waiting"])

\* The watcher is gone and its queue is empty.
WorkerEnds(c) ==
    LET w == watch[c] IN
    /\ w.worker = "idle" /\ w.queue = <<>> /\ ~w.on
    /\ CallbackStep(c, [w EXCEPT !.worker = "ended"])

\* Seeded fault: the worker analyses without waiting for its turn.
HastyReserve(c) ==
    LET w == watch[c] IN
    /\ w.worker = "waiting"
    /\ CallbackStep(c,
         IF w.rescan THEN [w EXCEPT !.worker = "scanning"]
         ELSE IF w.batch # {} THEN [w EXCEPT !.worker = "delta"]
         ELSE [w EXCEPT !.worker = "idle"])

\* wait_for_analysis, in apply_delta and in apply_full_rescan.
Reserve(c) ==
    LET w == watch[c] IN
    /\ w.worker = "waiting" /\ w.analysis = "free"
    /\ CallbackStep(c,
         IF w.rescan THEN [w EXCEPT !.analysis = "worker", !.worker = "scanning"]
         ELSE IF w.batch # {} THEN [w EXCEPT !.analysis = "worker", !.worker = "delta"]
         ELSE [w EXCEPT !.worker = "idle"])

\* apply_delta: one path at a time is analysed, then replaced.
DeltaRead(c, f) ==
    LET w == watch[c] IN
    /\ w.worker = "delta" /\ w.copy = Unread /\ f \in w.batch
    /\ CallbackStep(c, [w EXCEPT !.copy[f] = disk[w.root][f]])

DeltaCommit(c, f) ==
    LET w == watch[c] IN
    /\ w.worker = "delta" /\ w.copy[f] # 0 /\ w.store = "free"
    /\ Transaction(w.root, [index[w.root] EXCEPT ![f] = w.copy[f]])
    /\ excused' = [excused EXCEPT ![c] = @ \ {f}]
    /\ WatchStep(c,
         IF w.batch = {f}
         THEN [w EXCEPT !.batch = {}, !.copy = Unread, !.analysis = "free",
                        !.worker = "check"]
         ELSE [w EXCEPT !.batch = @ \ {f}, !.copy = Unread])
    /\ UNCHANGED emitted

\* An error of the delta falls back to a full rescan, which reserves anew.
DeltaFails(c) ==
    LET w == watch[c] IN
    /\ Failures
    /\ w.worker = "delta"
    /\ CallbackStep(c, [w EXCEPT !.batch = {}, !.copy = Unread, !.rescan = TRUE,
                                 !.analysis = "free", !.worker = "waiting"])

WorkerScan(c, f) ==
    LET w == watch[c] IN
    /\ w.worker = "scanning" /\ w.copy[f] = 0
    /\ CallbackStep(c, [w EXCEPT !.copy[f] = disk[w.root][f]])

WorkerReplaceAll(c) ==
    LET w == watch[c] IN
    /\ w.worker = "scanning" /\ w.store = "free"
    /\ \A f \in Files : w.copy[f] # 0
    /\ Transaction(w.root, w.copy)
    /\ excused' = [excused EXCEPT ![c] = {}]
    /\ WatchStep(c, [w EXCEPT !.copy = Unread, !.rescan = FALSE,
                              !.analysis = "free", !.worker = "check"])
    /\ UNCHANGED emitted

\* The error is dropped, and with it what was to be indexed.
WorkerScanFails(c) ==
    LET w == watch[c] IN
    /\ Failures
    /\ w.worker = "scanning"
    /\ excused' = [excused EXCEPT ![c] = Files]
    /\ WatchStep(c, [w EXCEPT !.copy = Unread, !.rescan = FALSE,
                              !.analysis = "free", !.worker = "idle"])
    /\ UNCHANGED <<database, emitted>>

\* Seeded fault: whatever is open, the worker publishes.
UncheckedCheckCurrent(c) ==
    LET w == watch[c] IN
    /\ w.worker = "check" /\ CanReadCurrent
    /\ CallbackStep(c, [w EXCEPT !.worker = "snapshot"])

\* workspace_if_open: only the open workspace is refreshed and published.
CheckCurrent(c) ==
    LET w == watch[c] IN
    /\ w.worker = "check" /\ CanReadCurrent
    /\ CallbackStep(c, [w EXCEPT !.worker = IF RootOf(current) = w.root
                                            THEN "snapshot" ELSE "idle"])

\* The snapshot for the assistant is queried and, the store still locked,
\* installed under the read lock of AppState::current.
QuerySnapshot(c) ==
    LET w == watch[c] IN
    /\ w.worker = "snapshot" /\ w.store = "free"
    /\ CallbackStep(c, [w EXCEPT !.store = "worker", !.worker = "project"])

ProjectSnapshot(c) ==
    LET w == watch[c] IN
    /\ w.worker = "project" /\ CanReadCurrent
    /\ CallbackStep(c, [w EXCEPT !.store = "free", !.worker = "pending"])

\* publish_recorded_events: pending_events, emit, acknowledge_events.
ReadPending(c) ==
    LET w == watch[c]
        last == IF acked[w.root] + DrainLimit < committed[w.root]
                THEN acked[w.root] + DrainLimit ELSE committed[w.root]
    IN
    /\ w.worker = "pending" /\ w.store = "free"
    /\ CallbackStep(c, IF acked[w.root] < committed[w.root]
                       THEN [w EXCEPT !.drained = last, !.worker = "emit"]
                       ELSE [w EXCEPT !.worker = "idle"])

Emit(c) ==
    LET w == watch[c] IN
    /\ w.worker = "emit"
    /\ emitted' = [emitted EXCEPT ![w.root] = IF @ < w.drained THEN w.drained ELSE @]
    /\ WatchStep(c, [w EXCEPT !.worker = "ack"])
    /\ UNCHANGED <<database, excused>>

\* An error of the store or of the event bus leaves the records pending.
DrainFails(c) ==
    /\ Failures
    /\ watch[c].worker \in {"pending", "emit", "ack"}
    /\ CallbackStep(c, [watch[c] EXCEPT !.drained = 0, !.worker = "idle"])

\* Seeded fault: everything that is pending by now is acknowledged.
GreedyAcknowledge(c) ==
    LET w == watch[c] IN
    /\ w.worker = "ack" /\ w.store = "free"
    /\ acked' = [acked EXCEPT ![w.root] = committed[w.root]]
    /\ WatchStep(c, [w EXCEPT !.drained = 0, !.worker = "idle"])
    /\ UNCHANGED <<index, committed, emitted, excused>>

Acknowledge(c) ==
    LET w == watch[c] IN
    /\ w.worker = "ack" /\ w.store = "free"
    /\ acked' = [acked EXCEPT ![w.root] = IF @ < w.drained THEN w.drained ELSE @]
    /\ WatchStep(c, [w EXCEPT !.drained = 0, !.worker = "idle"])
    /\ UNCHANGED <<index, committed, emitted, excused>>

-------------------------------------------------------------------------------
(* opening a folder, and the explicit rescan *)

\* A step of the command; with "idle" it returns.
OperationAt(pc) ==
    /\ op' = pc
    /\ kind' = IF pc = "idle" THEN "open" ELSE kind
    /\ target' = IF pc = "idle" THEN "none" ELSE target
    /\ UNCHANGED <<disk, changes, save, emitted, requests, survived, crashes>>

CommandStep(pc) ==
    OperationAt(pc) /\ UNCHANGED <<runtimeSwitching, terminalSwitching>>

\* The command's steps that leave the index and the gates alone.
QuietStep(pc) ==
    /\ CommandStep(pc)
    /\ UNCHANGED <<database, runtimeRoot, opens, excused>>

Released == [c \in Contexts |->
                IF watch[c].analysis = "command"
                THEN [watch[c] EXCEPT !.analysis = "free"] ELSE watch[c]]

\* try_reserve_workspace_operation, then the gate of the terminal.
RequestOpen(r) ==
    /\ op = "idle"
    /\ requests < MaxRequests /\ requests' = requests + 1
    /\ op' = "beginRuntime" /\ kind' = "open" /\ target' = r
    /\ terminalSwitching' = TRUE
    /\ UNCHANGED <<disk, changes, database, watch, current, runtimeRoot,
                   runtimeSwitching, opCopy, opens, save, emitted, excused,
                   survived, crashes>>

RequestRescan ==
    /\ op = "idle" /\ current # 0
    /\ requests < MaxRequests /\ requests' = requests + 1
    /\ op' = "waiting" /\ kind' = "rescan" /\ target' = RootOf(current)
    /\ UNCHANGED <<disk, changes, database, watch, current, gates, opCopy, opens,
                   save, emitted, excused, survived, crashes>>

GateStep(pc, root, runtime, terminal) ==
    /\ OperationAt(pc)
    /\ runtimeRoot' = root /\ runtimeSwitching' = runtime
    /\ terminalSwitching' = terminal
    /\ UNCHANGED <<database, current, opCopy, opens, excused>>

BeginRuntime ==
    /\ op = "beginRuntime"
    /\ GateStep("waiting", runtimeRoot, TRUE, TRUE) /\ UNCHANGED watch

\* A process is running: the switch is refused.
RuntimeRefuses ==
    /\ op = "beginRuntime"
    /\ QuietStep("cancelTerminal") /\ UNCHANGED <<watch, current, opCopy>>

\* wait_for_context_analysis on the context that is open, if there is one.
WaitPrevious ==
    /\ op = "waiting"
    /\ IF current = 0 THEN watch' = watch
       ELSE /\ watch[current].analysis = "free"
            /\ watch' = [watch EXCEPT ![current].analysis = "command"]
    /\ QuietStep(IF target = RootOf(current) THEN "rescanning" ELSE "scanning")
    /\ UNCHANGED <<current, opCopy>>

ScanFile(f) ==
    /\ op \in {"scanning", "rescanning"} /\ opCopy[f] = 0
    /\ opCopy' = [opCopy EXCEPT ![f] = disk[target][f]]
    /\ QuietStep(op) /\ UNCHANGED <<watch, current>>

\* commit_scan_result through a store of its own.
CommitScan ==
    /\ op = "scanning" /\ \A f \in Files : opCopy[f] # 0
    /\ Transaction(target, opCopy)
    /\ opCopy' = Unread
    /\ CommandStep("watching")
    /\ UNCHANGED <<watch, current, runtimeRoot, opens, excused>>

\* commit_scan_result of rescan_context, through the open context's store.
CommitRescan ==
    /\ op = "rescanning" /\ \A f \in Files : opCopy[f] # 0
    /\ watch[current].store = "free"
    /\ Transaction(target, opCopy)
    /\ excused' = [excused EXCEPT ![current] = {}]
    /\ opCopy' = Unread
    /\ CommandStep("refreshing")
    /\ UNCHANGED <<watch, current, runtimeRoot, opens>>

ScanFails ==
    /\ Failures
    /\ op \in {"scanning", "rescanning"}
    /\ opCopy' = Unread
    /\ watch' = IF op = "rescanning" THEN Released ELSE watch
    /\ QuietStep(IF kind = "open" THEN "cancelRuntime" ELSE "idle")
    /\ UNCHANGED current

WatcherFails ==
    /\ Failures
    /\ op = "watching"
    /\ QuietStep("cancelRuntime") /\ UNCHANGED <<watch, current, opCopy>>

\* The new watcher observes from here on; what changed since the scan is lost
\* on it, and "excused" remembers that.
StartWatcher ==
    /\ op = "watching"
    /\ opens' = opens + 1
    /\ watch' = [watch EXCEPT ![opens + 1] =
                    [@ EXCEPT !.root = target, !.on = TRUE, !.worker = "idle"]]
    /\ excused' = [excused EXCEPT ![opens + 1] =
                      {f \in Files : index[target][f] # disk[target][f]}]
    /\ CommandStep("releasing")
    /\ UNCHANGED <<database, current, runtimeRoot, opCopy>>

\* Seeded fault: the old context's reservation is kept over the join.
RetentivePreviousRelease ==
    /\ op = "releasing"
    /\ QuietStep(IF current = 0 THEN "installing" ELSE "dropping")
    /\ UNCHANGED <<watch, current, opCopy>>

\* drop(previous_analysis)
ReleasePrevious ==
    /\ op = "releasing"
    /\ watch' = Released
    /\ QuietStep(IF current = 0 THEN "installing" ELSE "dropping")
    /\ UNCHANGED <<current, opCopy>>

\* install_workspace: the old watcher is dropped, its worker joined, and only
\* then the new context becomes the current one.
DropOldWatcher ==
    /\ op = "dropping" /\ watch[current].callback = "idle"
    /\ watch' = [watch EXCEPT ![current].on = FALSE, ![current].events = {}]
    /\ QuietStep("joining") /\ UNCHANGED <<current, opCopy>>

JoinOldWorker ==
    /\ op = "joining" /\ watch[current].worker = "ended"
    /\ QuietStep("installing") /\ UNCHANGED <<watch, current, opCopy>>

\* The write lock: no save is inside while_workspace_current.
Install ==
    /\ op = "installing" /\ savePc \notin {"reading", "written"}
    /\ current' = opens
    /\ QuietStep("refreshing") /\ UNCHANGED <<watch, opCopy>>

\* refresh_committed_workspace; a rescan returns its reservation after it.
Refresh ==
    /\ op = "refreshing" /\ watch[current].store = "free"
    /\ watch' = Released
    /\ QuietStep(IF kind = "open" THEN "completeRuntime" ELSE "idle")
    /\ UNCHANGED <<current, opCopy>>

CompleteRuntime ==
    /\ op = "completeRuntime"
    /\ GateStep("completeTerminal", target, FALSE, TRUE) /\ UNCHANGED watch

CompleteTerminal ==
    /\ op = "completeTerminal"
    /\ GateStep("idle", runtimeRoot, FALSE, FALSE) /\ UNCHANGED watch

\* Seeded fault: the error path only returns.
ForgetfulCancelRuntime ==
    /\ op = "cancelRuntime"
    /\ GateStep("cancelTerminal", runtimeRoot, TRUE, TRUE) /\ watch' = Released

\* cancel_workspace_switch of the runner; the reservation goes with the call.
CancelRuntime ==
    /\ op = "cancelRuntime"
    /\ GateStep("cancelTerminal", runtimeRoot, FALSE, TRUE) /\ watch' = Released

CancelTerminal ==
    /\ op = "cancelTerminal"
    /\ GateStep("idle", runtimeRoot, runtimeSwitching, FALSE) /\ UNCHANGED watch

-------------------------------------------------------------------------------
(* write_workspace_file *)

SaveStep(pc) ==
    /\ savePc' = pc
    /\ UNCHANGED <<current, gates, operation, emitted, crashes>>

\* The content was loaded from the version that is on disk now.
StartSave(f) ==
    /\ savePc = "idle" /\ current # 0 /\ CanReadCurrent
    /\ changes < MaxChanges /\ changes' = changes + 1
    /\ saveCtx' = current /\ saveFile' = f
    /\ saveExpected' = disk[RootOf(current)][f]
    /\ SaveStep("waiting") /\ UNCHANGED <<disk, database, watch, excused, survived>>

SaveUnchanged == disk[RootOf(saveCtx)][saveFile] = saveExpected

SaveReserve ==
    /\ savePc = "waiting" /\ watch[saveCtx].analysis = "free"
    /\ watch' = [watch EXCEPT ![saveCtx].analysis = "save"]
    /\ SaveStep("reserved")
    /\ UNCHANGED <<disk, changes, database, saveCtx, saveFile, saveExpected, excused,
                   survived>>

\* The file changed on disk, the analysis failed or the workspace changed.
SaveRejected ==
    /\ \/ savePc = "reserved" /\ (~SaveUnchanged \/ Failures)
       \/ savePc = "reserved" /\ CanReadCurrent /\ RootOf(current) # RootOf(saveCtx)
       \/ savePc = "reading" /\ (~SaveUnchanged \/ Failures)
    /\ watch' = [watch EXCEPT ![saveCtx].analysis = "free"]
    /\ saveCtx' = 0 /\ saveExpected' = 0
    /\ SaveStep("idle")
    /\ UNCHANGED <<disk, changes, database, saveFile, excused, survived>>

\* while_workspace_current: the read lock is held until the save is indexed.
SaveEnter ==
    /\ savePc = "reserved" /\ CanReadCurrent
    /\ RootOf(current) = RootOf(saveCtx)
    /\ SaveStep("reading")
    /\ UNCHANGED <<disk, changes, database, watch, saveCtx, saveFile, saveExpected,
                   excused, survived>>

\* atomic_write_if_unchanged.  The workspace is compared by its id, which is the root
\* (state/app.rs:82-100): a save that waited while its workspace was left and opened
\* again goes on with the reservation of the earlier opening.
SaveWrite ==
    /\ savePc = "reading" /\ SaveUnchanged
    /\ disk' = [disk EXCEPT ![RootOf(saveCtx)][saveFile] = @ + 1]
    /\ watch' = Reported(RootOf(saveCtx), saveFile)
    /\ survived' = IF saveCtx = current THEN survived
                   ELSE survived \cup {<<RootOf(saveCtx), saveFile>>}
    /\ SaveStep("written")
    /\ UNCHANGED <<changes, database, saveCtx, saveFile, saveExpected, excused>>

SaveEnds ==
    /\ watch' = [watch EXCEPT ![saveCtx].analysis = "free"]
    /\ saveCtx' = 0 /\ saveExpected' = 0
    /\ SaveStep("idle") /\ UNCHANGED <<disk, changes, saveFile, survived>>

\* complete_committed_save: what was written, not what is on disk by now.
SaveIndex ==
    /\ savePc = "written" /\ watch[saveCtx].store = "free"
    /\ Transaction(RootOf(saveCtx),
                   [index[RootOf(saveCtx)] EXCEPT ![saveFile] = saveExpected + 1])
    /\ SaveEnds /\ UNCHANGED excused

\* The error is reported on stderr; the watcher is left to index the file.
SaveIndexFails ==
    /\ Failures
    /\ savePc = "written" /\ watch[saveCtx].store = "free"
    /\ SaveEnds /\ UNCHANGED <<database, excused>>

-------------------------------------------------------------------------------
\* The application ends at any step and is started again: files and databases
\* survive, nothing is open.
Crash ==
    /\ crashes < MaxCrashes
    /\ crashes' = crashes + 1
    /\ watch' = [c \in Contexts |-> FreshContext]
    /\ current' = 0 /\ runtimeRoot' = "none"
    /\ runtimeSwitching' = FALSE /\ terminalSwitching' = FALSE
    /\ op' = "idle" /\ kind' = "open" /\ target' = "none" /\ opCopy' = Unread
    /\ opens' = 0 /\ UNCHANGED requests
    /\ savePc' = "idle" /\ saveCtx' = 0 /\ saveExpected' = 0
    /\ excused' = [c \in Contexts |-> {}]
    /\ UNCHANGED <<disk, changes, database, saveFile, emitted, survived>>

CallbackNext(c) ==
    (\E f \in Files : Notify(c, f)) \/ FlagOverflow(c) \/ NotifyMany(c) \/ SendEmpty(c)

WorkerNext(c) ==
    \/ Receive(c) \/ Collect(c) \/ CollectEnds(c) \/ WorkerEnds(c) \/ Reserve(c)
    \/ \E f \in Files : DeltaRead(c, f) \/ DeltaCommit(c, f) \/ WorkerScan(c, f)
    \/ DeltaFails(c) \/ WorkerReplaceAll(c) \/ WorkerScanFails(c)
    \/ CheckCurrent(c) \/ QuerySnapshot(c) \/ ProjectSnapshot(c)
    \/ ReadPending(c) \/ Emit(c) \/ Acknowledge(c) \/ DrainFails(c)

CommandNext ==
    \/ BeginRuntime \/ RuntimeRefuses \/ WaitPrevious
    \/ \E f \in Files : ScanFile(f)
    \/ CommitScan \/ CommitRescan \/ ScanFails \/ WatcherFails \/ StartWatcher
    \/ ReleasePrevious \/ DropOldWatcher \/ JoinOldWorker \/ Install \/ Refresh
    \/ CompleteRuntime \/ CompleteTerminal \/ CancelRuntime \/ CancelTerminal

SaveNext ==
    \/ SaveReserve \/ SaveRejected \/ SaveEnter \/ SaveWrite
    \/ SaveIndex \/ SaveIndexFails

UserNext ==
    \/ \E r \in Roots : RequestOpen(r) \/ \E f \in Files : Change(r, f)
    \/ RequestRescan
    \/ \E f \in Files : StartSave(f)
    \/ Crash

Next ==
    \/ UserNext \/ CommandNext \/ SaveNext
    \/ \E c \in Contexts : CallbackNext(c) \/ WorkerNext(c)

\* Threads and blocking tasks that can run do; users, disks and crashes owe
\* nothing.
Fairness ==
    /\ WF_vars(CommandNext) /\ WF_vars(SaveNext)
    /\ \A c \in Contexts : WF_vars(CallbackNext(c)) /\ WF_vars(WorkerNext(c))

Spec == Init /\ [][Next]_vars
FairSpec == Spec /\ Fairness

-------------------------------------------------------------------------------
\* A copy that is being made has not read f yet, or read what is there now.
WillCover(copy, r, f) == copy[f] \in {0, disk[r][f]}

\* Something is left that will index f for the context c: an event, a flag, a place in
\* the queue, or a batch or a rescan of its worker that has not read it too early.
Owed(c, f) ==
    LET w == watch[c] IN
    \/ f \in w.events \/ w.overflowed \/ w.callback = "full"
    \/ \E i \in DOMAIN w.queue : f \in w.queue[i]
    \/ (f \in w.batch \/ w.rescan) /\ WillCover(w.copy, w.root, f)

Stale(c, f) == watch[c].on /\ index[watch[c].root][f] # disk[watch[c].root][f]

(* No change is forgotten: while a context is watched, a file whose row is     *)
(* behind the disk is still in an event, in the queue, in the batch, covered   *)
(* by the worker's own rescan, or behind the overflow flag (watcher/worker.rs, *)
(* batching.rs) - except the files a context is excused for: those that        *)
(* changed between the opening scan and the watcher, those of a rescan that    *)
(* failed, and those that a save of an earlier opening wrote.                  *)
StaleIsOwed ==
    \A c \in Contexts, f \in Files :
        Stale(c, f) => \/ Owed(c, f) \/ f \in excused[c]
                       \/ <<watch[c].root, f>> \in survived

(* watcher/README.md:35-37 and commands/workspace.rs:189-190: holding the old  *)
(* reservation until the new watcher runs leaves no observation gap.  So, when *)
(* nothing fails, a watched context owes every file that is stale.             *)
EveryChangeIsOwed ==
    \A c \in Contexts, f \in Files : Stale(c, f) => Owed(c, f)

(* The reservations keep every writer of the index from committing what it     *)
(* read before another one committed something newer: no row ever goes back    *)
(* to an older version (watcher/README.md:35), unless a save of an earlier     *)
(* opening wrote the file, which holds another context's reservation.          *)
IndexNeverGoesBack ==
    [][\A r \in Roots, f \in Files :
         <<r, f>> \notin survived => index'[r][f] >= index[r][f]]_vars

(* Durable events reach the renderer only from the workspace that is open,     *)
(* whatever old workers have left to do during a switch (worker.rs:85-110 and  *)
(* the join in install_workspace).                                             *)
OnlyCurrentPublishes ==
    [][\A r \in Roots : emitted'[r] # emitted[r] => RootOf(current) = r]_vars

(* The outbox delivers at least once and in order, also over crashes and       *)
(* failed emits: a record is acknowledged only after it was emitted, and       *)
(* emitted only after it was committed (store/outbox.rs, worker.rs:203-226).   *)
DeliveryInOrder ==
    \A r \in Roots : acked[r] <= emitted[r] /\ emitted[r] <= committed[r]

(* While the open context and the runner's root differ, the runner and the     *)
(* terminal are both closed, so nothing starts under the wrong root; and when  *)
(* the operation is over, successful or not, no gate and no reservation of it  *)
(* is left behind.                                                             *)
GatesAgree ==
    /\ RootOf(current) # runtimeRoot => runtimeSwitching /\ terminalSwitching
    /\ runtimeSwitching => terminalSwitching
    /\ op = "idle" => /\ ~terminalSwitching
                      /\ \A c \in Contexts : watch[c].analysis # "command"

\* Before the new context is the open one: its watcher may run already.
Installing == {"releasing", "dropping", "joining", "installing"}

\* The command: what it works on, and what it holds, at each of its steps.
OperationInv ==
    /\ op = "idle" <=> target = "none"
    /\ op = "idle" => kind = "open"
    /\ kind = "rescan" => op \in {"waiting", "rescanning", "refreshing"}
    /\ kind = "rescan" \/ op \in {"rescanning", "refreshing", "completeRuntime"}
          => current # 0 /\ target = RootOf(current)
    /\ op \in {"scanning", "watching"} \cup Installing => target # RootOf(current)
    /\ op \in {"dropping", "joining"} => current # 0
    /\ op \in {"beginRuntime", "waiting", "scanning", "watching"} /\ kind = "open"
          => opens < requests
    /\ opens <= requests
    /\ terminalSwitching <=> kind = "open" /\ op # "idle"
    /\ runtimeSwitching <=>
          /\ kind = "open"
          /\ op \notin {"idle", "beginRuntime", "completeTerminal", "cancelTerminal"}
    /\ RootOf(current) # runtimeRoot
          => kind = "open" /\ op \in {"refreshing", "completeRuntime"}
    /\ \A c \in Contexts :
          watch[c].analysis = "command" =>
             /\ c = current
             /\ op \in {"scanning", "watching", "releasing", "rescanning",
                        "refreshing", "cancelRuntime"}

\* Contexts come one after the other.  Only the open one and the one that is
\* being installed have a worker, and only a worker of the open root publishes.
WorkerInv ==
    /\ opens = IF op \in Installing THEN current + 1 ELSE current
    /\ op \in Installing => watch[opens].root = target
    /\ op = "installing" /\ current # 0 => watch[current].worker = "ended"
    /\ \A c \in Contexts :
          /\ c > opens => watch[c] = FreshContext
          /\ c <= opens => watch[c].root # "none"
          /\ c < current => watch[c].worker = "ended"
          /\ watch[c].worker \in Publishing => watch[c].root = RootOf(current)

\* What a worker is about to emit or to acknowledge.
DeliveryInv ==
    /\ DeliveryInOrder
    /\ \A c \in Contexts :
          /\ watch[c].worker = "emit" => watch[c].drained <= committed[watch[c].root]
          /\ watch[c].worker = "ack" => watch[c].drained <= emitted[watch[c].root]

(* What holds between any two steps (commands/workspace.rs, state/context.rs,  *)
(* watcher/worker.rs): the types, with the bounds of the watcher's queue and   *)
(* of a batch; the gates; which step of the command holds which reservation;   *)
(* that an old worker has ended before the next context is installed; and that *)
(* no worker is ahead of the outbox.                                           *)
IndexInv ==
    TypeOK /\ GatesAgree /\ OperationInv /\ WorkerInv /\ DeliveryInv

(* Every accepted open or rescan ends, although it waits for the analysis of   *)
(* the old context, for its worker, for the store and for the write lock that  *)
(* workers and saves take in both orders.                                      *)
SwitchEnds == op # "idle" ~> op = "idle"

===============================================================================

----------------------------- MODULE WorkspaceView -----------------------------
(***************************************************************************)
(* The renderer's view of the workspace: initialize, runWorkspaceMutation   *)
(* with adoptWorkspace, handleScan and the reloads that workspace.changed   *)
(* causes (useAppController, workspaceMutation, useRuntimeSubscriptions),   *)
(* against a backend whose graph has a version.  Every load reads at a      *)
(* moment of its own; answers are not ordered; generations decide which of  *)
(* them still counts.                                                      *)
(***************************************************************************)
EXTENDS Naturals, Sequences, SequencesExt

CONSTANTS
    Workspaces,  \* workspaces the user may open
    NoWorkspace,
    MaxVersions, \* bound on the versions of the graph over all workspaces
    MaxLoads,    \* bound on the loads under way
    MaxTasks     \* bound on the operations: starts, openings, rescans

ASSUME WorkspaceViewAssumption ==
    NoWorkspace \notin Workspaces /\ MaxLoads \in Nat /\ {MaxVersions, MaxTasks} \subseteq Nat \ {0}

VARIABLES
    indexed,    \* backend: the open workspace and the version of its graph
    notice,     \* whether a workspace.changed event is under way
    phase,      \* "loading", "ready" or "error"
    task,       \* what the running operation waits for
    tasks,      \* operations begun so far
    generation, \* workspaceGenerationRef
    workspace,  \* workspace
    overview,   \* the graphs, files and profiles that are shown
    loading,    \* filesLoading and graphLoading
    reloadTimer,\* workspaceReloadTimerRef
    loads,      \* loads under way
    excused     \* history: why the view may be behind, until a load that began
                \* and ended alone settles it

workspaceViewVars == <<indexed, notice, phase, task, tasks, generation, workspace,
                       overview, loading, reloadTimer, loads, excused>>

\* initializingRef, openingWorkspaceRef and workspaceOperationRef say which
\* operation runs; what it awaits says the same and more.
Initializing == task \in {"snapshot", "initload"}
Opening == task \in {"picker", "opened", "adoptload"}
Operating == Opening \/ task \in {"rescan", "scanload"}

Empty == [of |-> NoWorkspace, version |-> 0]
Versions == [of : Workspaces \cup {NoWorkspace}, version : 0..MaxVersions]
Owners == {"initload", "adoptload", "scanload", "reload"}
Unread == [of |-> NoWorkspace, version |-> MaxVersions]
Failed == [of |-> NoWorkspace, version |-> MaxVersions - 1]

WorkspaceViewTypeOK ==
    /\ indexed \in Versions /\ notice \in BOOLEAN
    /\ phase \in {"loading", "ready", "error"} /\ tasks \in 0..MaxTasks
    /\ task \in {"none", "snapshot", "picker", "opened", "rescan"} \cup (Owners \ {"reload"})
    /\ generation \in Nat /\ workspace \in Workspaces \cup {NoWorkspace}
    /\ overview \in Versions /\ loading \in BOOLEAN /\ reloadTimer \in BOOLEAN
    /\ loads \in Seq([owner : Owners, generation : Nat, data : Versions,
                      settles : BOOLEAN])
    /\ excused \subseteq {"dropped", "overlapped", "crossed", "failed"}
    /\ task \in Owners => \E i \in DOMAIN loads : loads[i].owner = task

\* The application starts with the workspace it had, or with none, and its first
\* effect is initialize.
WorkspaceViewInit ==
    /\ indexed \in {Empty} \cup [of : Workspaces, version : {1}] /\ notice = FALSE
    /\ phase = "loading" /\ task = "snapshot" /\ tasks = 1 /\ generation = 1
    /\ workspace = NoWorkspace /\ overview = Empty
    /\ loading = FALSE /\ reloadTimer = FALSE /\ loads = <<>> /\ excused = {}

--------------------------------------------------------------------------------
(* The backend.                                                            *)

\* The watcher's worker commits a delta and tells of it.
GraphChanges ==
    /\ indexed # Empty /\ indexed.version < MaxVersions
    /\ indexed' = [indexed EXCEPT !.version = @ + 1] /\ notice' = TRUE
    /\ UNCHANGED <<phase, task, tasks, generation, workspace, overview, loading,
                   reloadTimer, loads, excused>>

\* The reads of a load.
ReadGraph(i) ==
    /\ loads[i].data = Unread
    /\ \E data \in {indexed, Failed} : loads' = [loads EXCEPT ![i].data = data]
    /\ UNCHANGED <<indexed, notice, phase, task, tasks, generation, workspace,
                   overview, loading, reloadTimer, excused>>

--------------------------------------------------------------------------------
(* Loads.                                                                  *)

\* A load begins in the generation of.  Two of one generation that overlap are
\* not ordered by anything, and one that begins while an opening is asked for
\* has the generation of a workspace that is not there yet.
BeginLoad(owner, of) ==
    LET reasons ==
          {why \in {"overlapped"} : \E i \in DOMAIN loads : loads[i].generation = of} \cup
          {why \in {"crossed"} : owner = "reload" /\ task \in {"picker", "opened"}}
    IN  /\ Len(loads) < MaxLoads
        /\ loads' = Append([i \in DOMAIN loads |-> [loads[i] EXCEPT !.settles = FALSE]],
                           [owner |-> owner, generation |-> of, data |-> Unread,
                            settles |-> loads = <<>> /\ reasons = {}])
        /\ excused' = excused \cup reasons

Current(load) == load.generation = generation

\* Seeded fault: a load that fails leaves its operation where it is.
StuckTaskAfter(load) == IF load.owner = task /\ load.data # Failed THEN "none" ELSE task

\* The finally blocks of the operation a load belongs to.
TaskAfter(load) == IF load.owner = task THEN "none" ELSE task

\* The end of loadFilesAndGraph, and of initialize for its own load, which shows
\* no progress and whose failure is one of the application.
EndLoad(i) ==
    LET load == loads[i]
        fails == load.data = Failed
    IN  /\ load.data # Unread /\ loads' = RemoveAt(loads, i)
        /\ IF Current(load)
           THEN /\ overview' = IF fails THEN overview ELSE load.data
                /\ loading' = (loading /\ load.owner = "initload")
                /\ phase' = IF load.owner # "initload" THEN phase
                            ELSE IF fails THEN "error" ELSE "ready"
                /\ excused' = IF fails THEN excused \cup {"failed"}
                          ELSE IF load.settles /\ ~loading' THEN {} ELSE excused
           ELSE UNCHANGED <<overview, loading, phase, excused>>
        /\ task' = TaskAfter(load)
        /\ UNCHANGED <<indexed, notice, tasks, generation, workspace, reloadTimer>>

\* The event restarts the timer of the reload.
ChangeNotice ==
    /\ notice /\ notice' = FALSE /\ reloadTimer' = TRUE
    /\ UNCHANGED <<indexed, phase, task, tasks, generation, workspace, overview,
                   loading, loads, excused>>

\* Seeded fault: a reload that is due during an operation is left out.
ShyReloadDue ==
    /\ reloadTimer /\ reloadTimer' = FALSE
    /\ IF Operating THEN UNCHANGED <<loading, loads, excused>>
       ELSE BeginLoad("reload", generation) /\ loading' = TRUE
    /\ UNCHANGED <<indexed, notice, phase, task, tasks, generation, workspace, overview>>

\* The timer fires; nothing asks whether an operation is under way.
ReloadDue ==
    /\ reloadTimer /\ reloadTimer' = FALSE
    /\ BeginLoad("reload", generation) /\ loading' = TRUE
    /\ UNCHANGED <<indexed, notice, phase, task, tasks, generation, workspace, overview>>

--------------------------------------------------------------------------------
(* Operations.                                                             *)

BeginTask(next) == task = "none" /\ tasks < MaxTasks /\ tasks' = tasks + 1 /\ task' = next

\* No load that is under way counts any more.
NextGeneration ==
    /\ generation' = generation + 1
    /\ excused' = excused \cup {why \in {"dropped"} : loads # <<>>}

\* initialize, when the user retries after an error.
Initialize ==
    /\ phase = "error" /\ BeginTask("snapshot")
    /\ phase' = "loading" /\ NextGeneration
    /\ UNCHANGED <<indexed, notice, workspace, overview, loading, reloadTimer, loads>>

SnapshotAnswer ==
    /\ task = "snapshot"
    /\ \/ /\ indexed = Empty /\ task' = "none" /\ phase' = "ready"
          /\ workspace' = NoWorkspace /\ overview' = Empty
          /\ UNCHANGED <<loads, excused>>
       \/ /\ indexed # Empty /\ task' = "initload" /\ workspace' = indexed.of
          /\ BeginLoad("initload", generation) /\ UNCHANGED <<phase, overview>>
       \/ /\ task' = "none" /\ phase' = "error"
          /\ UNCHANGED <<workspace, overview, loads, excused>>
    /\ UNCHANGED <<indexed, notice, tasks, generation, loading, reloadTimer>>

\* runWorkspaceMutation up to its request: the generation is a new one whether
\* the user then cancels or not.
BeginOpening ==
    /\ phase = "ready" /\ BeginTask("picker")
    /\ NextGeneration
    /\ UNCHANGED <<indexed, notice, phase, workspace, overview, loading, reloadTimer, loads>>

OpeningRefused ==
    /\ task = "picker" /\ task' = "none"
    /\ UNCHANGED <<indexed, notice, phase, tasks, generation, workspace, overview,
                   loading, reloadTimer, loads, excused>>

BackendOpens ==
    /\ task = "picker" /\ task' = "opened" /\ indexed.version < MaxVersions
    /\ indexed' \in [of : Workspaces, version : {indexed.version + 1}]
    /\ UNCHANGED <<notice, phase, tasks, generation, workspace, overview, loading,
                   reloadTimer, loads, excused>>

\* adoptWorkspace
AdoptWorkspace ==
    /\ task = "opened" /\ task' = "adoptload"
    /\ workspace' = indexed.of /\ overview' = Empty
    /\ reloadTimer' = FALSE /\ loading' = TRUE
    /\ BeginLoad("adoptload", generation)
    /\ UNCHANGED <<indexed, notice, phase, tasks, generation>>

\* handleScan
BeginScan ==
    /\ phase = "ready" /\ workspace # NoWorkspace /\ BeginTask("rescan")
    /\ UNCHANGED <<indexed, notice, phase, generation, workspace, overview, loading,
                   reloadTimer, loads, excused>>

\* The rescan commits a version, or fails; only a load follows the first.
ScanAnswer ==
    /\ task = "rescan"
    /\ \/ /\ indexed.version < MaxVersions
          /\ indexed' = [indexed EXCEPT !.version = @ + 1]
          /\ task' = "scanload" /\ loading' = TRUE
          /\ BeginLoad("scanload", generation)
       \/ task' = "none" /\ UNCHANGED <<indexed, loading, loads, excused>>
    /\ UNCHANGED <<notice, phase, tasks, generation, workspace, overview, reloadTimer>>

WorkspaceViewNext ==
    \/ GraphChanges \/ ChangeNotice \/ ReloadDue
    \/ \E i \in DOMAIN loads : ReadGraph(i) \/ EndLoad(i)
    \/ Initialize \/ SnapshotAnswer
    \/ BeginOpening \/ OpeningRefused \/ BackendOpens \/ AdoptWorkspace
    \/ BeginScan \/ ScanAnswer

WorkspaceViewSpec == WorkspaceViewInit /\ [][WorkspaceViewNext]_workspaceViewVars

\* Reads are answered, the event arrives, timers and continuations run.  The
\* user may leave the picker open and need not retry.
WorkspaceViewFairness ==
    /\ WF_workspaceViewVars(\E i \in DOMAIN loads : ReadGraph(i) \/ EndLoad(i))
    /\ WF_workspaceViewVars(ChangeNotice \/ ReloadDue)
    /\ WF_workspaceViewVars(SnapshotAnswer \/ AdoptWorkspace \/ ScanAnswer)

FairWorkspaceViewSpec == WorkspaceViewSpec /\ WorkspaceViewFairness

--------------------------------------------------------------------------------
(* Properties.                                                             *)

\* What is shown belongs to the workspace that is shown.  Excepted is a reload
\* that began between the request of an opening and its adoption: it has the
\* generation of the new workspace and may have read the old one.
OverviewOfWorkspace ==
    phase = "ready" => overview.of \in {NoWorkspace, workspace} \/ "crossed" \in excused

\* The view catches up with the backend after every change, through the reload
\* of the event or the load of the operation, and stops saying that it loads.
\* Excepted are a load that failed and shows an error, two overlapping loads of
\* one generation, whose older answer may come last, and a load that an opening
\* or a retry made late although the user then cancelled.
Behind == phase = "ready" /\ ~Opening /\ (overview # indexed \/ loading)
OverviewCatchesUp == Behind ~> (~Behind \/ excused # {})
================================================================================

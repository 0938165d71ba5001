----------------------------- MODULE SourceControl -----------------------------
(***************************************************************************)
(* The panel of source control (SourceControlPanel.tsx), the copy of the    *)
(* Git status that the workbench keeps for its status bar and graph, and    *)
(* the backend commands they call: git status, and the stage, unstage,      *)
(* initialize and commit commands of git/commands.rs, which hold one lock   *)
(* over a native consent dialog.  A repository is the number of changes     *)
(* that were made to its index, by this or by other Git programs; every     *)
(* change makes an index that was not there before.                         *)
(***************************************************************************)
EXTENDS Naturals, Sequences, SequencesExt

CONSTANTS
    Repositories, \* the workspaces, each the root of a repository
    NoStatus,     \* the null of a status
    Mutations,    \* slots for Git mutations in flight
    Readings,     \* slots for getGitStatus calls in flight
    NoSlot,       \* no call is the newest one
    MaxGitActs    \* bound on what users and other programs begin

ASSUME SourceControlAssumption ==
    /\ NoStatus \notin [root : Repositories, index : Nat]
    /\ NoSlot \notin Mutations \cup Readings
    /\ MaxGitActs \in Nat

VARIABLES
    openRoot,    \* the workspace that the backend has open
    gitIndex,    \* the changes made to the index of each repository
    queue,       \* GIT_MUTATION_LOCK: its holder, then those that wait
    mutation,    \* the mutations in flight
    statusCall,  \* the status calls in flight
    gitPanel,    \* the panel while its view is open, with its refs
    gitStatus,   \* useDeveloperWorkbench.gitStatus
    panelRoot,   \* the workspace of the renderer
    gitOpening,  \* another workspace: "no", "asked", or "switched" in the backend
    tokenDue,    \* the 120 ms timer that a new refreshToken sets
    gitActs,     \* what was begun so far
    owed         \* history: the index that a status of each repository must know

gitBackend == <<openRoot, gitIndex, queue>>
gitView == <<gitPanel, gitStatus, panelRoot, gitOpening, tokenDue>>
gitVars == <<gitBackend, mutation, statusCall, gitView, gitActs, owed>>

GitStatus == [root : Repositories, index : Nat]
NoMutation == [stage |-> "idle", kind |-> "stage", root |-> NoStatus, approved |-> 0,
               raced |-> FALSE, left |-> FALSE]
NoReading == [stage |-> "idle", status |-> NoStatus, awaited |-> NoSlot, left |-> FALSE]
\* latest and mutating are the calls that hold statusGeneration and mutationGeneration.
ClosedPanel == [open |-> FALSE, status |-> NoStatus, latest |-> NoSlot,
                mutating |-> NoSlot, busy |-> FALSE, error |-> FALSE]

SourceControlTypeOK ==
    /\ openRoot \in Repositories /\ panelRoot \in Repositories
    /\ gitIndex \in [Repositories -> Nat] /\ owed \in [Repositories -> Nat]
    /\ queue \in Seq(Mutations) /\ IsInjective(queue)
    /\ mutation \in [Mutations ->
         [stage : {"idle", "queued", "asked", "checked", "done", "failed"},
          kind : {"stage", "commit"}, root : Repositories \cup {NoStatus},
          approved : Nat, raced : BOOLEAN, left : BOOLEAN]]
    /\ statusCall \in [Readings ->
         [stage : {"idle", "asked", "read", "failed"}, status : GitStatus \cup {NoStatus},
          awaited : Mutations \cup {NoSlot}, left : BOOLEAN]]
    /\ gitPanel \in [open : BOOLEAN, status : GitStatus \cup {NoStatus},
                     latest : Readings \cup {NoSlot}, mutating : Mutations \cup {NoSlot},
                     busy : BOOLEAN, error : BOOLEAN]
    /\ gitStatus \in GitStatus \cup {NoStatus}
    /\ gitOpening \in {"no", "asked", "switched"} /\ tokenDue \in BOOLEAN
    /\ gitActs \in 0..MaxGitActs
    \* the lock is held by mutations that are under way, and by no other
    /\ \A m \in Mutations : Contains(queue, m)
          <=> mutation[m].stage \in {"queued", "asked", "checked"}

SourceControlInit ==
    /\ openRoot \in Repositories /\ panelRoot = openRoot
    /\ gitIndex = [w \in Repositories |-> 0] /\ owed = gitIndex
    /\ queue = <<>>
    /\ mutation = [m \in Mutations |-> NoMutation]
    /\ statusCall = [r \in Readings |-> NoReading]
    /\ gitPanel = ClosedPanel /\ gitStatus = NoStatus
    /\ gitOpening = "no" /\ tokenDue = FALSE /\ gitActs = 0

GitBegins == gitActs < MaxGitActs /\ gitActs' = gitActs + 1

--------------------------------------------------------------------------------
(* refresh: a status call that makes every older one stale.                *)

Asking(r, awaited, left) ==
    /\ statusCall[r].stage = "idle"
    /\ statusCall' = [statusCall EXCEPT ![r] = [NoReading EXCEPT !.stage = "asked",
                                              !.awaited = awaited, !.left = left]]

\* The view is opened: the panel shows the copy of the workbench and refreshes.
OpenSourceControl(r) ==
    /\ ~gitPanel.open /\ GitBegins /\ Asking(r, NoSlot, FALSE)
    /\ gitPanel' = [ClosedPanel EXCEPT !.open = TRUE, !.status = gitStatus, !.latest = r]
    /\ tokenDue' = FALSE
    /\ UNCHANGED <<gitBackend, mutation, gitStatus, panelRoot, gitOpening, owed>>

\* Another view is opened.  The refs of the panel stay as they are, so its calls
\* that were the newest still count for the callbacks it was given.
LeaveSourceControl ==
    /\ gitPanel.open /\ GitBegins
    /\ gitPanel' = ClosedPanel /\ tokenDue' = FALSE
    /\ statusCall' = [r \in Readings |->
                     IF r = gitPanel.latest /\ statusCall[r].stage # "idle"
                     THEN [statusCall[r] EXCEPT !.left = TRUE, !.awaited = NoSlot]
                     ELSE IF statusCall[r].left THEN statusCall[r] ELSE NoReading]
    /\ mutation' = [m \in Mutations |->
                      IF mutation[m].stage = "idle" THEN mutation[m]
                      ELSE [mutation[m] EXCEPT !.left = @ \/ m = gitPanel.mutating]]
    /\ UNCHANGED <<gitBackend, gitStatus, panelRoot, gitOpening, owed>>

\* The button, or the timer of a new refreshToken.
RefreshStatus(r) ==
    /\ gitPanel.open /\ Asking(r, NoSlot, FALSE)
    /\ gitPanel' = [gitPanel EXCEPT !.latest = r, !.error = FALSE]
    /\ \/ tokenDue /\ tokenDue' = FALSE /\ UNCHANGED gitActs
       \/ gitOpening = "no" /\ ~gitPanel.busy /\ GitBegins /\ UNCHANGED tokenDue
    /\ UNCHANGED <<gitBackend, mutation, gitStatus, panelRoot, gitOpening, owed>>

\* get_git_status reads the repository that is open in the backend by then.
ReadStatus(r) ==
    /\ statusCall[r].stage = "asked"
    /\ \/ statusCall' = [statusCall EXCEPT ![r].stage = "read",
                         ![r].status = [root |-> openRoot, index |-> gitIndex[openRoot]]]
       \/ statusCall' = [statusCall EXCEPT ![r].stage = "failed"]
    /\ UNCHANGED <<gitBackend, mutation, gitView, gitActs, owed>>

IsNewest(r) == r = gitPanel.latest

AnswerStatus(r) ==
    LET call == statusCall[r]
        counts == gitPanel.open /\ ~call.left /\ IsNewest(r)
        answered == call.stage = "read"
    IN  /\ call.stage \in {"read", "failed"}
        /\ statusCall' = [statusCall EXCEPT ![r] = NoReading]
        /\ gitPanel' = [gitPanel EXCEPT
                !.status = IF counts /\ answered THEN call.status ELSE @,
                !.error = @ \/ (counts /\ ~answered),
                \* the finally of the mutation that awaited this refresh
                !.busy = @ /\ ~(call.awaited # NoSlot /\ call.awaited = gitPanel.mutating)]
        /\ gitStatus' = IF answered /\ (counts \/ call.left) THEN call.status ELSE gitStatus
        /\ UNCHANGED <<gitBackend, mutation, panelRoot, gitOpening, tokenDue, gitActs, owed>>

--------------------------------------------------------------------------------
(* mutate, and the commands it calls.                                      *)

AskMutation(m, kind) ==
    /\ gitPanel.open /\ ~gitPanel.busy /\ gitOpening = "no" /\ GitBegins
    /\ gitPanel.status # NoStatus
    /\ mutation[m].stage = "idle"
    /\ mutation' = [mutation EXCEPT ![m] = [NoMutation EXCEPT !.stage = "queued", !.kind = kind]]
    /\ queue' = Append(queue, m)
    /\ gitPanel' = [gitPanel EXCEPT !.mutating = m, !.busy = TRUE, !.error = FALSE]
    /\ UNCHANGED <<openRoot, gitIndex, statusCall, gitStatus, panelRoot, gitOpening, tokenDue, owed>>

Holds(m) == queue # <<>> /\ Head(queue) = m

Releases(m, stage) ==
    /\ mutation' = [mutation EXCEPT ![m].stage = stage]
    /\ queue' = Tail(queue)

\* The lock is taken and the dialog shown: for a commit, over the staged paths
\* and the identity of the index, which did not change while they were listed.
PrepareMutation(m) ==
    /\ mutation[m].stage = "queued" /\ Holds(m)
    /\ \/ /\ mutation' = [mutation EXCEPT ![m].stage = "asked", ![m].root = openRoot,
                                          ![m].approved = gitIndex[openRoot]]
          /\ UNCHANGED queue
       \/ Releases(m, "failed")   \* no exact repository, refused paths, nothing staged
    /\ UNCHANGED <<openRoot, gitIndex, statusCall, gitView, gitActs, owed>>

\* Seeded fault: the index is not compared again after the consent.
HastyMayRun(m) == mutation[m].root = openRoot

\* ensure_workspace_unchanged compares the id; a commit takes its snapshot again.
MayRun(m) ==
    /\ mutation[m].root = openRoot
    /\ mutation[m].kind = "commit" => gitIndex[mutation[m].root] = mutation[m].approved

AnswerConsent(m) ==
    /\ mutation[m].stage = "asked"
    /\ \/ Releases(m, "failed")   \* declined, or a check fails
       \/ /\ MayRun(m)
          /\ mutation' = [mutation EXCEPT ![m].stage = "checked"]
          /\ UNCHANGED queue
    /\ UNCHANGED <<openRoot, gitIndex, statusCall, gitView, gitActs, owed>>

\* A mutation of a panel that was left, or of a workspace that was adopted anew,
\* owes nobody a refresh.
IsExpected(m) == gitPanel.open /\ ~mutation[m].left /\ m = gitPanel.mutating

RunGit(m) ==
    LET w == mutation[m].root
    IN  /\ mutation[m].stage = "checked"
        /\ \/ /\ gitIndex' = [gitIndex EXCEPT ![w] = @ + 1]
              /\ owed' = IF IsExpected(m) THEN [owed EXCEPT ![w] = gitIndex'[w]] ELSE owed
              /\ Releases(m, "done")
           \/ Releases(m, "failed") /\ UNCHANGED <<gitIndex, owed>>
        /\ UNCHANGED <<openRoot, statusCall, gitView, gitActs>>

\* A success refreshes and stays busy until that refresh is answered; a failure
\* is told.  The finally of a stale mutation does nothing, busy was reset before.
ReplyMutation(m) ==
    LET done == mutation[m].stage = "done"
    IN  /\ mutation[m].stage \in {"done", "failed"}
        /\ mutation' = [mutation EXCEPT ![m] = NoMutation]
        /\ \/ /\ IsExpected(m) /\ done
              /\ \E r \in Readings : /\ Asking(r, m, FALSE)
                                    /\ gitPanel' = [gitPanel EXCEPT !.latest = r, !.error = FALSE]
           \/ /\ IsExpected(m) /\ ~done
              /\ gitPanel' = [gitPanel EXCEPT !.error = TRUE, !.busy = FALSE]
              /\ UNCHANGED statusCall
           \/ /\ ~IsExpected(m) /\ mutation[m].left /\ done
              /\ \E r \in Readings : Asking(r, NoSlot, TRUE)
              /\ UNCHANGED gitPanel
           \/ /\ ~IsExpected(m) /\ ~(mutation[m].left /\ done)
              /\ UNCHANGED <<statusCall, gitPanel>>
        /\ UNCHANGED <<gitBackend, gitStatus, panelRoot, gitOpening, tokenDue, gitActs, owed>>

--------------------------------------------------------------------------------
(* Openings of a workspace, and other Git programs.                        *)

BeginGitOpening ==
    /\ gitOpening = "no" /\ GitBegins /\ gitOpening' = "asked"
    /\ UNCHANGED <<gitBackend, mutation, statusCall, gitPanel, gitStatus, panelRoot, tokenDue, owed>>

CancelGitOpening ==
    /\ gitOpening = "asked" /\ gitOpening' = "no"
    /\ UNCHANGED <<gitBackend, mutation, statusCall, gitPanel, gitStatus, panelRoot, tokenDue,
                   gitActs, owed>>

\* The backend installs the workspace; Git commands hold no part of that gate.
SwitchRepository(w) ==
    /\ gitOpening = "asked" /\ gitOpening' = "switched" /\ openRoot' = w
    /\ UNCHANGED <<gitIndex, queue, mutation, statusCall, gitPanel, gitStatus, panelRoot,
                   tokenDue, gitActs, owed>>

\* adoptWorkspace.  The panel resets itself when the id of the workspace changed;
\* the load that follows changes refreshToken.
AdoptRepository ==
    /\ gitOpening = "switched" /\ gitOpening' = "no"
    /\ panelRoot' = openRoot /\ gitStatus' = NoStatus /\ tokenDue' = gitPanel.open
    /\ IF gitPanel.open /\ openRoot # panelRoot
       THEN \E r \in Readings :
              /\ Asking(r, NoSlot, FALSE)
              /\ gitPanel' = [ClosedPanel EXCEPT !.open = TRUE, !.latest = r]
       ELSE UNCHANGED <<statusCall, gitPanel>>
    /\ UNCHANGED <<gitBackend, mutation, gitActs, owed>>

\* Another Git program changes an index.  It may do so between the last check of
\* a commit and the commit itself: no lock of this application covers that.
OtherGitProgram(w) ==
    /\ GitBegins /\ gitIndex' = [gitIndex EXCEPT ![w] = @ + 1]
    /\ mutation' = [m \in Mutations |->
                      IF mutation[m].stage = "checked" /\ mutation[m].root = w
                      THEN [mutation[m] EXCEPT !.raced = TRUE] ELSE mutation[m]]
    /\ UNCHANGED <<openRoot, queue, statusCall, gitView, owed>>

SourceControlNext ==
    \/ LeaveSourceControl \/ BeginGitOpening \/ CancelGitOpening \/ AdoptRepository
    \/ \E r \in Readings :
          OpenSourceControl(r) \/ RefreshStatus(r) \/ ReadStatus(r) \/ AnswerStatus(r)
    \/ \E m \in Mutations :
          \/ \E kind \in {"stage", "commit"} : AskMutation(m, kind)
          \/ PrepareMutation(m) \/ AnswerConsent(m) \/ RunGit(m) \/ ReplyMutation(m)
    \/ \E w \in Repositories : SwitchRepository(w) \/ OtherGitProgram(w)

--------------------------------------------------------------------------------
(* Properties.                                                             *)

\* git_commit: a commit holds the index that the user saw in the dialog, unless
\* another program changed it between the last check and Git's own reading.
CommitIsApproved ==
    [][\A m \in Mutations :
          mutation[m].stage = "checked" /\ mutation[m].kind = "commit"
             /\ mutation'[m].stage = "done"
          => gitIndex[mutation[m].root] = mutation[m].approved \/ mutation[m].raced]_gitVars

GitRests ==
    /\ gitPanel.open /\ gitOpening = "no" /\ ~tokenDue
    /\ \A r \in Readings : statusCall[r].stage = "idle"
    /\ \A m \in Mutations : mutation[m].stage = "idle"

\* SourceControlPanel: once every call is answered, and unless an error is told,
\* the panel is not busy and shows the repository of the open workspace with
\* every change it made there itself, in whatever order the answers came.
StatusIsCurrent ==
    GitRests =>
        /\ ~gitPanel.busy
        /\ ~gitPanel.error => /\ gitPanel.status # NoStatus
                              /\ gitPanel.status.root = panelRoot
                              /\ gitPanel.status.index >= owed[panelRoot]
================================================================================

------------------------------- MODULE MCRenderer -------------------------------
(***************************************************************************)
(* The modules of the renderer, model-checked in one run.  They share no    *)
(* state, so a behaviour is one of a single module, `subject`; the others   *)
(* rest in a reachable state that owes no step.                             *)
(***************************************************************************)
EXTENDS MCEditorBuffers, DebuggerView, BreakpointAdvance, RunView, WorkspaceView, FlowView,
        SourceControl, WorkspaceSearch, AiExplanation

VARIABLE subject

Subjects == {"editor", "debugger", "breakpoint", "run", "workspace", "flow",
             "git", "search", "ai"}

rendererVars == <<subject, editorVars, viewVars, breakpointVars, runViewVars,
                  workspaceViewVars, flowVars, gitVars, searchVars, aiVars>>

\* The view has caught up with a session that has not begun.
BreakpointRest ==
    /\ run = 1 /\ alive = TRUE /\ stopAsked = FALSE /\ session = Fresh /\ accepted = {}
    /\ reported = NoPoint /\ reports = 0 /\ seen = [session |-> Fresh, accepted |-> {}]
    /\ breakpoint = NoPoint /\ advancing = FALSE /\ advanceKey = NoKey
    /\ pending = NoControl /\ request = NoRequest
    /\ unflushed = "none" /\ refreshing = FALSE /\ waitTimer = 0
    /\ stranded = FALSE /\ cleared = FALSE /\ lost = FALSE

\* The application has started without a workspace.
WorkspaceRest ==
    /\ indexed = Empty /\ notice = FALSE /\ phase = "ready" /\ task = "none" /\ tasks = 1
    /\ generation = 1 /\ workspace = NoWorkspace /\ overview = Empty
    /\ loading = FALSE /\ reloadTimer = FALSE /\ loads = <<>> /\ excused = {}

\* The other modules begin with a workspace and nothing under way.
SourceControlRest == SourceControlInit /\ openRoot = (CHOOSE w \in Repositories : TRUE)
SearchRest == SearchInit /\ indexRoot = (CHOOSE w \in Folders : TRUE)
AiRest == AiInit /\ openProject = (CHOOSE w \in Projects : TRUE)

RendererInit ==
    /\ subject \in Subjects
    /\ EditorInit /\ ViewInit /\ RunViewInit /\ FlowInit
    /\ IF subject = "git" THEN SourceControlInit ELSE SourceControlRest
    /\ IF subject = "search" THEN SearchInit ELSE SearchRest
    /\ IF subject = "ai" THEN AiInit ELSE AiRest
    /\ IF subject = "breakpoint" THEN BreakpointInit ELSE BreakpointRest
    /\ IF subject = "workspace" THEN WorkspaceViewInit ELSE WorkspaceRest

EditorMoves ==
    /\ subject = "editor" /\ EditorNext
    /\ UNCHANGED <<subject, viewVars, breakpointVars, runViewVars, workspaceViewVars, flowVars,
                   gitVars, searchVars, aiVars>>
DebuggerMoves ==
    /\ subject = "debugger" /\ ViewNext
    /\ UNCHANGED <<subject, editorVars, breakpointVars, runViewVars, workspaceViewVars, flowVars,
                   gitVars, searchVars, aiVars>>
BreakpointMoves ==
    /\ subject = "breakpoint" /\ BreakpointNext
    /\ UNCHANGED <<subject, editorVars, viewVars, runViewVars, workspaceViewVars, flowVars,
                   gitVars, searchVars, aiVars>>
RunMoves ==
    /\ subject = "run" /\ RunViewNext
    /\ UNCHANGED <<subject, editorVars, viewVars, breakpointVars, workspaceViewVars, flowVars,
                   gitVars, searchVars, aiVars>>
WorkspaceMoves ==
    /\ subject = "workspace" /\ WorkspaceViewNext
    /\ UNCHANGED <<subject, editorVars, viewVars, breakpointVars, runViewVars, flowVars,
                   gitVars, searchVars, aiVars>>
FlowMoves ==
    /\ subject = "flow" /\ FlowNext
    /\ UNCHANGED <<subject, editorVars, viewVars, breakpointVars, runViewVars, workspaceViewVars,
                   gitVars, searchVars, aiVars>>
GitMoves ==
    /\ subject = "git" /\ SourceControlNext
    /\ UNCHANGED <<subject, editorVars, viewVars, breakpointVars, runViewVars, workspaceViewVars,
                   flowVars, searchVars, aiVars>>
SearchMoves ==
    /\ subject = "search" /\ SearchNext
    /\ UNCHANGED <<subject, editorVars, viewVars, breakpointVars, runViewVars, workspaceViewVars,
                   flowVars, gitVars, aiVars>>
AiMoves ==
    /\ subject = "ai" /\ AiNext
    /\ UNCHANGED <<subject, editorVars, viewVars, breakpointVars, runViewVars, workspaceViewVars,
                   flowVars, gitVars, searchVars>>

RendererNext ==
    \/ EditorMoves \/ DebuggerMoves \/ BreakpointMoves \/ RunMoves \/ WorkspaceMoves
    \/ FlowMoves \/ GitMoves \/ SearchMoves \/ AiMoves

RendererSpec ==
    /\ RendererInit /\ [][RendererNext]_rendererVars
    /\ ViewFairness /\ BreakpointFairness /\ RunViewFairness /\ WorkspaceViewFairness

\* Every variable of the module that moves keeps its type - the others rest - and
\* an operation that waits for a load has that load under way.
RendererTypeOK ==
    /\ subject = "editor" => EditorTypeOK
    /\ subject = "debugger" => ViewTypeOK
    /\ subject = "breakpoint" => BreakpointTypeOK
    /\ subject = "run" => RunViewTypeOK
    /\ subject = "workspace" => WorkspaceViewTypeOK
    /\ subject = "flow" => FlowTypeOK
    /\ subject = "git" => SourceControlTypeOK
    /\ subject = "search" => SearchTypeOK
    /\ subject = "ai" => AiTypeOK

\* The generation guards of useAppController, useWorkspaceGraphs, SourceControlPanel,
\* SearchPanel and useAiExplanation: whatever order the backend answers in, what is
\* shown answers the last question of the user about the open workspace - the overview
\* is of that workspace, the flow of the root that was traced last, the status has
\* every change the panel made, the hits are of the query in the field and the
\* explanation of the selected node.
AnswersAreCurrent ==
    /\ OverviewOfWorkspace /\ FlowIsOfLastTrace /\ StatusIsCurrent
    /\ SearchIsOfItsQuery /\ ExplanationIsOfSelection

TwoRuns == 1..2
================================================================================

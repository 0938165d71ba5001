----------------------------- MODULE AiExplanation -----------------------------
(***************************************************************************)
(* The explanation of the selected node (useAiExplanation.ts and the panel  *)
(* that asks for it, EvidencePanel.tsx) against ai_explain of ai/command.rs: *)
(* one call at a time holds the reservation, over a consent dialog and the  *)
(* request to the provider, and compares the open workspace before the      *)
(* evidence is built, before it is sent and before the answer is given.     *)
(***************************************************************************)
EXTENDS Naturals

CONSTANTS
    Nodes,       \* ids of graph nodes, which several workspaces may share
    NoNode,      \* nothing is selected
    Projects,    \* workspaces
    AiCalls,     \* slots for explainNode calls in flight
    NoAiSlot,      \* no call holds the reservation, or the newest generation
    MaxAiActs    \* bound on what the user begins

ASSUME AiAssumption == NoNode \notin Nodes /\ NoAiSlot \notin AiCalls /\ MaxAiActs \in Nat

VARIABLES
    openProject,   \* the workspace that the backend has open
    aiReserved,    \* ai_call_in_flight: the call that set it
    aiCall,        \* the calls in flight
    selected,      \* selectedNodeId
    explanation,   \* the answer that is shown, as the question it answers
    explaining,    \* the mark of a call in flight
    explanationError,
    newestCall,    \* the call that holds requestGenerationRef
    aiProject,     \* the workspace of the renderer
    aiGeneration,  \* workspaceGenerationRef
    aiOpening,     \* another workspace: "no", "asked" or "switched" in the backend
    aiActs,        \* what was begun so far
    silenced       \* history: an opening began while the call of `explaining` was in flight

aiView == <<selected, explanation, explaining, explanationError, newestCall>>
aiWorkspace == <<openProject, aiProject, aiGeneration, aiOpening>>
aiVars == <<aiReserved, aiCall, aiView, aiWorkspace, aiActs, silenced>>

Question == [node : Nodes, project : Projects]
NoAnswer == [node |-> NoNode, project |-> NoNode]
NoAiCall == [stage |-> "idle", node |-> NoNode, project |-> NoNode, generation |-> 0]

AiTypeOK ==
    /\ openProject \in Projects /\ aiProject \in Projects
    /\ aiReserved \in AiCalls \cup {NoAiSlot} /\ newestCall \in AiCalls \cup {NoAiSlot}
    /\ aiCall \in [AiCalls -> [stage : {"asked", "consent", "sent", "answered", "failed"},
                               node : Nodes, project : Projects, generation : Nat]
                              \cup {NoAiCall}]
    /\ selected \in Nodes \cup {NoNode} /\ explanation \in Question \cup {NoAnswer}
    /\ explaining \in BOOLEAN /\ explanationError \in BOOLEAN /\ silenced \in BOOLEAN
    /\ aiGeneration \in Nat /\ aiOpening \in {"no", "asked", "switched"}
    /\ aiActs \in 0..MaxAiActs
    \* the reservation ends with its call, however that ends
    /\ \A c \in AiCalls : aiReserved = c <=> aiCall[c].stage \in {"consent", "sent"}

AiInit ==
    /\ openProject \in Projects /\ aiProject = openProject
    /\ aiReserved = NoAiSlot /\ aiCall = [c \in AiCalls |-> NoAiCall]
    /\ selected = NoNode /\ explanation = NoAnswer /\ explaining = FALSE
    /\ explanationError = FALSE /\ newestCall = NoAiSlot
    /\ aiGeneration = 1 /\ aiOpening = "no" /\ aiActs = 0 /\ silenced = FALSE

AiBegins == aiActs < MaxAiActs /\ aiActs' = aiActs + 1

--------------------------------------------------------------------------------
(* The panel.                                                              *)

\* resetExplanation: whatever is in flight is of an older generation.
ResetExplanation ==
    /\ explanation' = NoAnswer /\ explanationError' = FALSE /\ explaining' = FALSE
    /\ newestCall' = NoAiSlot /\ silenced' = FALSE

\* Another node is selected, also by a reload that finds the node gone.
SelectNode(n) ==
    /\ n # selected /\ AiBegins
    /\ selected' = n /\ ResetExplanation
    /\ UNCHANGED <<aiReserved, aiCall, aiWorkspace>>

\* handleExplain, from a button that is there while nothing is shown.
AskExplanation(c) ==
    /\ selected # NoNode /\ ~explaining /\ explanation = NoAnswer /\ ~explanationError
    /\ AiBegins /\ aiCall[c] = NoAiCall
    /\ aiCall' = [aiCall EXCEPT ![c] = [stage |-> "asked", node |-> selected,
                                        project |-> aiProject, generation |-> aiGeneration]]
    /\ newestCall' = c /\ explaining' = TRUE
    /\ UNCHANGED <<aiReserved, selected, explanation, explanationError, aiWorkspace, silenced>>

AiIsStale(c) == aiCall[c].generation # aiGeneration \/ c # newestCall

AnswerExplanation(c) ==
    /\ aiCall[c].stage \in {"answered", "failed"}
    /\ aiCall' = [aiCall EXCEPT ![c] = NoAiCall]
    /\ IF AiIsStale(c)
       THEN UNCHANGED <<explanation, explanationError, explaining>>
       ELSE /\ explaining' = FALSE
            /\ IF aiCall[c].stage = "answered"
               THEN /\ explanation' = [node |-> aiCall[c].node, project |-> aiCall[c].project]
                    /\ UNCHANGED explanationError
               ELSE explanationError' = TRUE /\ UNCHANGED explanation
    /\ newestCall' = IF newestCall = c THEN NoAiSlot ELSE newestCall
    /\ UNCHANGED <<aiReserved, selected, aiWorkspace, aiActs, silenced>>

--------------------------------------------------------------------------------
(* ai_explain.                                                             *)

AiCallIs(c, stage) == aiCall' = [aiCall EXCEPT ![c].stage = stage]
IsOfOpenProject(c) == aiCall[c].project = openProject

\* reserve_ai_call and build_evidence, which may also fail without a provider.
ReserveAiCall(c) ==
    /\ aiCall[c].stage = "asked"
    /\ \/ aiReserved = NoAiSlot /\ IsOfOpenProject(c) /\ aiReserved' = c /\ AiCallIs(c, "consent")
       \/ AiCallIs(c, "failed") /\ UNCHANGED aiReserved
    /\ UNCHANGED <<aiView, aiWorkspace, aiActs, silenced>>

\* The end of a call drops its AiCallReservation.
EndAiCall(c, stage) == AiCallIs(c, stage) /\ aiReserved' = NoAiSlot

AnswerAiConsent(c) ==
    /\ aiCall[c].stage = "consent"
    /\ \/ IsOfOpenProject(c) /\ AiCallIs(c, "sent") /\ UNCHANGED aiReserved
       \/ EndAiCall(c, "failed")   \* declined, or another workspace
    /\ UNCHANGED <<aiView, aiWorkspace, aiActs, silenced>>

ProviderAnswers(c) ==
    /\ aiCall[c].stage = "sent"
    /\ \/ IsOfOpenProject(c) /\ EndAiCall(c, "answered")
       \/ EndAiCall(c, "failed")
    /\ UNCHANGED <<aiView, aiWorkspace, aiActs, silenced>>

--------------------------------------------------------------------------------
(* Openings: the generation moves on before the picker is answered.        *)

BeginAiOpening ==
    /\ aiOpening = "no" /\ AiBegins /\ aiOpening' = "asked"
    /\ aiGeneration' = aiGeneration + 1 /\ silenced' = explaining
    /\ UNCHANGED <<aiReserved, aiCall, aiView, openProject, aiProject>>

AiOpeningInstalls(w) ==
    /\ aiOpening = "asked"
    /\ \/ aiOpening' = "switched" /\ openProject' = w
       \/ aiOpening' = "no" /\ UNCHANGED openProject   \* cancelled or failed
    /\ UNCHANGED <<aiReserved, aiCall, aiView, aiProject, aiGeneration, aiActs, silenced>>

\* adoptWorkspace resets the explanation and the selection.
AdoptProject ==
    /\ aiOpening = "switched" /\ aiOpening' = "no"
    /\ aiProject' = openProject /\ selected' = NoNode /\ ResetExplanation
    /\ UNCHANGED <<aiReserved, aiCall, openProject, aiGeneration, aiActs>>

AiNext ==
    \/ \E n \in Nodes \cup {NoNode} : SelectNode(n)
    \/ \E c \in AiCalls : \/ AskExplanation(c) \/ AnswerExplanation(c)
                          \/ ReserveAiCall(c) \/ AnswerAiConsent(c) \/ ProviderAnswers(c)
    \/ BeginAiOpening \/ AdoptProject
    \/ \E w \in Projects : AiOpeningInstalls(w)

--------------------------------------------------------------------------------
(* Properties.                                                             *)

\* useAiExplanation: an explanation that is shown is of the node that is selected
\* and of the workspace that is shown, although ids are shared, calls outlive the
\* selection and their consent takes as long as the user likes; and the mark of a
\* call has its call, unless an opening silenced that call (a gap of the code).
ExplanationIsOfSelection ==
    /\ explanation # NoAnswer => /\ explanation.node = selected
                                 /\ explanation.project = aiProject
    /\ explaining /\ ~silenced =>
         /\ newestCall # NoAiSlot
         /\ aiCall[newestCall].node = selected /\ aiCall[newestCall].project = aiProject
================================================================================

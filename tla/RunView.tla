-------------------------------- MODULE RunView --------------------------------
(***************************************************************************)
(* The renderer's active run: useRunActions, the run part of                *)
(* useRuntimeSubscriptions and of adoptWorkspace, and lib/runLifecycle,     *)
(* against a backend that runs one process at a time (RunSupervision).  The *)
(* answer of a start and the event that tells of its end travel apart.      *)
(***************************************************************************)
EXTENDS Naturals, Sequences

CONSTANTS
    RunIds,    \* managed runs, 1..n in the order they are started
    MaxStarts, \* bound on the start requests of the user
    MaxAdopts  \* bound on the workspaces that are opened

ASSUME RunViewAssumption == RunIds \subseteq Nat \ {0} /\ {MaxStarts, MaxAdopts} \subseteq Nat

NoActive == [id |-> 0, stopping |-> FALSE]

VARIABLES
    runState,   \* backend: what became of every run
    starts,     \* start requests: made so far, and not yet seen by the backend
    answers,    \* runs whose start answer is under way
    exits,      \* runs whose terminal event is under way
    remembered, \* terminalRunIdsRef
    activeRun,  \* activeRun: a run and whether its stop was accepted; 0 if none
    stopping,   \* run of the stop request under way, and runs that must end
    switching,  \* stage of an opening of a workspace
    adopts,     \* workspaces adopted so far
    crossed     \* history: runs whose start was under way across an adoption

runViewVars == <<runState, starts, answers, exits, remembered, activeRun,
                 stopping, switching, adopts, crossed>>

RunViewTypeOK ==
    /\ runState \in [RunIds -> {"none", "alive", "ended"}]
    /\ starts \in [made : 0..MaxStarts, asked : 0..MaxStarts]
    /\ answers \in Seq(RunIds) /\ exits \subseteq RunIds /\ remembered \subseteq RunIds
    /\ activeRun \in [id : RunIds \cup {0}, stopping : BOOLEAN]
    /\ stopping \in [call : RunIds \cup {0}, owed : SUBSET RunIds]
    /\ switching \in {"no", "asked", "switched"} /\ adopts \in 0..MaxAdopts
    /\ crossed \subseteq RunIds

RunViewInit ==
    /\ runState = [r \in RunIds |-> "none"]
    /\ starts = [made |-> 0, asked |-> 0] /\ answers = <<>>
    /\ exits = {} /\ remembered = {} /\ activeRun = NoActive
    /\ stopping = [call |-> 0, owed |-> {}]
    /\ switching = "no" /\ adopts = 0 /\ crossed = {}

Alive == {r \in RunIds : runState[r] = "alive"}
UnderWay == {answers[i] : i \in DOMAIN answers}

\* handleStart.  Start is offered while no run is active; nothing keeps a second
\* request from following the first before its answer.
StartRun ==
    /\ activeRun = NoActive /\ switching = "no" /\ starts.made < MaxStarts
    /\ starts' = [made |-> starts.made + 1, asked |-> starts.asked + 1]
    /\ UNCHANGED <<runState, answers, exits, remembered, activeRun, stopping, switching, adopts, crossed>>

\* start_run takes the slot when it is free and is refused otherwise.  Two starts
\* succeed only with an end in between, so their answers keep their order.
BackendStarts ==
    /\ starts.asked > 0 /\ starts' = [starts EXCEPT !.asked = @ - 1]
    /\ \/ \E r \in RunIds :
            /\ Alive = {} /\ runState[r] = "none" /\ \A p \in RunIds : p < r => runState[p] = "ended"
            /\ runState' = [runState EXCEPT ![r] = "alive"]
            /\ answers' = Append(answers, r)
       \/ UNCHANGED <<runState, answers>>
    /\ UNCHANGED <<exits, remembered, activeRun, stopping, switching, adopts, crossed>>

RunExits(r) ==
    /\ runState[r] = "alive" /\ runState' = [runState EXCEPT ![r] = "ended"]
    /\ exits' = exits \cup {r}
    /\ UNCHANGED <<starts, answers, remembered, activeRun, stopping, switching, adopts, crossed>>

\* A run whose stop was accepted ends (RunSupervision, StopFreesSlot).
StoppedRunExits == \E r \in stopping.owed : RunExits(r)

\* Seeded fault: an answer is believed although the run ended before it.
ForgetfulAlreadyTerminated(r) == FALSE

\* runAlreadyTerminated
AlreadyTerminated(r) == r \in remembered

\* The end of handleStart.
StartAnswer ==
    /\ answers # <<>> /\ answers' = Tail(answers)
    /\ activeRun' = IF AlreadyTerminated(Head(answers)) THEN NoActive
                    ELSE [id |-> Head(answers), stopping |-> FALSE]
    /\ UNCHANGED <<runState, starts, exits, remembered, stopping, switching, adopts, crossed>>

\* Seeded fault: any terminal event clears the active run.
BlindWithoutRun(r) == NoActive

WithoutRun(r) == IF activeRun.id = r THEN NoActive ELSE activeRun

\* onRuntimeEvent with a terminal event: rememberTerminalRun, then the run.
TerminalEvent(r) ==
    /\ r \in exits /\ exits' = exits \ {r}
    /\ remembered' = remembered \cup {r}
    /\ activeRun' = WithoutRun(r)
    /\ UNCHANGED <<runState, starts, answers, stopping, switching, adopts, crossed>>

\* handleStop, and its answer: accepted by a run that lives, else an error.
StopActive ==
    /\ activeRun # NoActive /\ ~activeRun.stopping /\ stopping.call = 0
    /\ stopping' = [stopping EXCEPT !.call = activeRun.id]
    /\ UNCHANGED <<runState, starts, answers, exits, remembered, activeRun, switching, adopts, crossed>>

StopAnswer ==
    /\ stopping.call # 0
    /\ LET r == stopping.call IN
       \/ /\ r \in Alive
          /\ stopping' = [call |-> 0, owed |-> stopping.owed \cup {r}]
          /\ activeRun' = IF activeRun.id = r THEN [activeRun EXCEPT !.stopping = TRUE] ELSE activeRun
       \/ stopping' = [stopping EXCEPT !.call = 0] /\ UNCHANGED activeRun
    /\ UNCHANGED <<runState, starts, answers, exits, remembered, switching, adopts, crossed>>

\* An opening is asked for, refused by a run that lives or by the user, or done
\* by the backend and then adopted by the renderer.
OpenAsked ==
    /\ switching = "no" /\ adopts < MaxAdopts /\ switching' = "asked"
    /\ UNCHANGED <<runState, starts, answers, exits, remembered, activeRun, stopping, adopts, crossed>>

BackendSwitches ==
    /\ switching = "asked"
    /\ switching' = "no" \/ (Alive = {} /\ switching' = "switched")
    /\ UNCHANGED <<runState, starts, answers, exits, remembered, activeRun, stopping, adopts, crossed>>

AdoptRuns ==
    /\ switching = "switched" /\ switching' = "no" /\ adopts' = adopts + 1
    /\ activeRun' = NoActive /\ remembered' = {}
    /\ crossed' = crossed \cup UnderWay \cup Alive
    /\ UNCHANGED <<runState, starts, answers, exits, stopping>>

RunViewNext ==
    \/ StartRun \/ BackendStarts \/ StartAnswer \/ StopActive \/ StopAnswer
    \/ \E r \in RunIds : RunExits(r) \/ TerminalEvent(r)
    \/ OpenAsked \/ BackendSwitches \/ AdoptRuns

RunViewSpec == RunViewInit /\ [][RunViewNext]_runViewVars

\* Answers and events arrive, a run that was told to stop ends; the user and a
\* run that is left alone owe nothing.
RunViewFairness ==
    /\ WF_runViewVars(BackendStarts \/ StartAnswer \/ StopAnswer)
    /\ WF_runViewVars(\E r \in RunIds : TerminalEvent(r))
    /\ WF_runViewVars(StoppedRunExits)

FairRunViewSpec == RunViewSpec /\ RunViewFairness

--------------------------------------------------------------------------------
(* Properties.                                                             *)

\* A process that lives can be stopped: once its start was answered it is the
\* active run, whatever ends and second starts came in between.
LiveRunIsShown ==
    \A r \in Alive \ (UnderWay \cup crossed) : activeRun.id = r

\* An active run that ended does not stay: its terminal event finds it, or the
\* answer of its start finds the event.  Excepted is a run whose start was under
\* way when a workspace was adopted, which forgets the terminal runs.
EndIsMissed ==
    \E r \in RunIds \ crossed : activeRun.id = r /\ runState[r] = "ended"
EndClearsRun == EndIsMissed ~> ~EndIsMissed
================================================================================

----------------------------- MODULE ManagedSlot -----------------------------
(***************************************************************************)
(* What the runner promises about its single process slot, without saying  *)
(* how: the slot is free, reserved by a start, owned by one run, or closed *)
(* by a workspace switch; a process leader lives only inside the slot; and *)
(* the slot is given back only once the leader it held is dead.            *)
(* RunSupervision implements this module (RunSupervision!Slot).            *)
(***************************************************************************)
CONSTANT Runs    \* identities of runs, none of them one of the States

VARIABLES slot,  \* "free", "starting", "switching" or a run
          alive, \* runs whose process leader is alive
          used   \* runs that were ever given a process

vars == <<slot, alive, used>>

States == {"free", "starting", "switching"}

Init == slot = "free" /\ alive = {} /\ used = {}

Reserve == slot = "free" /\ slot' = "starting" /\ UNCHANGED <<alive, used>>

\* A start that fails gives the slot back without leaving a process behind.
Abandon ==
    /\ slot = "starting"
    /\ alive = {}
    /\ slot' = "free"
    /\ UNCHANGED <<alive, used>>

Spawn(r) ==
    /\ slot = "starting"
    /\ alive = {}
    /\ r \notin used
    /\ alive' = {r}
    /\ used' = used \cup {r}
    /\ UNCHANGED slot

Own(r) ==
    /\ slot = "starting"
    /\ r \in used
    /\ alive \subseteq {r}
    /\ slot' = r
    /\ UNCHANGED <<alive, used>>

Die(r) == r \in alive /\ alive' = alive \ {r} /\ UNCHANGED <<slot, used>>

Release(r) ==
    /\ slot = r
    /\ r \notin alive
    /\ slot' = "free"
    /\ UNCHANGED <<alive, used>>

CloseForSwitch ==
    /\ slot = "free"
    /\ slot' = "switching"
    /\ UNCHANGED <<alive, used>>

Reopen == slot = "switching" /\ slot' = "free" /\ UNCHANGED <<alive, used>>

Next ==
    \/ Reserve \/ Abandon \/ CloseForSwitch \/ Reopen
    \/ \E r \in Runs : Spawn(r) \/ Own(r) \/ Die(r) \/ Release(r)

Spec == Init /\ [][Next]_vars

==============================================================================

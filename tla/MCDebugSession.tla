---------------------------- MODULE MCDebugSession ----------------------------
(* Constants for TLC: two workflows, as many steps as safe points, two        *)
(* controls.                                                                  *)
EXTENDS DebugSession, TLC

CONSTANTS w1, w2, p1, p2, p3

TwoWorkflows == {w1, w2}
OneWorkflow == {w1}
TwoSteps == {p1, p2}
ThreeSteps == {p1, p2, p3}

Symmetry == Permutations(TwoWorkflows) \cup Permutations(TwoSteps)
===============================================================================

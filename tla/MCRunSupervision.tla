--------------------------- MODULE MCRunSupervision ---------------------------
(* Constants for TLC: two launches, two racing starts and two racing stops. *)
EXTENDS RunSupervision, TLC

CONSTANTS r1, r2, a1, a2, s1, s2

TwoRuns == {r1, r2}
OneRun == {r1}
TwoStarters == {a1, a2}
OneStarter == {a1}
TwoStops == {s1, s2}

Symmetry == Permutations(TwoRuns) \cup Permutations(TwoStarters)
                \cup Permutations(TwoStops)
===============================================================================

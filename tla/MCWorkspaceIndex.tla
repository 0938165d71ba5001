--------------------------- MODULE MCWorkspaceIndex ---------------------------
(* Constants for TLC: two folders with one or two files each.                 *)
EXTENDS WorkspaceIndex

CONSTANTS f1, f2

OneFile == {f1}
TwoFiles == {f1, f2}
===============================================================================

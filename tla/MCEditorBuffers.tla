----------------------------- MODULE MCEditorBuffers -----------------------------
(* Constants for TLC: two texts, of which the formatter makes the second.    *)
EXTENDS EditorBuffers

TwoTexts == 0..1
Pretty == [t \in TwoTexts |-> 1]
================================================================================

----------------------------- MODULE MCDetection -----------------------------
(* Two kinds that are one message of two nodes.                                *)
EXTENDS Detection, TLC

OneMessage == [k \in Kind |-> "message"]
Symmetry == Permutations(Kind) \cup Permutations(LogLine)
==============================================================================

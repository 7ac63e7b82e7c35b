-------------------------- MODULE MCOptimizationTask --------------------------
(* Instances of OptimizationTask. *)
EXTENDS OptimizationTask

\* Two scores that differ.
TwoScores == {1, 2}
=============================================================================

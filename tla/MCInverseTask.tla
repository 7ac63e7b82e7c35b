---------------------------- MODULE MCInverseTask ----------------------------
(* Instances of InverseTask. *)
EXTENDS InverseTask

Points == 0 .. 2

\* A model that gains from x, from Stage 1 and from what is not in the balance.
Model(x, b, y) == x + 2 * y - b
FirstStage(x, b) == x + b

\* A constraint that the largest x misses.
Missed(x, b, y) == IF x = 2 THEN 1 ELSE 0
=============================================================================

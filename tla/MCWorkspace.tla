---------------------------- MODULE MCWorkspace ----------------------------
(* Instances of Workspace. *)
EXTENDS Workspace, TLC

CONSTANTS d1, d2, r1, r2, a1, a2
Exchange == Permutations({d1, d2}) \cup Permutations({r1, r2}) \cup Permutations({a1, a2})
=============================================================================

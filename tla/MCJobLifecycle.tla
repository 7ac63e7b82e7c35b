---------------------------- MODULE MCJobLifecycle ----------------------------
(* Instances of JobLifecycle: which endpoint and session each job belongs to. *)
EXTENDS JobLifecycle

CONSTANTS a, b, c, s1

\* Two jobs of one session, both through a guarded endpoint.
SameSession == [j \in Job |-> s1]
AllChecked == [j \in Job |-> "checked"]

\* a is guarded, b is not.
MixedRoutes == [j \in Job |-> IF j = a THEN "checked" ELSE "unchecked"]
=============================================================================

---------------------------- MODULE MCOfatAnalysis ----------------------------
(* Instances of OfatAnalysis: every choice of three rows, in one order. *)
EXTENDS OfatAnalysis

InOrder == <<"a", "b", "c", "d">>

\* Two values each, in the third column a missing one.
Value(k) == <<"1", "2", Missing>>[k + 1]
Row(n) == [a |-> Value(n % 2), b |-> Value((n \div 2) % 2),
           c |-> Value(2 * (n \div 8)), d |-> Value((n \div 4) % 2)]
ThreeRows == {<<Row(i), Row(j), Row(k)>> : <<i, j, k>> \in
                {t \in (0 .. 15) \X (0 .. 15) \X (0 .. 15) : t[1] <= t[2] /\ t[2] <= t[3]}}
=============================================================================

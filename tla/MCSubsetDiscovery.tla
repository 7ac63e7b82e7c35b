------------------------- MODULE MCSubsetDiscovery -------------------------
(* Instances of SubsetDiscovery. *)
EXTENDS SubsetDiscovery

CONSTANTS r1, r2, r3
Exchange == Permutations({r1, r2, r3})

InOrder == <<"x", "y", "g">>
Domain(c) == IF c = "g" THEN {"u", "v", "w"} ELSE {"1", "2"}
NoneOrOne == {<<>>, <<"y", "absent">>}
=============================================================================

--------------------------- MODULE MCModelRegistry ---------------------------
(* Instances of ModelRegistry. *)
EXTENDS ModelRegistry, TLC

CONSTANTS Y, Z
Exchange == Permutations({Y, Z})

\* A data set, its path spelled in another way, and an artifact's data frame.
Spellings == {"data/a", "./data/a"}
SourceFile(s) == "data/subset"
File(p) == IF p = "./data/a" THEN "data/a" ELSE p
=============================================================================

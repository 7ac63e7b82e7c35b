--------------------------- MODULE MCModelTraining ---------------------------
(* A data frame with a column of every kind, and a name it does not have;    *)
(* few rows have both "q" and "b", and "b" is constant where "q" and "a" are. *)
EXTENDS ModelTraining

Columns == {"y", "q", "a", "b", "constant", "few", "id", "text"}
Order == <<"constant", "text", "few", "id", "a", "b", "q", "y">>
NumericColumns == {"y", "q", "a", "b", "constant", "few"}

ConstantIn(S) == {"constant"} \cup (IF {"q", "a"} \subseteq S THEN {"b"} ELSE {})
IdentifierIn(S) == {"id"}
ScarceIn(S) == "few" \in S \/ {"q", "b"} \subseteq S

AskedTargets == {"y", "q", "constant", "few", "text", "ghost", "none"}
AskedY1 == {{}, {"q"}, {"q", "a"}, {"y", "q"}, {"q", "constant"}, {"q", "b"}, {"few", "q"}, {"text", "ghost"}}
AskedFeatures ==
  {{}, {"a"}, {"y", "q"}, {"a", "b", "q"}, {"b", "text", "constant"}, {"id", "constant"}, {"ghost"}}
Mentioned == {{}, {"q"}, {"y", "text"}, {"constant"}}
=============================================================================

-------------------------- MODULE SubsetDiscovery --------------------------
(***************************************************************************)
(* The agent's tool that looks for dense parts of a data frame: it classes  *)
(* the columns, groups the rows by what they miss, makes candidates by four *)
(* strategies, scores them and keeps the best of each choice of columns.    *)
(*                                                                         *)
(* A frame gives every row and column a value or NoValue.  The limits that  *)
(* count rows and columns are constants, so that small frames meet them;    *)
(* ratios are compared as the code compares them.                           *)
(***************************************************************************)
EXTENDS Lists, SequencesExt

CONSTANTS
  Rows,          \* the index of the data frame
  Columns,       \* its columns in order
  NumericColumns, \* those of a numeric type
  TextColumns,   \* those of a text or category type; the others hold dates, say
  Values(_),     \* what a column may hold
  NoValue,       \* no value
  TargetChoices, \* sequences of target columns a request may name
  Limits,        \* values of max_subsets
  MinGroup,      \* rows of a signature group (10 in the code)
  MinRows,       \* rows of the other candidates (20)
  MinColumns,    \* columns of a stratum or a dense candidate (3)
  LowCardinality, \* distinct values from which a text is categorical (20)
  MaxGroups,     \* signatures that make a group (5)
  MaxPlotRows,   \* rows a heatmap shows (900)
  MaxStrata      \* columns that are stratified, and values of each (3)

VARIABLES
  df,       \* the data set
  targets,  \* target_columns
  limit,    \* max_subsets
  pc,
  scored,   \* the candidates with their scores, best first
  top,      \* the subsets that were chosen
  plan      \* the artifacts the tool returns

svars == <<df, targets, limit, pc, scored, top, plan>>

Names == ToSet(Columns)

ASSUME SubsetAssumption ==
  /\ IsFiniteSet(Rows) /\ Rows # {}
  /\ Columns \in Seq(Names) /\ IsInjective(Columns)
  /\ NumericColumns \subseteq Names /\ TextColumns \subseteq Names \ NumericColumns
  /\ \A t \in TargetChoices : t \in Seq(ToSet(t)) /\ IsInjective(t)
  /\ Limits \subseteq Nat \ {0}
  /\ {MinGroup, MinRows, MinColumns, LowCardinality, MaxGroups, MaxPlotRows, MaxStrata} \subseteq Nat \ {0}

-----------------------------------------------------------------------------
(* classify_columns                                                         *)

MissingIn(c, R) == {r \in R : df[r][c] = NoValue}
Occurring(c) == {df[r][c] : r \in Rows} \ {NoValue}

\* The first class that applies: over 80 % missing, at most one value, under
\* 0.5 % or over 95 % of the rows unique, a number, few distinct texts.
Class(c) ==
  LET n == Cardinality(Rows)
      u == Cardinality(Occurring(c))
  IN IF c \in ToSet(targets) THEN "target"
     ELSE IF 100 * Cardinality(MissingIn(c, Rows)) > 80 * n THEN "high_missing"
     ELSE IF u <= 1 THEN "constant"
     ELSE IF 1000 * u < 5 * n THEN "near_constant"
     ELSE IF c \in NumericColumns THEN "numeric"
     ELSE IF 100 * u > 95 * n THEN "id_like"
     ELSE IF c \in TextColumns /\ u < LowCardinality THEN "low_cardinality" ELSE "categorical"

Classified(S) == Kept(Columns, {i \in DOMAIN Columns : Class(Columns[i]) \in S})

-----------------------------------------------------------------------------
(* analyze_missing_structure                                                *)

Analysed ==
  ToSet(Classified({"numeric", "low_cardinality", "categorical", "target", "high_missing"}))

\* What a row misses, and the signatures by the number of their rows; between
\* equals the order is free, and one is taken.
SignatureOf(r, C) == {c \in C : df[r][c] = NoValue}
GroupSize(g) == Cardinality({r \in Rows : SignatureOf(r, Analysed) = g})
RowSignatures ==
  LET sigs == SetToSeq({SignatureOf(r, Analysed) : r \in Rows})
      D    == DOMAIN sigs
  IN IF Analysed = {} THEN <<>>
     ELSE Sorted(sigs, {q \in Pairs(D) : GroupSize(sigs[q[1]]) > GroupSize(sigs[q[2]])})

\* The pairs of columns some row misses both of; the code lists twenty.
CoMissing ==
  {{q[1], q[2]} : q \in {p \in Analysed \X Analysed :
     p[1] # p[2] /\ MissingIn(p[1], Rows) \cap MissingIn(p[2], Rows) # {}}}

-----------------------------------------------------------------------------
(* generate_subset_candidates                                               *)

Candidate(strategy, R, cols) == [strategy |-> strategy, rows |-> R, cols |-> cols]

FirstOf(s, n) == SubSeq(s, 1, IF Len(s) < n THEN Len(s) ELSE n)
ValidTargets == Kept(targets, {i \in DOMAIN targets : targets[i] \in Names})

\* The columns that are not excluded, or all of them, targets included, if
\* nothing else is left.
Usable ==
  LET left == Classified({"numeric", "low_cardinality", "categorical"})
  IN IF left = <<>> THEN Columns ELSE left

SparseIn(c, R, percent) == 100 * Cardinality(MissingIn(c, R)) > percent * Cardinality(R)

\* Mutant: the rows that miss what the signature misses, and perhaps more.
GroupAtLeast(g) == {r \in Rows : g \subseteq SignatureOf(r, ToSet(Usable))}

\* The rows whose usable columns miss just what the signature misses.
Group(g) == LET usable == ToSet(Usable) IN {r \in Rows : SignatureOf(r, usable) = g}

SignatureGroup(g) ==
  LET cols == Kept(Usable, {i \in DOMAIN Usable : Usable[i] \notin g})
  IN IF Cardinality(Group(g)) >= MinGroup /\ cols # <<>>
     THEN <<Candidate("row_signature", Group(g), cols \o ValidTargets)>> ELSE <<>>

SignatureGroups ==
  LET sigs == FirstOf(RowSignatures, MaxGroups)
  IN Joined([i \in DOMAIN sigs |-> SignatureGroup(sigs[i])])

\* A candidate of the columns that are dense enough in these rows.
DenseColumns(strategy, R, dense) ==
  LET good == Kept(Usable, {i \in DOMAIN Usable : Usable[i] \in dense})
  IN IF Cardinality(R) >= MinRows /\ Len(good) >= MinColumns
     THEN <<Candidate(strategy, R, good \o ValidTargets)>> ELSE <<>>

\* value_counts of a column: the values that occur most.
Strata(c) ==
  LET With(v) == {r \in Rows : df[r][c] = v}
      Dense(v) == {k \in Names : 2 * Cardinality(MissingIn(k, With(v))) < Cardinality(With(v))}
      values == SetToSeq(Occurring(c))
      D      == DOMAIN values
      most   == FirstOf(Sorted(values, {q \in Pairs(D) : Cardinality(With(values[q[1]]))
                                                        > Cardinality(With(values[q[2]]))}), MaxStrata)
  IN Joined([i \in DOMAIN most |->
               DenseColumns("low_cardinality_stratification", With(most[i]), Dense(most[i]))])

StratifiedSubsets ==
  LET cols == FirstOf(Classified({"low_cardinality"}), MaxStrata)
  IN Joined([i \in DOMAIN cols |-> Strata(cols[i])])

\* Rows and columns under each pair of limits, in percent.
DenseSubsets ==
  LET usable == ToSet(Usable)
      Full(p) == {r \in Rows : 100 * Cardinality(SignatureOf(r, usable)) <= p * Cardinality(usable)}
      Under(p, q) == DenseColumns("hybrid_dense", Full(p), {c \in Names : ~SparseIn(c, Full(p), q)})
  IN Under(30, 20) \o Under(30, 40) \o Under(50, 20) \o Under(50, 40) \o Under(70, 20) \o Under(70, 40)

CompleteRows ==
  LET usable == ToSet(Usable)
      R == {r \in Rows : SignatureOf(r, usable) = {}}
  IN IF Cardinality(R) >= MinRows THEN <<Candidate("complete_cases", R, Usable \o ValidTargets)>>
     ELSE <<>>

\* _deduplicate_candidates: over nine tenths of the smaller one's rows and the
\* same columns as one that is kept already.
Similar(c, e) ==
  /\ 10 * Cardinality(c.rows \cap e.rows)
       > 9 * (IF Cardinality(c.rows) < Cardinality(e.rows) THEN Cardinality(c.rows)
              ELSE Cardinality(e.rows))
  /\ ToSet(c.cols) = ToSet(e.cols)

Deduplicated(s) ==
  LET With(kept, c) == IF \E i \in DOMAIN kept : Similar(c, kept[i]) THEN kept ELSE Append(kept, c)
      unique[n \in 0 .. Len(s)] == IF n = 0 THEN <<>> ELSE With(unique[n - 1], s[n])
  IN unique[Len(s)]

Candidates == Deduplicated(SignatureGroups \o StratifiedSubsets \o DenseSubsets \o CompleteRows)

-----------------------------------------------------------------------------
(* score_subset, select_top_k                                               *)

Cells(R, cols) == Cardinality(R) * Len(cols)
MissingCells(R, cols) ==
  Cardinality({q \in R \X DOMAIN cols : df[q[1]][cols[q[2]]] = NoValue})

\* round: a / b in units, to the nearest one.
Rounded(a, b, units) == (2 * units * a + b) \div (2 * b)

\* Scores are rounded to six digits.
ScoreUnits == 1000000

\* Row coverage, column coverage, what the features do not miss and what the
\* targets do not miss, multiplied.
SubsetScore(c) ==
  LET other    == Kept(c.cols, {i \in DOMAIN c.cols : c.cols[i] \notin ToSet(targets)})
      features == IF other = <<>> THEN c.cols ELSE other
      aims     == IF ValidTargets = <<>> THEN 1 ELSE Cells(c.rows, ValidTargets)
  IN Rounded(Cardinality(c.rows) * Len(c.cols)
               * (Cells(c.rows, features) - MissingCells(c.rows, features))
               * (aims - MissingCells(c.rows, ValidTargets)),
             Cardinality(Rows) * Len(Columns) * Cells(c.rows, features) * aims, ScoreUnits)

Better(c, e) == c.score > e.score

\* What has no rows or no columns is left out.
Marked(s) ==
  LET valid == Kept(s, {i \in DOMAIN s : s[i].rows # {} /\ s[i].cols # <<>>})
  IN [i \in DOMAIN valid |->
        [strategy |-> valid[i].strategy, rows |-> valid[i].rows,
         cols |-> valid[i].cols, score |-> SubsetScore(valid[i])]]

\* Mutant: in the order of the strategies.
ScoredUnsorted(s) == Marked(s)

\* score_subset_candidates: sorted, equals in the order they came.
Scored(s) ==
  LET marked == Marked(s)
  IN Sorted(marked, {q \in Pairs(DOMAIN marked) : Better(marked[q[1]], marked[q[2]])})

\* At least 95 % of the rows and of the columns are as good as the whole.
Meaningful(c) ==
  \/ Rounded(Cardinality(c.rows), Cardinality(Rows), 10000) < 9500
  \/ Rounded(Len(c.cols), Len(Columns), 10000) < 9500

SameColumns(c, e) ==
  LET Count(s, k) == Cardinality({i \in DOMAIN s : s[i] = k})
  IN \A k \in Names : Count(c.cols, k) = Count(e.cols, k)

\* The first of each choice of columns, and the first k of them.
SelectTopK(s, k) ==
  FirstOf(Kept(s, {i \in DOMAIN s : \A j \in 1 .. i - 1 : ~SameColumns(s[j], s[i])}), k)

-----------------------------------------------------------------------------
(* The tool                                                                 *)

Strategies == {"row_signature", "low_cardinality_stratification", "hybrid_dense", "complete_cases"}
IsSubset(c) ==
  /\ c.strategy \in Strategies
  /\ c.rows \subseteq Rows /\ c.rows # {}
  /\ c.cols # <<>> /\ ToSet(c.cols) \subseteq Names
  /\ c.score \in Nat

Artifact(kind, i, content) == [kind |-> kind, subset |-> i, content |-> content]

\* The rows a heatmap shows: all, or as many of the subset as fit, and a sample
\* of the others.
PlotRows(c) ==
  IF Cardinality(Rows) <= MaxPlotRows THEN {Rows}
  ELSE {R \in SUBSET Rows : /\ Cardinality(R) = MaxPlotRows
                            /\ R \subseteq c.rows \/ c.rows \subseteq R}

\* A cell is white if its value is missing, black if it is the subset's, or gray.
Cell(c, r, k) ==
  IF r \in c.rows /\ k \in ToSet(c.cols) THEN "black"
  ELSE IF df[r][k] = NoValue THEN "white" ELSE "gray"

Heatmap(c) == {[r \in R |-> [k \in Names |-> Cell(c, r, k)]] : R \in PlotRows(c)}

STypeOK ==
  /\ pc \in {"start", "scored", "nothing", "chosen", "done", "failed"}
  /\ \A i \in DOMAIN scored : IsSubset(scored[i])
  /\ \A i \in DOMAIN top : IsSubset(top[i]) /\ Len(top) <= limit
  /\ \A i \in DOMAIN plan : plan[i].subset \in 0 .. Len(top)

SInit ==
  /\ df \in [Rows -> {w \in [Names -> UNION {Values(c) : c \in Names} \cup {NoValue}] :
                       \A c \in Names : w[c] \in Values(c) \cup {NoValue}}]
  /\ targets \in TargetChoices /\ limit \in Limits
  /\ pc = "start" /\ scored = <<>> /\ top = <<>> /\ plan = <<>>

MeaningfulOnes == Kept(scored, {i \in DOMAIN scored : Meaningful(scored[i])})

Discover ==
  /\ pc = "start"
  /\ scored' = Scored(Candidates) /\ pc' = "scored"
  /\ UNCHANGED <<df, targets, limit, top, plan>>

\* Nothing differs from the whole: a step that says so.
RecordNothing ==
  /\ pc = "scored" /\ MeaningfulOnes = <<>>
  /\ pc' = "nothing"
  /\ UNCHANGED <<df, targets, limit, scored, top, plan>>

\* The best are chosen and the step is recorded.
Choose ==
  /\ pc = "scored" /\ MeaningfulOnes # <<>>
  /\ top' = SelectTopK(MeaningfulOnes, limit) /\ pc' = "chosen"
  /\ UNCHANGED <<df, targets, limit, scored, plan>>

\* A data frame with a column twice cannot be written as parquet: the tool
\* fails, and the step stays without artifacts.
Writable(c) == IsInjective(c.cols)

\* Heatmaps, whose drawing may fail; the tables; each subset; a summary.
BuildArtifacts ==
  /\ pc = "chosen"
  /\ IF \A i \in DOMAIN top : Writable(top[i])
     THEN \E drawn \in SUBSET DOMAIN top :
          \E map \in [drawn -> UNION {Heatmap(top[i]) : i \in drawn}] :
            LET Drawn(i) == Artifact("heatmap", i, map[i])
                order    == Kept([i \in DOMAIN top |-> i], drawn)
            IN /\ \A i \in drawn : map[i] \in Heatmap(top[i])
               /\ plan' = [i \in DOMAIN order |-> Drawn(order[i])]
                          \o <<Artifact("columns", 0, [c \in Names |-> Class(c)]),
                               Artifact("missing", 0, <<RowSignatures, CoMissing>>),
                               Artifact("registry", 0, top), Artifact("scores", 0, top)>>
                          \o [i \in DOMAIN top |-> Artifact("data", i, top[i])]
                          \o <<Artifact("summary", 0, top)>>
               /\ pc' = "done"
     ELSE pc' = "failed" /\ UNCHANGED plan
  /\ UNCHANGED <<df, targets, limit, scored, top>>

SNext == Discover \/ RecordNothing \/ Choose \/ BuildArtifacts

SSpec == SInit /\ [][SNext]_svars

-----------------------------------------------------------------------------
(* Properties                                                               *)

\* A group of one signature and the complete rows miss no value of their
\* columns, targets aside: the rows are matched on other columns than those
\* the signature was taken from.
GroupsAreComplete ==
  \A i \in DOMAIN scored :
    scored[i].strategy \in {"row_signature", "complete_cases"} =>
      \A r \in scored[i].rows, c \in ToSet(scored[i].cols) \ ToSet(targets) : df[r][c] # NoValue

\* The choice is the best there is: it has no two subsets of the same columns
\* and none that is the whole, and a candidate that was left out has the
\* columns of a better one, or finds max_subsets that are not worse.
BestIsKept ==
  pc \in {"chosen", "done", "failed"} =>
    /\ \A i, j \in DOMAIN top : i < j => ~Better(top[j], top[i]) /\ ~SameColumns(top[i], top[j])
    /\ \A i \in DOMAIN scored :
         \/ ~Meaningful(scored[i])
         \/ \E j \in DOMAIN top : SameColumns(top[j], scored[i]) /\ ~Better(scored[i], top[j])
         \/ Len(top) = limit /\ \A j \in DOMAIN top : ~Better(scored[i], top[j])
=============================================================================

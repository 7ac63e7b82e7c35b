----------------------------- MODULE OfatAnalysis -----------------------------
(***************************************************************************)
(* run_ofat_task with its data: what OfatTask leaves open (are there        *)
(* groups, is a table saved) is decided here by a data frame, and the       *)
(* relaxed analysis leaves out columns until there are groups.              *)
(*                                                                         *)
(* A group of a column is a set of rows that agree on every other column    *)
(* and not on this one.  Values are compared by their text, so a missing    *)
(* one equals another; texts of one column are taken to be distinct.        *)
(***************************************************************************)
EXTENDS OfatTask, Lists, SequencesExt

CONSTANTS
  Frames,    \* data frames: sequences of rows, functions from columns to values
  Features,  \* feature columns of the data set, in order
  Numeric,   \* those of a numeric type
  Missing

ASSUME FrameAssumption ==
  /\ Features \in Seq(Range(Features)) /\ IsInjective(Features) /\ Features # <<>>
  /\ Numeric \subseteq ToSet(Features)
  /\ \A f \in Frames :
       /\ f # <<>> /\ f \in Seq(Range(f))
       /\ \A i \in DOMAIN f : DOMAIN f[i] = ToSet(Features)

VARIABLES
  relaxed,   \* the request's option
  frame,     \* df
  features,  \* feat_cols
  report,    \* prune_report, or the table of the diagnosis
  valid      \* valid_ofat's columns

table == <<frame, features, report, valid>>

-----------------------------------------------------------------------------
(* _find_valid_ofat_groups                                                  *)

\* nunique: a missing value is none.
Unique(f, c, R) == {f[i][c] : i \in R} \ {Missing}

\* The rows by the text of the other columns, those that vary in x.
ValidGroups(f, F, x) ==
  LET others == ToSet(F) \ {x}
      With(i) == {j \in DOMAIN f : \A c \in others : f[j][c] = f[i][c]}
  IN IF others = {} THEN {}
     ELSE {R \in {With(i) : i \in DOMAIN f} : Cardinality(Unique(f, x, R)) >= 2}

Found(f, F) == {x \in ToSet(F) : ValidGroups(f, F, x) # {}}

\* The groups of all columns.
CountGroups(f, F) == Cardinality(UNION {{x} \X ValidGroups(f, F, x) : x \in ToSet(F)})

-----------------------------------------------------------------------------
(* _compute_interference_scores                                             *)

\* A variance needs two values; the same value twice has none.
Constant(f, c) ==
  /\ c \in Numeric
  /\ Cardinality({i \in DOMAIN f : f[i][c] # Missing}) >= 2
  /\ Cardinality(Unique(f, c, DOMAIN f)) = 1

\* list.remove; the columns are distinct.
Without(F, c) == RemoveAt(F, CHOOSE i \in DOMAIN F : F[i] = c)

Score(f, F, c) ==
  [column |-> c, unique |-> Cardinality(Unique(f, c, DOMAIN f)), constant |-> Constant(f, c),
   groups |-> IF Len(F) >= 3 THEN CountGroups(f, Without(F, c)) ELSE 0]

\* Constant columns, then the most groups without it, then the most values.
Ahead(s, t) ==
  IF s.constant # t.constant THEN s.constant
  ELSE IF s.groups # t.groups THEN s.groups > t.groups ELSE s.unique > t.unique

Scores(f, F) ==
  LET score == [i \in DOMAIN F |-> Score(f, F, F[i])]
  IN Sorted(score, {q \in Pairs(DOMAIN F) : Ahead(score[q[1]], score[q[2]])})

-----------------------------------------------------------------------------
(* _greedy_prune_features                                                   *)

MaxPrune == IF Len(Features) < 2 THEN 1 ELSE Len(Features) \div 2

\* Mutant: columns are left out whether or not there are groups.
PruneAnyway(f, s) ==
  LET best == Head(Scores(f, s.remaining))
  IN IF Len(s.remaining) < 2 THEN s
     ELSE [remaining |-> Without(s.remaining, best.column), report |-> Append(s.report, best)]

\* One turn of the loop; where it breaks, further turns change nothing.
Prune(f, s) ==
  LET best == Head(Scores(f, s.remaining))
  IN IF Len(s.remaining) < 2 \/ CountGroups(f, s.remaining) > 0 THEN s
     ELSE [remaining |-> Without(s.remaining, best.column), report |-> Append(s.report, best)]

GreedyPrune(f) ==
  LET after[k \in 0 .. MaxPrune] ==
        IF k = 0 THEN [remaining |-> Features, report |-> <<>>] ELSE Prune(f, after[k - 1])
  IN after[MaxPrune]

-----------------------------------------------------------------------------
(* The task                                                                 *)

AInit ==
  /\ Init /\ relaxed \in BOOLEAN
  /\ frame = <<>> /\ features = Features /\ report = <<>> /\ valid = {}

ALoad ==
  /\ Load /\ UNCHANGED <<relaxed, features, report>>
  /\ IF stage' = "grouped" THEN frame' \in Frames /\ valid' = Found(frame', features)
     ELSE UNCHANGED <<frame, valid>>

\* The diagnosis or the pruning raises.
AnalysisFails == valid = {} /\ NoGroups /\ outcome' = "failed" /\ UNCHANGED <<relaxed, table>>

\* No groups: the table of the scores is all there is.
Diagnose ==
  /\ ~relaxed /\ valid = {}
  /\ NoGroups /\ outcome' = "completed" /\ created' = created + 1
  /\ report' = Scores(frame, features)
  /\ UNCHANGED <<relaxed, frame, features, valid>>

\* Mutant: two columns are enough to go on.
TwoColumns(f, F) == Len(F) >= 2

\* More than no groups: some column has one.
CanContinue(f, F) == Len(F) >= 2 /\ Found(f, F) # {}

RelaxInVain ==
  /\ relaxed /\ valid = {} /\ ~CanContinue(frame, GreedyPrune(frame).remaining)
  /\ NoGroups /\ outcome' = "completed" /\ created' = created
  /\ UNCHANGED <<relaxed, table>>

\* The columns that remain are searched again, after a table of the others.
Relax ==
  /\ relaxed /\ valid = {} /\ CanContinue(frame, GreedyPrune(frame).remaining)
  /\ FindGroups /\ SaveArtifact
  /\ features' = GreedyPrune(frame).remaining /\ report' = GreedyPrune(frame).report
  /\ valid' = Found(frame, features')
  /\ UNCHANGED <<relaxed, frame>>

GroupsHold == valid # {} /\ FindGroups /\ created' = created /\ UNCHANGED <<relaxed, table>>

\* With no column the number of plot rows is divided by zero.
APlotTarget ==
  /\ PlotTarget
  /\ valid = {} => plotted' = plotted
  /\ UNCHANGED <<relaxed, table>>

\* The summary has a row for each target and group.
AFinish ==
  /\ Finish
  /\ outcome' = "completed" => created' = created + (IF valid = {} THEN 0 ELSE 1)
  /\ UNCHANGED <<relaxed, table>>

Others == MarkRunning \/ InsertStep \/ Return \/ Collect \/ CancelRunning \/ OtherBegins \/ OtherEnds \/ Restart

ANext ==
  \/ ALoad \/ AnalysisFails \/ Diagnose \/ RelaxInVain \/ Relax \/ GroupsHold
  \/ APlotTarget \/ AFinish
  \/ Others /\ UNCHANGED <<relaxed, table>>

ASpec == AInit /\ [][ANext]_<<vars, relaxed, table>>

-----------------------------------------------------------------------------
(* Properties                                                               *)

\* What is plotted is what the rows support: a column is valid just if two
\* rows agree on all the others and have two values of it, and there is one,
\* so that the number of plots is no divisor of zero.
PlotsAreSupported ==
  stage = "plotting" =>
    /\ valid # {}
    /\ \A x \in ToSet(features) :
         x \in valid <=>
           \E i, j \in DOMAIN frame :
             /\ Missing \notin {frame[i][x], frame[j][x]} /\ frame[i][x] # frame[j][x]
             /\ \A c \in ToSet(features) \ {x} : frame[i][c] = frame[j][c]

\* The report of a relaxed analysis tells what was done: at most half of the
\* columns went, none although there were groups, and the groups it expects
\* without the last one are those that are plotted.
ReportTellsGroups ==
  relaxed /\ report # <<>> /\ stage = "plotting" =>
    /\ Len(report) <= MaxPrune
    /\ ToSet(Features) = ToSet(features) \cup {report[i].column : i \in DOMAIN report}
    /\ \A i \in DOMAIN report : i < Len(report) => report[i].groups = 0
    /\ report[Len(report)].groups = CountGroups(frame, features)
=============================================================================

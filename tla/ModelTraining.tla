---------------------------- MODULE ModelTraining ----------------------------
(***************************************************************************)
(* One training of a LightGBM model or decision tree: the guards on the    *)
(* request, the choice of features, the two stages of a hierarchical model *)
(* and the save of files and rows in one transaction.                      *)
(*                                                                         *)
(* The caller is the modelling subgraph ("graph"), which answers with an   *)
(* error code and listens for cancels, or the agent's tool ("tool"), which *)
(* raises and does not listen.  A data frame is the kinds of its columns    *)
(* among the rows a model can use; whether a fit or a write succeeds is     *)
(* open.                                                                   *)
(***************************************************************************)
EXTENDS Integers, Sequences, FiniteSets, SequencesExt

CONSTANTS
  Frame,        \* the columns of the data frame
  Numeric,      \* those of a numeric type
  Constant(_),  \* with at most one value in the rows that have all of a set of columns
  Identifier(_),\* text with a value of its own in nearly every such row
  Scarce(_),    \* fewer than 20 rows have all of a set of columns
  ByLength,     \* the columns, longest name first
  Targets,      \* the targets a request names, NoColumn for none
  Intermediates,\* the sets of intermediate variables (y1) it names
  Selections,   \* the sets of features it selects
  Mentions,     \* the sets of columns its message mentions
  NoColumn

VARIABLES
  req,      \* the request
  kind,     \* "tree", "hierarchical" or "single"
  target,   \* its target column, as far as it is known
  pc,
  cancel,   \* the job's cancel flag is set
  left,     \* intermediate variables whose model is not yet trained
  stage1,   \* the columns each Stage 1 model is trained on
  base,     \* the columns of the final model besides Stage 1's predictions
  plan,     \* what is still to be saved
  files,    \* files written
  rows,     \* rows inserted by the open transaction
  saved,    \* rows committed
  answer    \* error code, or "OK"

vars == <<req, kind, target, pc, cancel, left, stage1, base, plan, files, rows, saved, answer>>

ASSUME TrainingAssumption ==
  /\ IsFiniteSet(Frame)
  /\ Numeric \subseteq Frame
  /\ \A S \in SUBSET Frame :
       /\ Constant(S) \subseteq Frame /\ Identifier(S) \subseteq Frame \ Numeric
       /\ Scarce(S) \in BOOLEAN
       /\ \A R \in SUBSET S : Constant(R) \subseteq Constant(S) /\ (Scarce(R) => Scarce(S))
  /\ ByLength \in [1 .. Cardinality(Frame) -> Frame]
  /\ \A c \in Frame : \E i \in DOMAIN ByLength : ByLength[i] = c
  /\ NoColumn \notin Frame /\ NoColumn \notin UNION (Intermediates \cup Selections)
  /\ Mentions \subseteq SUBSET Frame

Names == Targets \cup UNION Intermediates \cup UNION Selections \cup Frame

Request ==
  [caller : {"graph", "tool"}, data : BOOLEAN, branch : BOOLEAN, target : Targets,
   y1 : Intermediates, allowed : Selections, mentions : Mentions, threshold : BOOLEAN]

-----------------------------------------------------------------------------
(* Columns                                                                  *)

\* _infer_target_from_message
Inferred(mentions) ==
  IF mentions = {} THEN NoColumn
  ELSE LET first == CHOOSE i \in DOMAIN ByLength :
                      /\ ByLength[i] \in mentions
                      /\ \A j \in 1 .. i - 1 : ByLength[j] \notin mentions
       IN ByLength[first]

\* _parse_threshold_classification_request: the message asks for a class,
\* mentions a column and has a number.
ThresholdColumn(r) == IF r.threshold THEN Inferred(r.mentions) ELSE NoColumn

\* The selected columns that exist, or all of them if none does.
Chosen(column, allowed) ==
  LET known == (allowed \cap Frame) \ {column}
  IN IF known # {} THEN known ELSE Frame \ {column}

\* What a column of a model must not be.
Useless(needed) == Constant(needed) \cup Identifier(needed)

\* Mutant: the selection is ignored.
FeaturesOfAll(column, allowed, needed) ==
  IF Scarce(needed) THEN {} ELSE (Frame \ {column}) \ Useless(needed)

\* build_feature_matrix on the rows that have all of needed; {} stands for None.
Features(column, allowed, needed) ==
  IF Scarce(needed) THEN {} ELSE Chosen(column, allowed) \ Useless(needed)

\* _build_decision_tree_feature_matrix drops constants and encodes text.
TreeFeatures(column, allowed) == Chosen(column, allowed) \ Constant({column})

ValidY1 == {c \in req.y1 : c # req.target /\ c \in Numeric}

\* Both stages keep the rows without a gap in any of these.
Needed == {target} \cup ValidY1

\* The selection of both stages: neither the target nor an intermediate one.
StageSelection == req.allowed \ Needed

-----------------------------------------------------------------------------
(* What a save writes: a file, a row or both                                *)

Item(what, of, optional) == [what |-> what, of |-> of, optional |-> optional]
Must(what) == Item(what, NoColumn, FALSE)
May(what) == Item(what, NoColumn, TRUE)

HasFile(item) == item.what \notin {"step", "model_run", "direct_run"}
HasRow(item) == item.what # "stage1_model"

OfBranch(what) == IF req.branch THEN <<Must(what)>> ELSE <<>>

TreePlan ==
  OfBranch("step") \o <<Must("model"), Must("leaderboard"), Must("importance"), Must("report")>>
    \o OfBranch("model_run")

\* A model with its plot and its table of metrics, which may be missing.
ModelPlan == <<Must("model"), May("plot"), May("metrics")>>

SinglePlan ==
  OfBranch("step") \o <<Must("leaderboard")>> \o ModelPlan
    \o <<Must("residuals"), Must("importance")>> \o OfBranch("model_run") \o <<Must("champion")>>

\* A file for each Stage 1 model that was trained, in some order.
Stage1Plan ==
  LET order == SetToSeq(DOMAIN stage1)
  IN [i \in DOMAIN order |-> Item("stage1_model", order[i], FALSE)]

\* The direct model is saved only if it beats the hierarchical one.
DirectPlan(wins) ==
  IF wins /\ req.branch THEN <<Must("direct_model"), Must("direct_run")>> ELSE <<>>

HierarchicalPlan(directWins) ==
  OfBranch("step") \o <<Must("stage1_table"), Must("leaderboard")>> \o Stage1Plan
    \o ModelPlan \o <<Must("importance")>> \o OfBranch("model_run")
    \o DirectPlan(directWins) \o <<Must("report")>>

-----------------------------------------------------------------------------
Codes ==
  {"NO_DATASET", "NO_TARGET", "INVALID_TARGET", "NON_NUMERIC_TARGET", "CONSTANT_TARGET",
   "INVALID_Y1", "INSUFFICIENT_DATA", "STAGE1_FAILED", "STAGE2_FAILED", "NO_TRAINING_DATA",
   "CONSTANT_CLASS_TARGET", "ALL_TRAINING_FAILED", "MODELING_ERROR", "INTERRUPTED"}

Items == [what : {"step", "model", "leaderboard", "importance", "report", "model_run", "plot",
                  "metrics", "residuals", "champion", "stage1_table", "stage1_model",
                  "direct_model", "direct_run"},
          of : Frame \cup {NoColumn}, optional : BOOLEAN]

TypeOK ==
  /\ req \in Request
  /\ kind \in {"none", "tree", "hierarchical", "single"}
  /\ target \in Names \cup {NoColumn} /\ (kind # "none" => target \in Numeric)
  /\ pc \in {"start", "chosen", "stage1", "stage2", "ready", "save", "done"}
  /\ cancel \in BOOLEAN
  /\ left \subseteq Numeric /\ base \subseteq Frame \ {target}
  /\ DOMAIN stage1 \subseteq Numeric
  /\ \A y \in DOMAIN stage1 : stage1[y] # {} /\ stage1[y] \subseteq Frame \ {y}
  /\ plan \in Seq(Items) /\ (pc = "ready" => plan # <<>>)
  /\ files \subseteq Items /\ rows \subseteq Items /\ saved \subseteq Items
  /\ answer \in Codes \cup {"none", "OK"} /\ (pc = "done" <=> answer # "none")

Init ==
  /\ req \in Request
  /\ kind = "none" /\ target = NoColumn /\ pc = "start" /\ cancel = FALSE
  /\ left = {} /\ stage1 = <<>> /\ base = {} /\ plan = <<>>
  /\ files = {} /\ rows = {} /\ saved = {} /\ answer = "none"

-----------------------------------------------------------------------------
RequestCancel ==
  /\ ~cancel /\ pc # "done" /\ cancel' = TRUE
  /\ UNCHANGED <<req, kind, target, pc, left, stage1, base, plan, files, rows, saved, answer>>

\* check_cancellation
Heard == cancel /\ req.caller = "graph"

Finish(code) ==
  /\ pc' = "done" /\ answer' = code /\ plan' = <<>>
  /\ UNCHANGED <<req, cancel, left, stage1>>

Refuse(code) ==
  /\ Finish(code)
  /\ UNCHANGED <<kind, target, base, files, rows, saved>>

\* Where the subgraph checks: at the start, before it trains, before each
\* Stage 1 model, and before it saves.  The tree is trained without a check.
Interrupt ==
  /\ Heard
  /\ \/ pc \in {"start", "ready"}
     \/ pc = "chosen" /\ kind # "tree"
     \/ pc = "stage1" /\ left # {}
  /\ Refuse("INTERRUPTED")

\* The target's guards, in this order.
TargetRefusal(column) ==
  CASE column = NoColumn                              -> "NO_TARGET"
    [] column # NoColumn /\ column \notin Frame       -> "INVALID_TARGET"
    [] column \in Frame \ Numeric                     -> "NON_NUMERIC_TARGET"
    [] column \in Numeric \cap Constant({column})               -> "CONSTANT_TARGET"
    [] OTHER                                          -> "none"

\* run_modeling_subgraph up to the branches, a file that cannot be read
\* included; a threshold goes before any target the request names.
BeginGraph ==
  LET class  == ThresholdColumn(req)
      column == IF req.target # NoColumn THEN req.target ELSE Inferred(req.mentions)
      code   == TargetRefusal(column)
  IN /\ pc = "start" /\ req.caller = "graph" /\ ~Heard
     /\ \/ ~req.data /\ Refuse("NO_DATASET")
        \/ req.data /\ Refuse("MODELING_ERROR")
        \/ req.data /\ class = NoColumn /\ code # "none" /\ Refuse(code)
        \/ /\ req.data /\ class # NoColumn
           /\ IF class \notin Numeric THEN Refuse("NON_NUMERIC_TARGET")
              ELSE /\ kind' = "tree" /\ target' = class /\ pc' = "chosen"
                   /\ UNCHANGED <<req, cancel, left, stage1, base, plan, files, rows, saved, answer>>
        \/ /\ req.data /\ class = NoColumn /\ code = "none"
           /\ kind' = (IF req.y1 \ {req.target} # {} THEN "hierarchical" ELSE "single")
           /\ target' = column /\ pc' = "chosen"
           /\ UNCHANGED <<req, cancel, left, stage1, base, plan, files, rows, saved, answer>>

\* BaselineModelingTool: it infers nothing and knows one kind of model; a file
\* that cannot be read is one more exception.
BeginTool ==
  LET code == TargetRefusal(req.target)
  IN /\ pc = "start" /\ req.caller = "tool"
     /\ \/ ~req.data /\ Refuse("NO_DATASET")
        \/ req.data /\ req.target # NoColumn /\ Refuse("MODELING_ERROR")
        \/ req.data /\ code # "none" /\ Refuse(code)
        \/ /\ req.data /\ code = "none"
           /\ kind' = "single" /\ target' = req.target /\ pc' = "chosen"
           /\ UNCHANGED <<req, cancel, left, stage1, base, plan, files, rows, saved, answer>>

Trained(columns, steps, next) ==
  /\ base' = columns /\ plan' = steps /\ pc' = next
  /\ UNCHANGED <<req, kind, target, cancel, left, stage1, files, rows, saved, answer>>

\* _run_threshold_decision_tree_classification; both classes may not occur.
TrainTree ==
  LET columns == TreeFeatures(target, req.allowed)
  IN /\ pc = "chosen" /\ kind = "tree"
     /\ CASE Scarce({target})                -> Refuse("INSUFFICIENT_DATA")
          [] target \in Constant({target})   -> Refuse("CONSTANT_CLASS_TARGET")
          [] OTHER -> \/ Refuse("CONSTANT_CLASS_TARGET")
                      \/ Refuse("MODELING_ERROR")
                      \/ columns = {} /\ Refuse("NO_TRAINING_DATA")
                      \/ columns # {} /\ Trained(columns, TreePlan, "save")

\* A single model; its failure is logged, and no other is left.  Building its
\* features may raise before it is tried.
TrainSingle ==
  LET columns == Features(target, req.allowed, {target})
  IN /\ pc = "chosen" /\ kind = "single" /\ ~Heard
     /\ \/ Refuse("MODELING_ERROR")
        \/ columns = {} /\ Refuse("NO_TRAINING_DATA")
        \/ columns # {} /\ Refuse("ALL_TRAINING_FAILED")
        \/ columns # {} /\ Trained(columns, SinglePlan, "ready")

\* _run_hierarchical_modeling up to the loop of Stage 1.
PrepareStages ==
  /\ pc = "chosen" /\ kind = "hierarchical" /\ ~Heard
  /\ CASE ValidY1 = {}                     -> Refuse("INVALID_Y1")
       [] Scarce(Needed)                   -> Refuse("INSUFFICIENT_DATA")
       [] OTHER -> /\ left' = ValidY1 /\ pc' = "stage1"
                   /\ UNCHANGED <<req, kind, target, cancel, stage1, base, plan, files, rows, saved, answer>>

\* One Stage 1 model; without features or after a failed fit it is missing,
\* while building its features may raise.
TrainStage1 ==
  /\ pc = "stage1" /\ ~Heard
  /\ \E y \in left :
       LET columns == Features(y, StageSelection, Needed)
       IN \/ Refuse("MODELING_ERROR")
          \/ /\ left' = left \ {y}
             /\ \/ columns # {} /\ stage1' = [z \in DOMAIN stage1 \cup {y} |->
                                                IF z = y THEN columns ELSE stage1[z]]
                \/ UNCHANGED stage1
             /\ UNCHANGED <<req, kind, target, pc, cancel, base, plan, files, rows, saved, answer>>

EndStage1 ==
  /\ pc = "stage1" /\ left = {}
  /\ IF DOMAIN stage1 = {} THEN Refuse("STAGE1_FAILED")
     ELSE /\ pc' = "stage2"
          /\ UNCHANGED <<req, kind, target, cancel, left, stage1, base, plan, files, rows, saved, answer>>

\* Stage 1 predicts on the columns of Stage 2, and LightGBM refuses a frame
\* with another number of columns; their names it does not compare.
Predicts(columns) ==
  \A y \in DOMAIN stage1 : Cardinality(stage1[y]) = Cardinality(columns)

\* Stage 2 and the direct model, whose failure leaves the hierarchical one.
TrainStage2 ==
  LET columns == Features(target, StageSelection, Needed)
  IN /\ pc = "stage2"
     /\ \/ Refuse("MODELING_ERROR")
        \/ columns = {} /\ Refuse("NO_TRAINING_DATA")
        \/ columns # {} /\ Predicts(columns) /\ Refuse("STAGE2_FAILED")
        \/ /\ columns # {} /\ Predicts(columns)
           /\ \E directWins \in BOOLEAN :
                Trained(columns, HierarchicalPlan(directWins), "ready")

BeginSave ==
  /\ pc = "ready" /\ ~Heard /\ pc' = "save"
  /\ UNCHANGED <<req, kind, target, cancel, left, stage1, base, plan, files, rows, saved, answer>>

\* The next file is written and its row inserted.
SaveItem ==
  /\ pc = "save" /\ plan # <<>>
  /\ files' = files \cup {i \in {Head(plan)} : HasFile(i)}
  /\ rows' = rows \cup {i \in {Head(plan)} : HasRow(i)}
  /\ plan' = Tail(plan)
  /\ UNCHANGED <<req, kind, target, pc, cancel, left, stage1, base, saved, answer>>

\* A plot or a table of metrics fails before or after its file is written.
SkipItem ==
  /\ pc = "save" /\ plan # <<>> /\ Head(plan).optional
  /\ \/ files' = files \cup {Head(plan)}
     \/ UNCHANGED files
  /\ plan' = Tail(plan)
  /\ UNCHANGED <<req, kind, target, pc, cancel, left, stage1, base, rows, saved, answer>>

\* Mutant: what was inserted is committed.
CommitAnyway ==
  /\ pc = "save" /\ Finish("MODELING_ERROR")
  /\ saved' = rows /\ rows' = {}
  /\ UNCHANGED <<kind, target, base, files>>

\* A failing file, row or commit rolls the transaction back; files stay.
Rollback ==
  /\ pc = "save" /\ Finish("MODELING_ERROR")
  /\ \/ UNCHANGED files
     \/ plan # <<>> /\ files' = files \cup {i \in {Head(plan)} : HasFile(i)}
  /\ rows' = {}
  /\ UNCHANGED <<kind, target, base, saved>>

Commit ==
  /\ pc = "save" /\ plan = <<>>
  /\ Finish("OK")
  /\ saved' = rows /\ rows' = {}
  /\ UNCHANGED <<kind, target, base, files>>

Next ==
  \/ RequestCancel \/ Interrupt
  \/ BeginGraph \/ BeginTool
  \/ TrainTree \/ TrainSingle \/ PrepareStages \/ TrainStage1 \/ EndStage1 \/ TrainStage2
  \/ BeginSave \/ SaveItem \/ SkipItem \/ Rollback \/ Commit

Spec == Init /\ [][Next]_vars

-----------------------------------------------------------------------------
(* Properties                                                               *)

\* A training that is refused, interrupted or fails at any point leaves no row,
\* and one that answers with its ids has every file behind them: that of every
\* row, and that of every Stage 1 model the hierarchical model refers to.
SavedOrError ==
  pc = "done" =>
    IF answer = "OK"
    THEN /\ \E i \in saved : i.what = "model"
         /\ \A i \in saved : HasFile(i) => i \in files
         /\ kind = "hierarchical" =>
              \A y \in DOMAIN stage1 : Item("stage1_model", y, FALSE) \in files
         /\ req.branch <=> \E i \in saved : i.what = "model_run"
    ELSE saved = {}

\* When the selection names a column that is neither the target nor an
\* intermediate variable, Stage 1 is trained without these and on the very
\* columns it is later applied to, and no model uses a column not selected.
StagesShareColumns ==
  (kind # "none" /\ base # {}) =>
    LET useful == (req.allowed \cap Frame) \ ({target} \cup (IF kind = "hierarchical" THEN ValidY1 ELSE {}))
    IN useful # {} =>
         /\ base \subseteq useful
         /\ \A y \in DOMAIN stage1 : stage1[y] = base
=============================================================================

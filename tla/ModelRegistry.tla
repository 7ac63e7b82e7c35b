---------------------------- MODULE ModelRegistry ----------------------------
(***************************************************************************)
(* The table model_runs of one branch: the trainings that fill it and clear *)
(* its champion flags, the user who moves the flag, and the endpoints that  *)
(* look a champion up to explain it, to optimise with it or to predict.     *)
(*                                                                         *)
(* A data frame is a path and the artifact it came from, or NoSource for    *)
(* the session's own data set.  A training holds SQLite's write lock from   *)
(* its first UPDATE to its commit, so its rows and flags change in one      *)
(* step; set_champion reads before it writes.                               *)
(***************************************************************************)
EXTENDS Integers, Sequences, FiniteSets

CONSTANTS
  Targets,          \* numeric columns
  Datasets,         \* paths of data sets, as they may be spelled
  Registered,       \* those in the table datasets
  Artifacts,        \* artifacts that hold a data frame
  FileOf(_),        \* artifacts.file_path
  Normal(_),        \* _normalize_path: one value for all spellings
  KindsTrained,     \* the trainings an instance has
  Scores,           \* root mean squared errors
  MaxTrainings,     \* bound on the trainings
  MaxModels,        \* models of one baseline training
  NoTarget, NoPath, NoSource

VARIABLES
  rows,      \* model_runs in the order of created_at
  active,    \* file path of sessions.active_dataset_id
  disk,      \* the data sets that exist
  work,      \* the training that runs
  user,      \* what a set_champion in progress has read
  promised,  \* <<target, source>> that model-availability called ready
  trained    \* number of trainings started

vars == <<rows, active, disk, work, user, promised, trained>>

Kinds == {"baseline", "agent", "tree", "hierarchical"}
Sources == Artifacts \cup {NoSource}
Paths == Datasets \cup {FileOf(s) : s \in Artifacts}

ASSUME RegistryAssumption ==
  /\ Registered \subseteq Datasets /\ Registered # {}
  /\ Scores \subseteq Nat /\ MaxTrainings \in Nat /\ MaxModels \in Nat \ {0, 1}
  /\ KindsTrained \subseteq Kinds
  /\ NoTarget \notin Targets /\ NoSource \notin Artifacts /\ NoPath \notin Paths
  /\ \A p \in Datasets, s \in Artifacts : Normal(p) # Normal(FileOf(s))

-----------------------------------------------------------------------------
(* Rows                                                                     *)

\* A row's target is a column, or for a decision tree the name of the class
\* "column >= threshold"; column is the target of the artifact's meta data.
ModelRun ==
  [column : Targets, class : BOOLEAN, path : Paths, source : Sources,
   rmse : Scores, kind : Kinds \cup {"direct"}, champion : BOOLEAN, training : 1 .. MaxTrainings]

Row(w, kind, rmse, champion) ==
  [column |-> w.target, class |-> w.kind = "tree", path |-> w.path, source |-> w.source,
   rmse |-> rmse, kind |-> kind, champion |-> champion, training |-> trained]

\* Rows of the named target: a class has a name of its own.
Of(r, target) == ~r.class /\ r.column = target

Cleared(hit) ==
  [i \in DOMAIN rows |-> IF i \in hit THEN [rows[i] EXCEPT !.champion = FALSE] ELSE rows[i]]

-----------------------------------------------------------------------------
(* Looking a champion up                                                    *)

Latest(S) == CHOOSE i \in S : \A j \in S : j <= i

\* get_champions, get_champions_by_target
Candidates(target) ==
  {i \in DOMAIN rows : rows[i].champion /\ (target = NoTarget \/ Of(rows[i], target))}

\* get_champion, get_champion_by_target: the artifact goes before the path.
Exact(target, path, source) ==
  {i \in Candidates(target) :
     IF source # NoSource THEN rows[i].source = source
     ELSE path # NoPath => rows[i].path = path}

\* Mutant: the fallback comes before the path.
FindAny(target, path, source, fallback) ==
  IF Candidates(target) = {} THEN 0
  ELSE CHOOSE i \in Candidates(target) : \A j \in Candidates(target) : i <= j

\* _find_champion_model: the same artifact or the same spelling of the path,
\* then the same file, then, if allowed, whichever candidate is the newest.
\* 0 stands for None.
FindChampion(target, path, source, fallback) ==
  LET exact  == IF source = NoSource /\ path = NoPath THEN {} ELSE Exact(target, path, source)
      nearby == {i \in Candidates(target) : path # NoPath /\ Normal(rows[i].path) = Normal(path)}
      any    == IF fallback THEN Candidates(target) ELSE {}
  IN CASE exact # {}                  -> Latest(exact)
       [] exact = {} /\ nearby # {}   -> Latest(nearby)
       [] exact = {} /\ nearby = {} /\ any # {} -> Latest(any)
       [] OTHER                       -> 0

SourcePath(source) == IF source = NoSource THEN NoPath ELSE FileOf(source)

\* A path that exists; the files of artifacts are never deleted.
PathExists(path) == path # NoPath /\ (path \in Datasets => Normal(path) \in disk)

-----------------------------------------------------------------------------
(* What the endpoints answer: an error code, or the model they use          *)

Refused(code) == [code |-> code, model |-> 0]
Served(i)     == [code |-> "OK", model |-> i]

\* /model-availability looks with the path of the data in question, and calls
\* ready whatever it finds.
Availability(target, source) ==
  LET path == IF source # NoSource THEN FileOf(source) ELSE active
      i    == FindChampion(target, path, source, TRUE)
  IN CASE path = NoPath -> Refused("NO_DATASET")
       [] path # NoPath /\ i = 0 -> Refused("missing_champion")
       [] OTHER -> Served(i)

\* Mutant: the model found without the target is used for it.
NullImportanceOfFirst(target, source) ==
  LET first == FindChampion(NoTarget, SourcePath(source), source, TRUE)
  IN IF first = 0 THEN Refused("NO_CHAMPION_MODEL") ELSE Served(first)

\* /null-importance: the branch has a champion, then so has every target; the
\* first of four paths that exists, or else the first that is not empty.
NullImportance(target, source) ==
  LET first == FindChampion(NoTarget, SourcePath(source), source, TRUE)
      asked == IF target # NoTarget THEN target ELSE rows[first].column
      i     == FindChampion(asked, SourcePath(source), source, TRUE)
  IN IF first = 0 THEN Refused("NO_CHAMPION_MODEL")
     ELSE IF target = NoTarget /\ rows[first].class THEN Served(first)
     ELSE IF i = 0 THEN Refused("NO_CHAMPION_MODEL") ELSE Served(i)

\* /inverse-run falls back only if the request names neither.
InverseRun(target, source) ==
  LET i == FindChampion(target, SourcePath(source), source, target = NoTarget /\ source = NoSource)
  IN CASE i = 0 -> Refused("NO_CHAMPION_MODEL")
       [] i # 0 /\ ~PathExists(rows[i].path) /\ active = NoPath -> Refused("NO_DATASET")
       [] OTHER -> Served(i)

\* /constrained-inverse-run, and _get_model_info of each constraint
ConstrainedRun(target, source) ==
  LET i == FindChampion(target, SourcePath(source), source, TRUE)
  IN CASE i = 0 -> Refused("NO_CHAMPION_MODEL")
       [] /\ i # 0
          /\ ~\E p \in {SourcePath(source), rows[i].path, active} : PathExists(p)
            -> Refused("NO_DATASET")
       [] OTHER -> Served(i)

\* /bcm-pretrain needs a target.
BcmPretrain(target, source) ==
  LET i == FindChampion(target, SourcePath(source), source, TRUE)
  IN CASE target = NoTarget -> Refused("NO_TARGET")
       [] target # NoTarget /\ i = 0 -> Refused("NO_CHAMPION_MODEL")
       [] OTHER -> Served(i)

\* /hierarchical-stats
HierarchicalStats(target, source) ==
  LET i == FindChampion(target, SourcePath(source), source, FALSE)
  IN IF i = 0 THEN Refused("NO_CHAMPION_MODEL") ELSE Served(i)

\* /hierarchical-predict
HierarchicalPredict(target, source) ==
  LET i == FindChampion(target, SourcePath(source), source, target = NoTarget /\ source = NoSource)
  IN CASE i = 0 -> Refused("NO_CHAMPION_MODEL")
       [] i # 0 /\ rows[i].kind # "hierarchical" -> Refused("NOT_HIERARCHICAL")
       [] OTHER -> Served(i)

\* /shap without a model: the branch's newest champion.
ShapRun ==
  IF Candidates(NoTarget) = {} THEN Refused("NO_CHAMPION_MODEL")
  ELSE Served(Latest(Candidates(NoTarget)))

\* /simplify
SimplifyRun == IF active = NoPath THEN Refused("NO_ACTIVE_DATASET") ELSE ShapRun

-----------------------------------------------------------------------------
NoWork == [kind |-> "none"]
Work ==
  [kind : Kinds, target : Targets, path : Paths, source : Sources,
   results : UNION {[1 .. n -> Scores] : n \in 0 .. MaxModels}]

NoUser == [model |-> 0, seen |-> {}]

TypeOK ==
  /\ rows \in Seq(ModelRun)
  /\ active \in Registered \cup {NoPath}
  /\ disk \subseteq {Normal(p) : p \in Datasets}
  /\ work \in Work \cup {NoWork}
  /\ user.model \in 0 .. Len(rows) /\ user.seen \subseteq DOMAIN rows
  /\ promised \subseteq Targets \X Sources
  /\ trained \in 0 .. MaxTrainings

Init ==
  /\ rows = <<>> /\ work = NoWork /\ user = NoUser /\ promised = {} /\ trained = 0
  /\ active \in Registered /\ disk = {Normal(p) : p \in Datasets}

-----------------------------------------------------------------------------
(* Trainings                                                                *)

\* The data frame of a request (run_baseline_modeling), or of the agent's
\* context: the artifact's file, or the active data set in any spelling.
StartTraining ==
  /\ work = NoWork /\ trained < MaxTrainings
  /\ \E kind \in KindsTrained, t \in Targets, s \in Sources, p \in Paths :
       /\ IF s # NoSource THEN p = FileOf(s)
          ELSE active # NoPath /\ p \in Datasets /\ Normal(p) = Normal(active)
       /\ kind = "baseline" => active # NoPath
       /\ work' = [kind |-> kind, target |-> t, source |-> s, path |-> p,
                   results |-> <<>>]
  /\ trained' = trained + 1
  /\ UNCHANGED <<rows, active, disk, user, promised>>

\* _train_single_model or _train_lgbm for each model; an exception loses only
\* the model, but a hierarchical training needs its second stage.
Results(kind) ==
  LET most == CASE kind = "baseline" -> MaxModels [] kind = "hierarchical" -> 2 [] OTHER -> 1
  IN UNION {[1 .. n -> Scores] : n \in 1 .. most}

TrainModels ==
  /\ work # NoWork /\ work.results = <<>>
  /\ \E r \in Results(work.kind) : work' = [work EXCEPT !.results = r]
  /\ UNCHANGED <<rows, active, disk, user, promised, trained>>

Least(s) == CHOOSE i \in DOMAIN s : /\ \A j \in DOMAIN s : s[i] <= s[j]
                                    /\ \A j \in 1 .. i - 1 : s[i] < s[j]

\* argmin: the first of the least.
Best(s) == Least(s)

\* The champions of the same data frame and target lose their flag.
ClearedUnit(w) ==
  Cleared({i \in DOMAIN rows :
             Of(rows[i], w.target) /\ rows[i].path = w.path /\ rows[i].source = w.source})

ResultRows(w) ==
  [i \in DOMAIN w.results |-> Row(w, w.kind, w.results[i], i = Best(w.results))]

\* _save_model_results_sync; without results it clears nothing.
SaveBaseline(w) == ClearedUnit(w) \o ResultRows(w)

\* _save_modeling_artifacts: a row for each model, if there is a branch.
SaveAgent(w) == ClearedUnit(w) \o ResultRows(w)

\* _save_decision_tree_classification_artifacts clears nothing.
SaveTree(w) == Append(rows, Row(w, "tree", w.results[1], TRUE))

\* The hierarchical model is at least as good as a direct one, if there is one.
HierarchicalWins(w) == Len(w.results) = 1 \/ w.results[1] <= w.results[2]

\* Mutant: the row of a direct model that wins is forgotten.
SaveHierarchicalOnly(w) ==
  Append(Cleared({i \in DOMAIN rows : Of(rows[i], w.target)}),
         Row(w, "hierarchical", w.results[1], HierarchicalWins(w)))

\* _save_hierarchical_artifacts clears the champions of the target on every data
\* frame; the direct model gets a row only if it wins.
SaveHierarchical(w) ==
  Cleared({i \in DOMAIN rows : Of(rows[i], w.target)})
    \o <<Row(w, "hierarchical", w.results[1], HierarchicalWins(w))>>
    \o (IF HierarchicalWins(w) THEN <<>> ELSE <<Row(w, "direct", w.results[2], TRUE)>>)

Saved(w) ==
  CASE w.kind = "tree"         -> SaveTree(w)
    [] w.kind = "hierarchical" -> SaveHierarchical(w)
    [] w.kind = "agent"        -> SaveAgent(w)
    [] w.kind = "baseline"     -> SaveBaseline(w)

\* The transaction commits.
SaveResults ==
  /\ work # NoWork /\ work.results # <<>>
  /\ rows' = Saved(work)
  /\ work' = NoWork
  /\ UNCHANGED <<active, disk, user, promised, trained>>

\* No model could be trained, a cancel was heard, an exception before the
\* commit: nothing is written, or all of it is rolled back.
DropTraining ==
  /\ work # NoWork
  /\ work' = NoWork
  /\ UNCHANGED <<rows, active, disk, user, promised, trained>>

-----------------------------------------------------------------------------
(* The user                                                                 *)

\* set_champion: the model, and the champions among all rows of its branch.
ReadChampions ==
  /\ user = NoUser
  /\ \E i \in DOMAIN rows : user' = [model |-> i, seen |-> Candidates(NoTarget)]
  /\ UNCHANGED <<rows, active, disk, work, promised, trained>>

\* clear_champion of the branch, and the flag of the model; a failing commit
\* changes nothing.
WriteChampion ==
  /\ user # NoUser
  /\ user' = NoUser
  /\ \/ /\ rows' = [i \in DOMAIN rows |->
             [rows[i] EXCEPT !.champion = i = user.model \/ (@ /\ i \notin user.seen)]]
        /\ promised' = {}
     \/ UNCHANGED <<rows, promised>>
  /\ UNCHANGED <<active, disk, work, trained>>

\* The wizard asks for the models of a data frame.
AskAvailability ==
  /\ \E t \in Targets, s \in Sources :
       /\ Availability(t, s).code = "OK"
       /\ promised' = promised \cup {<<t, s>>}
  /\ UNCHANGED <<rows, active, disk, work, user, trained>>

\* delete_dataset, and an upload or a selection that follows.
DeleteDataset ==
  /\ active # NoPath /\ disk' = disk \ {Normal(active)} /\ active' = NoPath
  /\ promised' = {}
  /\ UNCHANGED <<rows, work, user, trained>>

SelectDataset ==
  /\ \E p \in Registered : Normal(p) \in disk /\ active' = p
  /\ UNCHANGED <<rows, disk, work, user, promised, trained>>

Next ==
  \/ StartTraining \/ TrainModels \/ SaveResults \/ DropTraining
  \/ ReadChampions \/ WriteChampion \/ AskAvailability
  \/ DeleteDataset \/ SelectDataset

Spec == Init /\ [][Next]_vars

-----------------------------------------------------------------------------
(* Properties                                                               *)

\* A target the wizard was told to be ready stays servable, whatever is
\* trained on whatever data frame meanwhile: the endpoints the wizard goes on
\* to accept it and use a model of that target, until the user moves the flag
\* or deletes the data set.
PromiseKept ==
  \A p \in promised :
    LET replies == {NullImportance(p[1], p[2]), ConstrainedRun(p[1], p[2]), BcmPretrain(p[1], p[2])}
    IN \A a \in replies : a.code = "OK" /\ Of(rows[a.model], p[1])

\* Right after a training is saved, a lookup for its target and data frame
\* returns a model of this training, and none of its models is better: older
\* champions, of other spellings of the path too, do not come first.
LookupFindsBest ==
  [][\A t \in Targets, p \in Paths, s \in Sources :
       (SaveResults /\ work.kind # "tree" /\ t = work.target /\ p = work.path /\ s = work.source)
         => LET i == FindChampion(t, p, s, FALSE)'
            IN /\ i # 0 /\ rows'[i].training = trained
               /\ \A j \in DOMAIN rows' :
                    rows'[j].training = trained => rows'[i].rmse <= rows'[j].rmse]_vars

\* The steps of the wizard, asked one after another about a target on an
\* artifact's data frame that has a champion for it, use the same model.
EndpointsAgree ==
  \A t \in Targets, s \in Artifacts :
    LET replies == {Availability(t, s), NullImportance(t, s), InverseRun(t, s), ConstrainedRun(t, s),
                    BcmPretrain(t, s), HierarchicalStats(t, s), HierarchicalPredict(t, s)}
    IN Exact(t, NoPath, s) # {} =>
         \A a \in replies : \/ a = Served(Latest(Exact(t, NoPath, s)))
                            \/ a = Refused("NOT_HIERARCHICAL")

\* Once a branch has a model it has a champion, whatever is trained and chosen
\* in whatever order: /shap and /simplify without a model find one.
BranchHasChampion ==
  rows # <<>> => /\ ShapRun.code = "OK"
                 /\ SimplifyRun.code \in {"OK", "NO_ACTIVE_DATASET"}
=============================================================================

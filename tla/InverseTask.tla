----------------------------- MODULE InverseTask -----------------------------
(***************************************************************************)
(* One inverse optimization: which arguments the endpoint or the agent's    *)
(* tool hands to the worker, the differential evolution with its objective, *)
(* its callback and the reasons for which it stops, the report of the       *)
(* optimum, and the artifact that holds it.  The two other tasks of the     *)
(* same file, null importance and BCM training, share the frame and have no *)
(* search.                                                                  *)
(*                                                                         *)
(* A row of features is [x, b, y]: x what the search moves, b the balance   *)
(* feature of a composition, y the prediction of the Stage 1 models that a  *)
(* hierarchical model takes as an input.                                    *)
(***************************************************************************)
EXTENDS Integers, Sequences

CONSTANTS
  Grid,            \* points of the search space, the bounds included
  BaseX, BaseB,    \* the base row: medians and fixed values
  Total, MaxPart,  \* a composition: x + b = Total, each part in 0 .. MaxPart
  Predict(_, _, _),\* the champion model on a row
  Stage1(_, _),    \* the Stage 1 models on a row
  Excess(_, _, _), \* by how much a row misses the thresholds of the constraints
  Penalty,         \* constraint_penalty
  Patience,        \* DEFAULT_CONVERGENCE_PATIENCE
  MaxIter,         \* maxiter of a search without a time limit
  NTargets,        \* targets of a null importance analysis
  NoPrediction     \* None, where the model cannot predict the row

\* The values that the balance feature and a Stage 1 prediction can take.
Balances == {BaseB} \cup {Total - x : x \in Grid}
Stage1Values == {0} \cup {Stage1(x, b) : x \in Grid, b \in Balances}

ASSUME InverseAssumption ==
  /\ Grid \subseteq Int /\ BaseX \in Grid
  /\ BaseB \in Int /\ Total \in Int /\ MaxPart \in Int
  /\ Stage1Values \subseteq Int
  /\ \A x \in Grid, b \in Balances, y \in Stage1Values :
       Predict(x, b, y) \in Int /\ Excess(x, b, y) \in Nat
  /\ Penalty \in Nat /\ Patience \in Nat \ {0}
  /\ MaxIter \in Nat \ {0} /\ NTargets \in Nat \ {0} /\ NoPrediction \notin Int

VARIABLES
  job,      \* who asks for what
  row,      \* job_runs.status
  stage,    \* where the worker's function is
  flag,     \* is_cancellation_requested
  expired,  \* elapsed >= max_seconds
  best,     \* the x that differential evolution holds as its best
  history,  \* the last Patience + 1 entries of best_history
  gen,      \* generations that count against MaxIter, or targets analysed
  reason,   \* stopped_reason
  success,  \* result_opt.success
  result,   \* what the task reports
  store     \* the report file, the committed artifact, and the ids returned

vars == <<job, row, stage, flag, expired, best, history, gen, reason, success,
          result, store>>
search == <<best, history, gen, reason, success>>
output == <<result, store>>

Final == {"completed", "failed", "cancelled"}
\* 1e9, what the objective returns for a row the model cannot predict.
Huge == 1000000000

-----------------------------------------------------------------------------
(* What the worker is given                                                 *)

\* The body of a request, the champion it finds, and whether that model can
\* predict the rows the worker builds.
Request ==
  [task : {"plain", "constrained", "null", "bcm"}, caller : {"queue", "agent"},
   hier : BOOLEAN, limit : {"none", "seconds"}, composed : BOOLEAN,
   constrained : BOOLEAN, direction : {"maximize", "minimize"}, predicts : BOOLEAN]

\* /inverse-run passes the Stage 1 arguments by position, one place too early:
\* max_seconds gets the mapping of paths and y1_columns keeps its default, so
\* that the worker does not take the model for a hierarchical one.
PlainArguments(r) ==
  [r EXCEPT !.hier = FALSE, !.composed = FALSE, !.constrained = FALSE,
            !.limit = IF r.hier THEN "mapping" ELSE "none"]

\* /constrained-inverse-run names every optional argument.
ConstrainedArguments(r) == r

\* The agent's tool runs the task on the agent's own job, always with a time
\* limit, without compositions, constraints and the Stage 1 models.
AgentArguments(r) ==
  [r EXCEPT !.hier = FALSE, !.composed = FALSE, !.constrained = FALSE, !.limit = "seconds"]

Arguments(r) ==
  CASE r.caller = "agent"       -> AgentArguments(r)
    [] r.task = "plain"         -> PlainArguments(r)
    [] OTHER                    -> ConstrainedArguments(r)

Possible(r) ==
  /\ r.caller = "agent" => r.task = "constrained"
  /\ r.task \in {"null", "bcm"} =>
       ~r.hier /\ ~r.composed /\ ~r.constrained /\ r.limit = "none" /\ r.predicts /\ r.direction = "maximize"

-----------------------------------------------------------------------------
(* Rows and their predictions                                               *)

Sign == IF job.direction = "maximize" THEN -1 ELSE 1

BaseRow == [x |-> BaseX, b |-> BaseB, y |-> IF job.hier THEN Stage1(BaseX, BaseB) ELSE 0]

\* A candidate: the base row with the optimised features, and with Stage 1 run
\* on it before the balance feature is set.
CandidateRow(x) ==
  [BaseRow EXCEPT !.x = x, !.y = IF job.hier THEN Stage1(x, BaseB) ELSE 0]

\* _apply_composition_constraints for the one composition of the client.
Composed(r) == IF job.composed THEN [r EXCEPT !.b = Total - r.x] ELSE r

OutOfRange(v) == IF v < 0 THEN 0 - v ELSE IF v > MaxPart THEN v - MaxPart ELSE 0

Violation(r) == IF job.composed THEN OutOfRange(r.x) + OutOfRange(r.b) ELSE 0

PredictRow(r) == Predict(r.x, r.b, r.y)

\* What a row is charged: the composition it breaks and the constraints it misses.
Charge(r) ==
  Penalty * (Violation(r) + IF job.constrained THEN Excess(r.x, r.b, r.y) ELSE 0)

Objective(x) ==
  IF ~job.predicts THEN Huge
  ELSE LET r == Composed(CandidateRow(x))
       IN Sign * PredictRow(r) + Charge(r)

\* The row whose prediction the task reports as the optimum: Stage 1 is not
\* run again.
OptimalRow(x) == Composed([BaseRow EXCEPT !.x = x])

-----------------------------------------------------------------------------
(* The callback's bookkeeping                                               *)

Better(u, v) == IF job.direction = "maximize" THEN u >= v ELSE u <= v

\* _append_generation_best, cut to what _has_converged reads.  The value is
\* that of the row without composition and penalty.
Appended(x) ==
  LET value  == PredictRow(CandidateRow(x))
      top    == IF history = <<>> \/ Better(value, history[Len(history)])
                THEN value ELSE history[Len(history)]
      longer == Append(history, top)
  IN IF ~job.predicts THEN history
     ELSE IF Len(longer) > Patience + 1 THEN Tail(longer) ELSE longer

\* Mutant: two equal generations are taken for a plateau.
HastyConverged(h) == Len(h) > 1 /\ h[Len(h)] = h[Len(h) - 1]

\* The threshold, tol or tol times the best, lies below the distance of two
\* integer predictions.
HasConverged(h) ==
  /\ Len(h) > Patience
  /\ IF job.direction = "maximize" THEN h[Len(h)] - h[Len(h) - Patience] <= 0
     ELSE h[Len(h) - Patience] - h[Len(h)] <= 0

-----------------------------------------------------------------------------
Stage == {"queued", "loading", "searching", "analysing", "stopped", "saving",
          "committing", "settling", "failing", "returned", "raised", "over"}

TypeOK ==
  /\ \E r \in Request : Possible(r) /\ job = Arguments(r)
  /\ row \in {"pending", "running"} \cup Final
  /\ stage \in Stage
  /\ flag \in BOOLEAN /\ expired \in BOOLEAN /\ success \in BOOLEAN
  /\ best \in Grid
  /\ history \in Seq(Int) /\ Len(history) <= Patience + 1
  /\ gen \in 0 .. MaxIter \cup 0 .. NTargets
  /\ reason \in {"max_seconds", "max_iterations", "time_limit", "cancelled", "converged"}
  /\ result \in [reason : {"none", "max_seconds", "max_iterations", "time_limit",
                           "cancelled", "converged", "scipy_converged"},
                 row : [x : Int, b : Int, y : Int], y1 : Int,
                 prediction : Int \cup {NoPrediction}, valid : BOOLEAN]
  /\ store \in [file : BOOLEAN, stored : BOOLEAN, named : BOOLEAN]

\* The first best point is that of the population scipy samples, which need not
\* hold the base row.
Init ==
  /\ \E r \in Request : Possible(r) /\ job = Arguments(r)
  /\ row = IF job.caller = "agent" THEN "running" ELSE "pending"
  /\ stage = "queued"
  /\ flag = FALSE /\ expired = FALSE
  /\ best \in Grid /\ history = <<>> /\ gen = 0
  /\ reason = IF job.limit = "none" THEN "max_iterations" ELSE "max_seconds"
  /\ success = FALSE
  /\ result = [reason |-> "none", row |-> [x |-> BaseX, b |-> BaseB, y |-> 0], y1 |-> 0,
               prediction |-> NoPrediction, valid |-> FALSE]
  /\ store = [file |-> FALSE, stored |-> FALSE, named |-> FALSE]

-----------------------------------------------------------------------------
(* The environment                                                          *)

\* cancel_job refuses a row in a final status.
RequestCancel ==
  /\ row \in {"pending", "running"} /\ stage # "queued" /\ stage # "over"
  /\ flag' = TRUE
  /\ UNCHANGED <<job, row, stage, expired, search, output>>

TimeExpires ==
  /\ stage = "searching" /\ job.limit = "seconds" /\ ~expired
  /\ expired' = TRUE
  /\ UNCHANGED <<job, row, stage, flag, search, output>>

-----------------------------------------------------------------------------
(* The task                                                                 *)

\* The first status write; for the agent it writes over the row of the
\* analysis that is running.
MarkRunning ==
  /\ stage = "queued"
  /\ row' = "running" /\ stage' = "loading"
  /\ UNCHANGED <<job, flag, expired, search, output>>

\* Models, data, search space and base row of run_inverse_optimize_task.
LoadPlain ==
  /\ stage = "loading" /\ job.task = "plain"
  /\ stage' \in {"searching", "failing"}
  /\ UNCHANGED <<job, row, flag, expired, search, output>>

\* Those of run_constrained_inverse_optimize_task, with its constraint models
\* and a BCM model that is loaded or trained.
LoadConstrained ==
  /\ stage = "loading" /\ job.task = "constrained"
  /\ stage' \in {"searching", "failing"}
  /\ UNCHANGED <<job, row, flag, expired, search, output>>

\* One generation: the best never gets worse than that of the population before.
Evolve ==
  /\ stage = "searching" /\ job.limit # "mapping"
  /\ \E x \in Grid : Objective(x) <= Objective(best) /\ best' = x
  /\ history' = Appended(best')
  /\ gen' = IF gen < MaxIter THEN gen + 1 ELSE gen
  /\ UNCHANGED <<job, row, flag, expired, output>>

TimeUp == job.limit = "seconds" /\ expired

\* After the callback the optimiser itself may stop: its population has
\* converged (at once when no row could be predicted), or it is out of
\* iterations, of which a search with a time limit has enough for ever.
GoesOn ==
  \/ success' = TRUE /\ stage' = "stopped"
  \/ /\ job.limit = "none" /\ gen' = MaxIter
     /\ stage' = "stopped" /\ UNCHANGED success
  \/ /\ job.predicts /\ (job.limit = "none" => gen' < MaxIter)
     /\ UNCHANGED <<stage, success>>

\* The callback of run_inverse_optimize_task notes no reason.
PlainGeneration ==
  /\ job.task = "plain" /\ Evolve
  /\ \/ (TimeUp \/ flag) /\ stage' = "stopped" /\ UNCHANGED success
     \/ ~TimeUp /\ ~flag /\ GoesOn
  /\ UNCHANGED reason

\* Mutant: the callback does not ask for the cancel flag.
DeafGeneration ==
  /\ job.task = "constrained" /\ Evolve
  /\ \/ TimeUp /\ reason' = "time_limit" /\ stage' = "stopped" /\ UNCHANGED success
     \/ /\ ~TimeUp /\ HasConverged(history')
        /\ reason' = "converged" /\ stage' = "stopped" /\ UNCHANGED success
     \/ ~TimeUp /\ ~HasConverged(history') /\ GoesOn /\ UNCHANGED reason

\* Mutant: the callback does not look at the clock.
ClocklessGeneration ==
  /\ job.task = "constrained" /\ Evolve
  /\ \/ flag /\ reason' = "cancelled" /\ stage' = "stopped" /\ UNCHANGED success
     \/ ~flag /\ GoesOn /\ UNCHANGED reason

Generation ==
  /\ job.task = "constrained" /\ Evolve
  /\ \/ TimeUp /\ reason' = "time_limit" /\ stage' = "stopped" /\ UNCHANGED success
     \/ ~TimeUp /\ flag /\ reason' = "cancelled" /\ stage' = "stopped" /\ UNCHANGED success
     \/ /\ ~TimeUp /\ ~flag /\ HasConverged(history')
        /\ reason' = "converged" /\ stage' = "stopped" /\ UNCHANGED success
     \/ ~TimeUp /\ ~flag /\ ~HasConverged(history') /\ GoesOn /\ UNCHANGED reason

\* The callback compares the elapsed time with a mapping: TypeError.
LimitIsNoNumber ==
  /\ stage = "searching" /\ job.limit = "mapping"
  /\ stage' = "failing"
  /\ UNCHANGED <<job, row, flag, expired, search, output>>

\* The optimiser polishes its best point, however it was stopped.
Polished == {x \in Grid : Objective(x) <= Objective(best)}

\* Mutant: the optimum is reported as the search left it, without composition.
ReportUncomposed ==
  /\ stage = "stopped" /\ job.task = "constrained"
  /\ \E x \in Polished : LET r == [BaseRow EXCEPT !.x = x] IN
       /\ best' = x
       /\ result' = [reason |-> IF success THEN "scipy_converged" ELSE reason, row |-> r,
                     y1 |-> IF job.hier THEN Stage1(r.x, r.b) ELSE 0,
                     prediction |-> IF job.predicts THEN PredictRow(r) ELSE NoPrediction,
                     valid |-> Violation(r) = 0]
  /\ stage' = "saving"
  /\ UNCHANGED <<job, row, flag, expired, history, gen, reason, success, store>>

ReportConstrained ==
  /\ stage = "stopped" /\ job.task = "constrained"
  /\ \E x \in Polished : LET r == OptimalRow(x) IN
       /\ best' = x
       /\ result' = [reason |-> IF success THEN "scipy_converged" ELSE reason, row |-> r,
                     y1 |-> IF job.hier THEN Stage1(r.x, r.b) ELSE 0,
                     prediction |-> IF job.predicts THEN PredictRow(r) ELSE NoPrediction,
                     valid |-> Violation(r) = 0]
  /\ stage' = "saving"
  /\ UNCHANGED <<job, row, flag, expired, history, gen, reason, success, store>>

\* Without success the report reads stopped_reason, which this function does
\* not define; a model that cannot predict leaves the objective's 1e9.
ReportPlain ==
  /\ stage = "stopped" /\ job.task = "plain"
  /\ \/ ~success /\ stage' = "failing" /\ UNCHANGED <<best, result>>
     \/ /\ success /\ stage' = "saving"
        /\ \E x \in Polished : LET r == OptimalRow(x) IN
             /\ best' = x
             /\ result' = [reason |-> "none", row |-> r, y1 |-> 0,
                           prediction |-> IF job.predicts THEN PredictRow(r)
                                          ELSE 0 - Sign * Huge,
                           valid |-> TRUE]
  /\ UNCHANGED <<job, row, flag, expired, history, gen, reason, success, store>>

\* run_null_importance_task: one target after the other, and any of them may
\* raise; nothing asks for the cancel flag.
AnalyseTarget ==
  /\ job.task = "null" /\ stage \in {"loading", "analysing"}
  /\ \/ stage' = "failing" /\ UNCHANGED gen
     \/ /\ gen' = gen + 1
        /\ stage' = IF gen' = NTargets THEN "saving" ELSE "analysing"
  /\ UNCHANGED <<job, row, flag, expired, best, history, reason, success, output>>

\* train_bcm_model_task: the file of the model is its only result.
TrainBcm ==
  /\ job.task = "bcm" /\ stage = "loading"
  /\ \/ stage' = "failing" /\ UNCHANGED store
     \/ stage' = "settling" /\ store' = [store EXCEPT !.file = TRUE]
  /\ UNCHANGED <<job, row, flag, expired, search, result>>

-----------------------------------------------------------------------------
(* Saving and settling                                                      *)

\* The INSERT of the step and the report file; an exception is logged and
\* leaves the result without artifact ids.
WriteReport ==
  /\ stage = "saving"
  /\ \/ stage' = "committing" /\ store' = [store EXCEPT !.file = TRUE]
     \/ stage' = "settling" /\ UNCHANGED store
  /\ UNCHANGED <<job, row, flag, expired, search, result>>

\* Mutant: the ids are returned even if the transaction is rolled back.
NameAnyway ==
  /\ stage = "committing" /\ stage' = "settling"
  /\ \E ok \in BOOLEAN : store' = [store EXCEPT !.stored = ok, !.named = TRUE]
  /\ UNCHANGED <<job, row, flag, expired, search, result>>

\* The INSERT of the artifact and the commit, or the rollback.
CommitReport ==
  /\ stage = "committing" /\ stage' = "settling"
  /\ \E ok \in BOOLEAN : store' = [store EXCEPT !.stored = ok, !.named = ok]
  /\ UNCHANGED <<job, row, flag, expired, search, result>>

Complete ==
  /\ stage = "settling"
  /\ row' = "completed" /\ stage' = IF job.caller = "agent" THEN "returned" ELSE "over"
  /\ UNCHANGED <<job, flag, expired, search, output>>

Fail ==
  /\ stage = "failing"
  /\ row' = "failed" /\ stage' = IF job.caller = "agent" THEN "raised" ELSE "over"
  /\ UNCHANGED <<job, flag, expired, search, output>>

\* The analysis that called the tool goes on, after an exception too, and ends
\* with its own verdict.
HostEnds ==
  /\ stage \in {"returned", "raised"}
  /\ row' \in Final /\ stage' = "over"
  /\ UNCHANGED <<job, flag, expired, search, output>>

Work ==
  \/ MarkRunning \/ LoadPlain \/ LoadConstrained
  \/ PlainGeneration \/ Generation \/ LimitIsNoNumber
  \/ ReportConstrained \/ ReportPlain \/ AnalyseTarget \/ TrainBcm
  \/ WriteReport \/ CommitReport \/ Complete \/ Fail \/ HostEnds

Next == Work \/ RequestCancel \/ TimeExpires

Spec == Init /\ [][Next]_vars

\* The worker's thread runs, and time passes.
FairSpec == Spec /\ WF_vars(Work) /\ WF_vars(TimeExpires)

-----------------------------------------------------------------------------
(* Properties                                                               *)

Done == stage = "over" /\ job.caller = "queue"

\* The reason a completed search gives is what stopped it: the clock only with
\* a limit that has passed, the cancel only after a request, the number of
\* generations only without a limit and after all of them, a plateau only when
\* the best values of all Patience + 1 last generations are the same, and never
\* the preset "max_seconds".  Which of several reasons that come together is
\* named is the matter of StopEndsSearch.
ReasonIsTrue ==
  result.reason # "none" =>
    /\ result.reason = "time_limit" => job.limit = "seconds" /\ expired
    /\ result.reason = "cancelled" => flag
    /\ result.reason = "max_iterations" => job.limit = "none" /\ gen = MaxIter
    /\ result.reason = "max_seconds" => FALSE
    /\ result.reason = "converged" => Len(history) = Patience + 1 /\ history[1] = history[Patience + 1]
    /\ result.reason = "scipy_converged" => success

\* For a model without Stage 1, the reported prediction is that of the
\* reported row, the row satisfies the composition and says so only if it
\* does, and no point the search accepted scores better than it.
ReportedIsBest ==
  (result.reason # "none" /\ ~job.hier) =>
    /\ result.row = Composed(CandidateRow(best))
    /\ job.composed => result.row.x + result.row.b = Total
    /\ result.valid <=> (Violation(result.row) = 0)
    /\ job.predicts =>
         /\ result.prediction = PredictRow(result.row)
         /\ Sign * result.prediction + Charge(result.row) = Objective(best)

\* A completed task names an artifact only if its row is committed and its
\* file exists, whichever of the writes failed.
NamedIsStored ==
  /\ store.named => store.stored /\ store.file
  /\ store.stored => store.file

\* Once a cancel is requested or the time is up, the generation that is being
\* computed is the last, and a constrained search stopped in this way does not
\* say that it settled by itself, whatever plateau that generation completes.
StopEndsSearch ==
  [][stage = "searching" /\ (flag \/ TimeUp) =>
       \/ stage' = "searching" /\ UNCHANGED search
       \/ /\ stage' # "searching"
          /\ stage' = "stopped" /\ job.task = "constrained" =>
               reason' \in {"time_limit", "cancelled"} /\ ~success']_vars

\* Whatever is cancelled, expires, raises or cannot be predicted: the task
\* ends.
InverseEnds == (stage = "queued") ~> (stage = "over")
=============================================================================

--------------------------- MODULE OptimizationTask ---------------------------
(***************************************************************************)
(* One hyperparameter optimization: the handler that creates its two rows,  *)
(* job_runs and optimization_runs, run_optimization_task with its optuna    *)
(* loop, the cancel handler, and restarts.  The task keeps its trials in    *)
(* memory and copies them into optimization_runs through one short          *)
(* connection per write; the two rows are never written in one transaction. *)
(***************************************************************************)
EXTENDS Integers, Sequences

CONSTANTS
  Score,        \* the scores a trial may return (minimised)
  NaN,          \* what cross_val_score averages to when a fold failed
  NTrials       \* n_trials

ASSUME TrialAssumption ==
  /\ Score \subseteq Int /\ NaN \notin Int
  /\ NTrials \in Nat \ {0}

Active == {"pending", "running"}
Terminal == {"completed", "failed", "cancelled"}
Result == Score \cup {NaN}

VARIABLES
  jobRow,  \* committed job_runs.status, "absent" before the commit
  opt,     \* committed optimization_runs row: status, completed_trials, best
  open,    \* the submit handler's transaction, which holds the write lock
  stage,   \* where the task is
  tried,   \* trials optuna has started
  history, \* trials_history: the results of the trials that came to an end
  flag,    \* the job is in _cancel_flags
  canc,    \* the cancel handler
  contended \* do other connections hold the write lock for too long at times?

vars == <<jobRow, opt, open, stage, tried, history, flag, canc, contended>>
rows == <<jobRow, opt>>
trials == <<tried, history>>

Stage == {"unsent", "refused", "queued", "entry", "loading", "optimizing", "scoring",
          "saving", "reporting", "interrupted", "cancelling", "failing", "settling",
          "over", "withdrawn", "lost"}

TypeOK ==
  /\ jobRow \in {"absent"} \cup Active \cup Terminal
  /\ opt \in [status : {"absent", "running"} \cup Terminal,
              trials : 0 .. NTrials, best : Score \cup {NaN}]
  /\ open \in BOOLEAN /\ stage \in Stage
  /\ tried \in 0 .. NTrials /\ history \in Seq(Result) /\ Len(history) <= tried
  /\ flag \in BOOLEAN
  /\ canc \in {"idle", "saw_pending", "saw_running", "signalled"}
  /\ contended \in BOOLEAN

\* The handler has flushed both rows and not yet called enqueue_job.
Init ==
  /\ jobRow = "absent"
  /\ opt = [status |-> "absent", trials |-> 0, best |-> NaN]
  /\ open = TRUE /\ stage = "unsent"
  /\ tried = 0 /\ history = <<>>
  /\ flag = FALSE /\ canc = "idle"
  /\ contended \in BOOLEAN

\* update_job_status_sync and _update_optimization_sync: one UPDATE and its
\* commit, no row when it is not there, and an exception that is swallowed.
WriteJob(status) ==
  \/ ~open /\ jobRow' = IF jobRow = "absent" THEN jobRow ELSE status
  \/ contended /\ UNCHANGED jobRow

WriteOpt(new) ==
  \/ ~open /\ opt' = IF opt.status = "absent" THEN opt ELSE new
  \/ contended /\ UNCHANGED opt

-----------------------------------------------------------------------------
(* The submit handler                                                       *)

Enqueue ==
  /\ stage = "unsent" /\ open
  /\ stage' \in {"queued", "refused"}
  /\ UNCHANGED <<rows, open, trials, flag, canc, contended>>

\* enqueue_job raised: the job row is failed, the other row keeps its default.
CommitRun ==
  /\ open /\ stage # "unsent"
  /\ jobRow' = IF stage = "refused" THEN "failed" ELSE "pending"
  /\ opt' = [opt EXCEPT !.status = "running"]
  /\ open' = FALSE
  /\ UNCHANGED <<stage, trials, flag, canc, contended>>

RollbackRun ==
  /\ open
  /\ open' = FALSE
  /\ UNCHANGED <<rows, stage, trials, flag, canc, contended>>

-----------------------------------------------------------------------------
(* run_optimization_task                                                    *)

Start ==
  /\ stage = "queued"
  /\ stage' = "entry"
  /\ UNCHANGED <<rows, open, trials, flag, canc, contended>>

MarkRunning ==
  /\ stage = "entry"
  /\ WriteJob("running")
  /\ stage' = "loading"
  /\ UNCHANGED <<opt, open, trials, flag, canc, contended>>

\* The parquet file is read and prepared; the only token.check() whose
\* InterruptedError leaves the function.
Load ==
  /\ stage = "loading"
  /\ \/ flag /\ stage' = "interrupted"
     \/ ~flag /\ stage' = "optimizing"
     \/ stage' = "failing"
  /\ UNCHANGED <<rows, open, trials, flag, canc, contended>>

\* Mutant: the trial starts without token.check().
StartTrialUnchecked ==
  /\ stage = "optimizing" /\ tried < NTrials
  /\ tried' = tried + 1
  /\ stage' = "scoring"
  /\ UNCHANGED <<rows, open, history, flag, canc, contended>>

\* optuna starts a trial; the check raises inside the objective, where
\* catch=(Exception,) makes it one more failed trial.
StartTrial ==
  /\ stage = "optimizing" /\ tried < NTrials
  /\ tried' = tried + 1
  /\ stage' = IF flag THEN "optimizing" ELSE "scoring"
  /\ UNCHANGED <<rows, open, history, flag, canc, contended>>

\* The cross validation returns, or raises and is caught.
FinishTrial ==
  /\ stage = "scoring"
  /\ stage' = "optimizing"
  /\ \/ UNCHANGED <<opt, history>>
     \/ \E result \in Result :
          /\ history' = Append(history, result)
          /\ WriteOpt([opt EXCEPT !.trials = Len(history')])
  /\ UNCHANGED <<jobRow, open, tried, flag, canc, contended>>

Valid == {history[i] : i \in DOMAIN history} \ {NaN}

\* Mutant: the study is maximised.
WorstScore(best) == \A score \in Valid : best >= score

IsBest(best) == \A score \in Valid : best <= score

\* n_trials or, after the first trial, timeout.  study.best_params raises when
\* no trial is complete (a NaN makes a trial fail).
StopStudy ==
  /\ stage = "optimizing" /\ tried > 0
  /\ stage' = IF Valid = {} THEN "failing" ELSE "saving"
  /\ UNCHANGED <<rows, open, trials, flag, canc, contended>>

\* Mutant: the job is reported before the result is saved.
ReportFirst ==
  /\ stage = "saving"
  /\ WriteJob("completed")
  /\ stage' = "reporting"
  /\ UNCHANGED <<opt, open, trials, flag, canc, contended>>

SaveResult ==
  /\ stage = "saving"
  /\ \E best \in Valid :
       /\ IsBest(best)
       /\ WriteOpt([status |-> "completed", trials |-> Len(history), best |-> best])
  /\ stage' = "reporting"
  /\ UNCHANGED <<jobRow, open, trials, flag, canc, contended>>

ReportCompleted ==
  /\ stage = "reporting"
  /\ WriteJob("completed")
  /\ stage' = "over"
  /\ UNCHANGED <<opt, open, trials, flag, canc, contended>>

\* Mutant: InterruptedError returns without a write to the job row.
InterruptedQuietly ==
  /\ \/ stage = "interrupted" /\ UNCHANGED jobRow /\ stage' = "cancelling"
     \/ stage = "failing" /\ WriteJob("failed") /\ stage' = "settling"
  /\ UNCHANGED <<opt, open, trials, flag, canc, contended>>

\* except InterruptedError and except Exception: first the job row.
ReportStopped ==
  /\ \/ stage = "interrupted" /\ WriteJob("cancelled") /\ stage' = "cancelling"
     \/ stage = "failing" /\ WriteJob("failed") /\ stage' = "settling"
  /\ UNCHANGED <<opt, open, trials, flag, canc, contended>>

\* Mutant: the exception handlers leave optimization_runs alone.
StatusKept(status) == opt

\* Mutant: a status outside the OptimizationStatus enum.
StatusError(status) == [opt EXCEPT !.status = "error"]

StatusSet(status) == [opt EXCEPT !.status = status]

\* Then the other row; only the cancelled task clears its flag.
SettleRun ==
  /\ \/ stage = "cancelling" /\ WriteOpt(StatusSet("cancelled")) /\ flag' = FALSE
     \/ stage = "settling" /\ WriteOpt(StatusSet("failed")) /\ UNCHANGED flag
  /\ stage' = "over"
  /\ UNCHANGED <<jobRow, open, trials, canc, contended>>

-----------------------------------------------------------------------------
(* The cancel handler and restarts                                          *)

CancelRead ==
  /\ canc = "idle"
  /\ \/ jobRow = "pending" /\ canc' = "saw_pending"
     \/ jobRow = "running" /\ canc' = "saw_running"
  /\ UNCHANGED <<rows, open, stage, trials, flag, contended>>

CancelSignal ==
  /\ canc \in {"saw_pending", "saw_running"}
  /\ flag' = TRUE
  /\ stage' = IF stage = "queued" THEN "withdrawn" ELSE stage
  /\ canc' = IF canc = "saw_pending" THEN "signalled" ELSE "idle"
  /\ UNCHANGED <<rows, open, trials, contended>>

\* Its own session fails with "database is locked" like any other writer.
CancelWrite ==
  /\ canc = "signalled"
  /\ WriteJob("cancelled")
  /\ canc' = "idle"
  /\ UNCHANGED <<opt, open, stage, trials, flag, contended>>

\* The process dies and the next one fails the rows of job_runs, and only
\* those, that say pending or running.
Restart ==
  /\ jobRow' = IF jobRow \in Active THEN "failed" ELSE jobRow
  /\ open' = FALSE /\ flag' = FALSE /\ canc' = "idle"
  /\ stage' = IF stage \in {"over", "withdrawn"} THEN stage ELSE "lost"
  /\ UNCHANGED <<opt, trials, contended>>

-----------------------------------------------------------------------------
Submit == Enqueue \/ CommitRun \/ RollbackRun

Task ==
  \/ Start \/ MarkRunning \/ Load \/ StartTrial \/ FinishTrial \/ StopStudy
  \/ SaveResult \/ ReportCompleted \/ ReportStopped \/ SettleRun

Cancel == CancelRead \/ CancelSignal \/ CancelWrite

Next == Submit \/ Task \/ Cancel \/ Restart

Spec == Init /\ [][Next]_vars

\* A thread that has taken the task runs it; open requests end.
FairSpec == Spec /\ WF_vars(Task) /\ WF_vars(CommitRun) /\ WF_vars(CancelSignal)
                 /\ WF_vars(CancelWrite)

-----------------------------------------------------------------------------
(* Properties                                                               *)

\* A run's row that says completed holds the final result, whatever writes
\* were lost before and whatever cancel or restart came after: every recorded
\* trial counted, and a best score that some trial reached and none beats.
CompletedRunHasResult ==
  opt.status = "completed" =>
    /\ opt.trials = Len(history)
    /\ opt.best \in Valid
    /\ \A i \in DOMAIN history : history[i] # NaN => opt.best <= history[i]

\* While no write is lost, a job row says completed only after the run's row.
JobCompletesLast ==
  ~contended /\ jobRow = "completed" => opt.status = "completed"

\* While no write is lost, a task that came to its own end leaves its two rows
\* in agreement, except that a late cancel request may own the job row.
RowsAgreeAtEnd ==
  ~contended /\ stage = "over" => opt.status = jobRow \/ jobRow = "cancelled"

\* The cancel flag is up between two trials, and at most n are recorded.
CancelledBy(n) == flag /\ stage # "scoring" /\ Len(history) <= n

NoneAfter(n) == [](CancelledBy(n) => [](Len(history) <= n))

\* Once the cancel flag is up and no trial is being scored, no trial is
\* recorded any more.
NoTrialAfterCancel == \A n \in 0 .. NTrials : NoneAfter(n)

\* A submitted optimization whose writes arrive comes to an end, cancelled or
\* not.
OptimizationEnds ==
  (jobRow = "pending" /\ ~contended) ~> jobRow \in Terminal
=============================================================================

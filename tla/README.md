# Data_LG: specifications and proofs

Data_LG is a FastAPI server that analyses a user's data set with a language
model agent, tree models, optuna and evolutionary optimisers, and a React
client that submits such work and polls for its progress. Long work runs as
*jobs*: a row in the SQLite table `job_runs`, a function on a thread pool of the
same process, and a handful of shared maps (cancel flags, progress, futures).
The specifications cover the job machinery, each kind of job, the registry of
trained models, the files and rows a session owns, and two algorithms. Paths
below are relative to the repository's root; `app/` is `backend/app/`.

Contents: 1 inventory, 2 how the parts interact, 3 the modules and how they
correspond to the code, 4 runs and bounds, 5 fairness, 6 proofs, 7 findings and
observations, 8 what is not modelled, 9 plan, 10 how to run.

## 1. Inventory

| Component | State it keeps | Operations | What is hard | What makes it correct |
|---|---|---|---|---|
| Job submission, cancel, polling (`app/api/deps.py`, `api/v1/routes/{analysis,optimization,modeling,jobs}.py`, `db/base.py`) | one database session per request; `job_runs` rows | `check_no_active_job`, the submit handlers, `cancel_job`, `get_job_status`, commit or rollback after the response | check, insert, enqueue and commit are separate steps; the row is enqueued before it is committed; handlers act on a status read earlier | every accepted job ends; an accepted row has a task; a withdrawn task never runs; one active job per session |
| Worker pool (`worker/queue.py`) | executor queue, futures in `_jobs` | `enqueue_job`, `get_job`, `shutdown_executor` | `future.cancel()` against a thread taking the item; threads that outlive the server | a task runs at most once |
| Cancel flags (`worker/cancellation.py`) | `_cancel_flags` of one process | `request_cancellation`, `clear_cancellation`, `CancellationToken.check` | heard only at checks; not shared between processes; not cleared on every path | a flag raised before the last check is heard |
| Status writes (`worker/job_runner.py`) | none | `update_job_status_sync` | unconditional UPDATE, swallows its exception; a nested task writes the row of the analysis that runs it | a final status is reopened only by the job's own task |
| Server start and stop (`main.py`, `run.sh`) | the process | `_cleanup_stale_jobs_on_startup`, `lifespan`, kill, restart after one second | two processes may coexist after a graceful stop | no row of a dead process stays active |
| Optimization task (`worker/tasks.py` `run_optimization_task`) | trials in memory; rows of `job_runs` and `optimization_runs` | trial, save, report, settle | two rows without a common transaction; optuna swallows exceptions; NaN scores | a completed run holds the best of its trials; the rows agree; a cancel stops the trials |
| OFAT task (`run_ofat_task` and its helpers, `tasks.py` 775-1367) | one connection and transaction; files; artifacts; the columns still in use | group, score, prune, step, report, plot per target, summary, commit | SQLite's single write lock is held through the plotting; scores are computed on the columns that remain | the step and its artifacts appear all together and only for a success; what is plotted is what the rows support |
| Analysis task and agent (`run_analysis_task`, `agent/runner.py`, `agent/orchestrator.py`, `agent/callbacks/*`) | agent memory and switch, relevance counter, progress, recorded artifacts | target loop, agent step, callbacks after each step, relevance check, verdict | cancellation only through a callback; errors as return values; several targets; retries; a tool that settles the job's row | a job that ends as completed stands for work; a cancel bounds the steps; it always ends |
| Inverse optimization (`worker/inverse_optimize_tasks.py`, `bcm_model.py`) | best point, window of best values, report | both searches, null importance, BCM training | four reasons to stop; the reported row is rebuilt after the search; cancel only in callbacks | the report is the best row scored and says truly why the search ended; it ends |
| Model training (`graph/subgraphs/modeling.py`, `agent/tools/modeling*`) | models, files, open transaction | single, hierarchical and tree training | two stages on columns chosen twice; files between the INSERTs of one transaction | nothing half saved; both stages see the same columns |
| Model registry (`routes/{modeling,optimization}.py`, `repositories/model_run.py`) | `model_runs.is_champion` | trainings, `set_champion`, every champion lookup | tasks and users write one flag; an availability answer is used requests later | a model that was promised is found, and by all endpoints the same |
| Data sets, sessions, branches (`services/{dataset,session}_service.py`, their routes) | rows, files, `active_dataset_id` | upload, choose, delete | the pointer is read before the lock is held; cascading deletes; two stores | the active data set exists; a row has its file |
| Agent context, preflight, recorder (`agent/context.py`, `preflight.py`, `callbacks/persist.py`) | one read of the session; recorded artifacts | read, refuse, record step, file and row | requests change the session during the run; failing writes | what a result lists can be fetched |
| Subset discovery (`graph/subgraphs/subset_discovery.py`) | none | class, group, make candidates, score, choose | four strategies, duplicates, cuts, columns used twice | the choice is the best; groups are complete |
| Other subgraphs (`graph/nodes`, `profile.py`, `create_dataframe.py`, `shap_simplify.py`, `optimization.py`) | steps, artifacts | profile, data frames, SHAP | numerical | transactions close |
| Authentication (`routes/auth.py`, `core/security.py`) | `auth_refresh_tokens` | login, refresh, logout | order and expiry | a revoked token renews nothing |
| Client (`frontend-react/src`) | zustand store, timers | submit, poll, cancel, show | answers out of order | a job that ends is seen to end |
| Administration, monitoring, schemas, configuration, migrations, built-in data, scripts | rows, constants | single-row updates, reads | nothing ordered | - |

## 2. How the parts interact

A submit handler reads the session's active jobs, inserts a `pending` row,
flushes it (which takes SQLite's write lock), hands the task to the executor,
and answers; the dependency `get_db_session` commits after the response
(`uv.lock` pins FastAPI 0.135.3, where the code after a dependency's `yield`
runs once the response is out). The worker thread may therefore start the task
before its row exists for any other connection. The task writes its status with
connections of its own (`update_job_status_sync`), one short transaction each,
and these writes do not look at the row they overwrite; if the lock is not free
within sqlite3's five seconds the exception is logged and the write is lost.
`cancel_job` reads the row, raises a flag, tries `future.cancel()`, and writes
`cancelled` if the row was `pending` *when it was read*. A task notices the flag
only where it calls `token.check()`, or, in the agent, when a step callback
looks at it, or, in a search, when the optimiser calls back after a generation.
When the server starts it fails every row that is `pending` or `running`. On
SIGTERM the executor is shut down with `wait=False`: queued tasks stay queued
and threads go on, while `run.sh` starts the next server.

Jobs meet each other in the tables. An agent's inverse optimisation
tool runs a worker task function inside the analysis, with the analysis' own job
id: that function writes `running`, then `completed` or `failed`, on the row of
the analysis, which goes on. A training clears and sets champion flags in
`model_runs` in its one transaction; `set_champion` reads and writes in two
steps; the wizard of the inverse optimisation asks which models are there and,
requests later, for one of them. An analysis reads session, data set and branch
once and then writes files first and rows after them, while requests upload and
delete. `delete_dataset` finds the data set's row first and reads the session's
pointer after it; only `delete_session` goes by the session that its validation
loaded.

## 3. Modules

| Module | Models |
|---|---|
| `JobContract` | the abstract specification: what the job subsystem promises of a row and a task |
| `JobLifecycle`, `MCJobLifecycle`, `JobLifecycleProofs` | handlers, executor, cancel flags, status writes, processes; refines `JobContract` |
| `OptimizationTask`, `MCOptimizationTask`, `OptimizationTaskProofs` | `run_optimization` and `run_optimization_task` with both rows |
| `OfatTask` | `run_ofat_task`: its transaction, write lock and outcomes, data left open |
| `OfatAnalysis`, `MCOfatAnalysis` | the same task with its data: extends and implements `OfatTask` |
| `AnalysisTask`, `AnalysisTaskProofs` | `run_analysis_task`, the agent's steps, its callbacks and the verdict |
| `InverseTask`, `MCInverseTask`, `InverseTaskProofs` | the four tasks of `inverse_optimize_tasks.py` |
| `ModelTraining`, `MCModelTraining`, `ModelTrainingProofs` | one training, from its request to the commit |
| `ModelRegistry`, `MCModelRegistry`, `ModelRegistryProofs` | `model_runs` under trainings, `set_champion` and all lookups |
| `Workspace`, `MCWorkspace`, `WorkspaceProofs` | what a session owns: requests beside a run of the agent |
| `SubsetDiscovery`, `MCSubsetDiscovery` | the subset discovery tool on a data frame |
| `Lists` | what Python's comprehensions, `sort` and `extend` do to the order of a list |
| `DataAnalysisProofs` | proofs about `OfatTask`, `OfatAnalysis`, `SubsetDiscovery` and the `Lists` both use |

The `MC` modules only give constants their values. Two modules compose:
`JobLifecycle` instantiates `JobContract` (`ImplementsContract`), and
`OfatAnalysis` extends `OfatTask`, each of its actions being one of that
module's with its open choices decided.

### JobLifecycle

State and code: `row` is the committed `job_runs.status`; `quiet` the rows whose
`updated_at` is older than 30 minutes; `lock` SQLite's write lock as the submit
handlers hold it; `sub`, `victim` and `canc` the program counters of the handlers
with what they remember from their reads; `fut`, `queue` the executor; `task` the
position in a task function; `flags` the `_cancel_flags` of each process; `home`,
`cur`, `alive`, `phase`, `doomed` the incarnations of the server.

| Action | Code |
|---|---|
| `CheckNoActiveJob`, `RejectSubmit` | `deps.py` 138-178 and the 400s after it |
| `InsertJobRun`, `EnqueueJob`, `EnqueueRaises`, `CommitSubmit`, `RollbackSubmit` | the submit handlers, `queue.py` 36-55, `db/base.py` 36-47 |
| `CancelRead`, `CancelSignal`, `CancelWrite`, `CancelTimeout` | `jobs.py` 65-121 |
| `PollRefresh`, `Age` | `jobs.py` 22-62; the passing of half an hour |
| `TakeJob`, `MarkRunning`, `NoticeCancel`, `LastCheck`, `TaskRaises`, `EndTask` | the thread, and the frame every task in `worker/tasks.py` shares |
| `BeginNested`, `EndNested` | the inverse task run by the agent's tool under the analysis' job id (`inverse_optimization_tool.py` 117-118, `inverse_optimize_tasks.py` 1073, 1435, 1440) |
| `Stop`, `Exit`, `Crash`, `Boot`, `CleanupStaleJobs` | `main.py`, the interpreter's exit, a kill |

Handlers are split exactly where another thread or handler can come between two
of their steps. A status write waits for the lock, or is lost when
`BusyTimeouts`. `RouteOf` separates the endpoints that guard with
`check_no_active_job`, those that do not, and those that create a row and never
enqueue anything. `Cooperative` holds the jobs whose task never goes on past a
raised flag (`run_optimization_task` and analyses are not among them, see section
7), `Nesting` analyses, whose task may nest searches: their rows can say
completed or failed before the task's end, and running again.
`ImplementsContract` is the refinement: `taskStage` maps a future to the
contract's stages. The contract has a step of its own for a nested report
(`ReportNested`), so that what it promises of all other jobs stays: only the last
step of a job's own task completes its row.

### OptimizationTask

`opt` is the committed `optimization_runs` row (status, `completed_trials`,
`best_score`), `history` the list `trials_history`, `tried` what optuna counts
against `n_trials`. A trial's result is a score or NaN: optuna keeps a NaN trial
as failed, so `best_params` raises when nothing else is there, but the objective
has appended it to the history all the same. `StartTrial` has the check whose
exception optuna catches. Status writes and row writes may be lost when
the behaviour is `contended`: a choice made in the initial state and kept.

### OfatTask

`holder` is the write lock, `conn` the task's connection, which is "open" from
`get_sync_db_connection()` to `close()`, "garbage" when the task's frame is
dropped with the connection open, "pinned" when an exception stored in the
Future keeps that frame alive. `created` counts the artifacts inserted, `stored`
those that other connections see. `InsertStep` takes the lock, `CommitStep`
gives it back; `WriteJob` of the task itself is one more connection that has to
wait for it.

### AnalysisTask

`stage` "searching" and "searched" are the nested search of a step and the rest
of that step: `BeginSearch` and `EndSearch` are what the inverse optimisation
tool writes on the analysis' own row. `target`, `step`, `interrupted`, `calls`,
`emitted` are the loop variable, the agent's `step_number` and
`interrupt_switch`, the relevance check's counter and the progress callback's
`_last_emitted`; `recorded` and `failed` are the targets that left an artifact
or came back with an error code. `AgentStep` is one step with everything that
runs in it: the tool's own progress, the three callbacks in the order in which
they are registered, and the final answer check. The agent loop is smolagents'
and is modelled from how it is used: `interrupt()` makes the *next* step raise,
`run()` resets the switch, and after `max_steps` the model is asked for an
answer whether or not it was interrupted. `Planned` and `Acted` are the
arithmetic of the progress callback.

### OfatAnalysis

`frame`, `features` (`feat_cols`), `valid` (the columns of `valid_ofat`) and
`report` are added to the variables of `OfatTask`, and its actions get their
data: `ALoad` takes a frame and searches it, `Diagnose`, `RelaxInVain` and
`Relax` are the three ends of the block at `tasks.py` 1063-1153. `ValidGroups`,
`Scores`, `Prune` and `GreedyPrune` are `_find_valid_ofat_groups`,
`_compute_interference_scores` and `_greedy_prune_features`; a group is a set of
row numbers, and a value is compared as the code compares it: by its text when
rows are grouped (a missing value equals another), and leaving missing values
out when values are counted.

### InverseTask

`job` is what the worker gets, after `Arguments`: each caller passes the request
on differently (see section 7), and these operators say how. `best`, `history`,
`gen`, `reason` and `success` are the optimiser's best point, the last entries
of `best_history`, the generations, `stopped_reason` and scipy's `success`. The
search starts from any point: the optimiser's first population is sampled and
need not hold the base row. `Generation` is one callback with the generation
before it: whatever point is not worse may come out of it, since what
differential evolution finds is not modelled. `CandidateRow`, `Composed`,
`Violation` and `Objective` build and score a row; `OptimalRow` and
`ReportConstrained` build it again for the report. `Predict`, `Stage1` and
`Excess` are constants: any models. `HostEnds` is the analysis job that goes on
when the agent's tool was the caller.

### ModelTraining

One request from `start` to `done`. `Features`, `TreeFeatures` and
`StageSelection` choose columns as the three code paths do; `TargetRefusal` has
the guards in their order; `TrainSingle`, `TrainTree` and `PrepareStages` to
`TrainStage2` are the paths; a `plan` of files and rows is then written item by
item (`SaveItem`, `SkipItem`, `Rollback`, `Commit`). A data frame is only what
the guards see of its columns: numeric, and, of the rows in which some columns
(`Needed`) have values, whether these are too few (`Scarce`) and which columns are
`Constant` or like an `Identifier` in them. A data file that cannot be read and a
fit or a feature matrix that raises are `MODELING_ERROR`, except for a Stage 1
column, which is left out.

### ModelRegistry

`rows` is `model_runs` in the order of `created_at`. A training (`StartTraining`,
`TrainModels`, `SaveResults`) holds the write lock from its first UPDATE to its
commit, so its writes are one step; `set_champion` is `ReadChampions` and
`WriteChampion`. `FindChampion` is `_find_champion_model` with its order of
preferences; one operator per endpoint (`Availability`, `NullImportance`,
`InverseRun`, `ConstrainedRun`, `BcmPretrain`, `HierarchicalStats`,
`HierarchicalPredict`, `ShapRun`, `SimplifyRun`) says what it refuses and which
model it takes.

### Workspace

`datasets`, `artifacts`, `active`, `alive`, `branch` are committed rows, `files`
what is on the disk, `lock` SQLite's write lock. A request goes from `Validated`
through its steps to its commit or `Rollback`; `seen` is the pointer a deletion
goes by: for `delete_session` the one of the session loaded at validation, for
`delete_dataset` the one that `ReadPointer` reads after `FindDataset`; `run` is
the agent's run with the recorder's open transaction (`pending`) and its list
(`recorded`). A failed commit leaves rows pending, and a later commit of the
same connection commits them. A client may name a data set from `WriteUpload`
on, when its upload is answered and not yet committed.

### SubsetDiscovery

A function of a data frame, in four actions: `Discover` (columns, signatures,
candidates, deduplication, scores), `RecordNothing` or `Choose`, and
`BuildArtifacts`. `Class` tells columns apart as `classify_columns` does;
`NumericColumns` and `TextColumns` say what type a column has, the others are
dates. `RowSignatures`, `SignatureGroups`, `StratifiedSubsets`, `DenseSubsets`,
`CompleteRows`, `Deduplicated`, `Scored` and `SelectTopK` follow the functions
of the file. A score is an integer in millionths and a coverage one in ten
thousandths, because the code rounds them before it compares them (`ScoreUnits`,
`Rounded`): subsets whose scores differ in the seventh digit are equals, and a
coverage of 0.94996 counts as 0.95. How Python rounds a number that lies exactly
between two is left out. Candidates without rows or columns are not scored
(`Marked`). The names are chosen apart from those of `OfatAnalysis`, so that one
module of proofs can extend both.

### Lists

Both analyses filter and sort lists. `Kept` and `Sorted` say where an item goes
by the number of items that come before it, which is a definition without
recursion and one that facts can be proved of; an order is given as a set of
pairs of positions. `Sorted` is stable, as `list.sort` is. `_deduplicate_candidates`
and the pruning are loops and are written as recursive functions.

## 4. Runs and bounds

| Run | Bounds | Shows |
|---|---|---|
| `job_crash` | 2 jobs of one session, an analysis that may nest searches and a task of an unguarded endpoint, one worker, 2 processes, kills, fairness | no row is stranded or orphaned, and every accepted job ends |
| `job_linger` | a task that hears its flag and an analysis that may nest searches, 2 processes, graceful stops, lost writes | withdrawn tasks never run, what reopens a final status, an early cancel is heard, the refinement of `JobContract` |
| `job_overlap` | two guarded requests | the counterexample of section 7 |
| `opt_result` | 3 trials, 2 scores and NaN, with and without lost writes, fairness | the result, the order and the agreement of the two rows, no trial after a cancel, the job ends |
| `ofat_step` | 3 targets, other writers, every frame of 3 rows over 4 columns of two values | the step is atomic, a cancel discards it, what is plotted is supported, the pruning report tells the truth |
| `analysis_targets` | 2 targets, 3 steps with one nested search each at most, 2 retries, records that may fail, fairness | an end as completed stands for work, a cancel bounds the agent, the job ends |
| `analysis_early_end` | 2 targets, 2 steps, 1 retry | the counterexample of section 7 |
| `inverse_search` | 3 points, patience 2, 4 generations, every request and caller, fairness | true reasons, a true report, artifacts named only if stored, flag and clock end the search, the job ends |
| `registry` | 2 targets, 2 spellings of a path, an artifact, 2 trainings of 2 models, all kinds | promises to the wizard hold, endpoints agree, lookups find the best of the last training, a branch keeps a champion |
| `training` | 8 columns of every kind, every combination of request | nothing half saved, both stages share their columns |
| `workspace` | 2 data sets, 2 artifacts, 2 requests, one run, crashes, failing writes | the pointer has its row, rows have files, what was reported is stored |
| `subsets` | every frame of 3 rows, a column of numbers, one of dates and one of texts, missing values anywhere | groups are complete, the best candidates are kept |

Type invariants are checked in the runs of `JobLifecycle`, `OptimizationTask`,
`OfatTask` and `AnalysisTask`; that of `Workspace` is part of a proved invariant,
and the other modules state theirs as a summary of their types.

Why these bounds suffice. Two jobs are what it takes for one to be the stale
victim, the queued successor or the concurrent request of the other; with one
worker (the default `WORKER_MAX_WORKERS`) one of them must wait; two processes
give one restart with and without an overlap of old and new. A job is submitted
once and its row is never deleted. `MaxProcess` is the one bound on an unbounded
counter there: the last process is not killed. The optimization needs three
trials for a NaN, a best and a beaten one; the OFAT task three targets for a
first, a middle and a last plot, and its frames three rows for a supporting pair
and a row outside it and four columns so that two can be left out. The rows of a
frame are taken in one order: their order is kept by no group. A step of the
agent nests one search at most (`BeginSearch`): a second would write the same
row again. The agent needs three steps for one with the flag up, one in which
the interrupt is seen and one that must not happen, and two retries so that the
first rejected answer is not already the last. A search over three points has a
point that the composition spoils and one that the constraint penalises, and
four generations are more than the plateau of `Patience` 2 needs. In the
registry two trainings make one that clears what the other set, of the same or
another target, path and kind, with the user in between; `MaxTrainings` is its
bound. Two requests and a run make every pair that races in `Workspace`,
identifiers are not used again (`Fresh`, `NewArtifacts`), and `MaxRuns` = 1
because a second run begins like the first. Subset discovery compares counts
with limits of 10 and 20 rows; the instance scales them to 1 and 2 (`MinGroup`,
`MinRows`, and `MaxPlotRows` 2 for 900), and `LowCardinality` from 20 values to
3, so that frames of three rows fall on both sides of each, while percentages
stay as they are. Symmetry is used where identifiers are only compared: data
sets, requests and artifacts, targets of the registry, rows of a frame; never in
a run with a liveness property. `CHECK_DEADLOCK FALSE` stands where the system
really comes to rest: every job over and no client asking for more, a training
or a discovery done, no identifier or training left.

## 5. Fairness

`JobLifecycle`: weak fairness of the steps that follow inside a handler or a
task once it has begun (`EnqueueJob`, `CommitSubmit`, `CancelSignal`,
`CancelWrite`, `MarkRunning`, `EndNested`, `EndTask`), of every process's idle
threads, and of booting after a stop (`run.sh` restarts the server in a loop).
They are justified by the event loop and by threads, which run what is ready;
nothing is assumed of clients, failures, kills, or of `Stop`. Weak fairness of
`TakeJob` suffices, as only the pool itself takes from its queue. The last check
of a task (or the check that hears the flag) has strong fairness: an analysis
may nest one search after another, and the check is not possible during each,
but the agent's steps are bounded, so it does not go on so for ever.
`OptimizationTask`, `AnalysisTask` and `InverseTask` add weak fairness of the
task, whose steps end: trials and generations are bounded by data and
estimators, and model calls by the HTTP client's timeout. `InverseTask` also
assumes that time passes (`WF_vars(TimeExpires)`): a search with a time limit
has no number of iterations (`maxiter` is the largest there is) and ends by the
clock alone. `OfatTask`, `ModelTraining`, `ModelRegistry`, `Workspace` and
`SubsetDiscovery` state no fairness: their properties are safety properties.

## 6. Proofs

All theorems hold for any values of the constants that satisfy the named
assumptions of the modules (`JobAssumption`, `RouteAssumption`, `NestingAssumption`,
`BoundAssumption`, `TrialAssumption`, `TargetAssumption`, `AgentAssumption`,
`FrameAssumption`, `InverseAssumption`, `RegistryAssumption`, `TrainingAssumption`,
`WorkspaceAssumption`, `SubsetAssumption`); TLC evaluates them in the runs.

* `JobLifecycleProofs`. The properties are not inductive: `ActiveRowHasOwner`
  speaks of committed rows, and what it needs is what a handler still holds. The
  invariant `IInv` adds `HandlerInv` (a row exists only when its handler is
  over; an open transaction belongs to the serving process), `FutureInv` (what a
  row can say before and while its task runs, where an analysis, because of nested
searches, is bound to less than other jobs), `ProcessInv` (order of
  incarnations), `OwnerInv` and `OrphanInv`. From it follow `TypeCorrect`,
  `NoRowIsStranded`, `KilledServerLeavesNoOrphan`, the action properties
  `WithdrawnStays` and `FinalStatusReopens`, the refinement `Refinement`
  (every step is a contract step or a stutter; the start of a nested search is the
  contract's `ReportRunning`, its end `ReportNested`), and `EarlyCancelHeard`, which
  needs a second inductive formula, `Averted`: once the flag is up in time, the
  task is on one of the ways out that do not complete the row.
* `OptimizationTaskProofs`. `TrialInv` bounds the history by the trials started,
  `ResultInv` says what a completed row was computed from and that the history
  cannot grow afterwards, `OrderInv` ties both rows to the stage of the task.
  Theorems: `TypeCorrect`, `ResultIsRight`, `JobIsLast`, `RowsAgree`,
  `CancelStopsTrials`.
* `DataAnalysisProofs`, first part, about `OfatTask`. `CountInv` bounds the artifacts by the plots, `BeforeEnd` and
  `AfterEnd` say that nothing is stored before the commit and that the lock is
  then free. Theorems: `TypeCorrect`, `AtomicStep`, `CompletedRowIsVisible`,
  `CancelledLeavesNothing`.
  Second part, about `OfatAnalysis`. `AnalysisImplementsTask`: every step
  with data is a step of `OfatTask` or a stutter, so the theorems above hold of
  the task with its data. `PlottedIsSupported`: `GroupsAreSupport` shows that the code's search (a
  map from texts of rows to rows, kept if two values differ) finds a column just
  if two rows differ in it alone; it rests on the finiteness of groups, and the
  invariant `ValidIsFound` says that the columns plotted are those found for the
  columns still in use, and that there is one. `ReportIsTrue` is about the
  pruning loop. `Tells` is its invariant: the columns that remain and those in
  the report make up all of them, every entry but the last expected no groups,
  and the last one expected what the remaining columns have. One turn keeps it
  (`PruneTells`), so every turn does (`PruningTells`); the state invariant only
  has to carry it from `Relax` to the plots.
* `DataAnalysisProofs`, the facts about `Lists`. `EveryPlaceIsTaken`: if each
  element of a finite set is given the number of those before it, every place
  gets just one element. From it follow that a filter keeps the order and just
  the items meant (`KeepingIsOrdered`), and that `Sorted` is a stable
  sort of the same items (`SortingIsStable`). A loop is a recursive function of
  its turns; `LoopRuns` and `EveryTurn` say that such a function exists and that what every turn keeps
  holds at its end. They argue by the least turn where it would fail, which
  needs only that the naturals are well-founded: the library's induction rules
  take a predicate as parameter and cannot be used.
* `DataAnalysisProofs`, third part, about `SubsetDiscovery`. Each strategy's
  candidates, and what deduplication leaves of them, are `Proposals`: rows and
  columns of the frame under one of the four names, complete where they claim it.
  Scoring divides by counts of rows and columns, none of which is zero because
  empty candidates are left out before, so scores are natural numbers. `SelectionIsBest`
  takes, for a candidate that was not chosen, the first one with the same columns:
  it is not worse, and it is chosen, or `max_subsets` others come before it. The
  invariant `Chosen` joins these facts to the state. Theorems: `SubsetsAreTyped`,
  `SubsetsAreComplete`, `SubsetsAreBest`.
* `AnalysisTaskProofs`. `PlaceInv` ties the stage to the target and the outcome,
  `VerdictInv` what a completed outcome was decided on; `StepsLeft` is inductive
  once the flag is up. `Clamp` and `DivInt` carry the arithmetic of the progress
  callback. Theorems: `TypeCorrect`, `CompletedRowHasWork` (of a task that is over: while it
  works a nested search may have completed the row), `CancelBoundsAgent`.
* `InverseTaskProofs`. `TaskInv`, `SearchInv`, `ReportInv`, `StoreInv`: what the
  job is and that the best is a point of the grid; that nothing is reported before the search
  is over; the report against the best; files before rows before names. The
  lemma `OptimalIsCandidate` is the heart of `ReportIsBest`, which is about
  models without Stage 1 only: for them the row rebuilt for the report is the row that was scored. Further
  theorems: `NamedAfterStored`, `SearchHearsStop`, and `ReasonHolds`, with
  `NotedInv` (what the callback can have noted) and `HistoryInv`: the history never
  gets worse, so a plateau read off its two ends (`ConvergedIsPlateau`) is one.
* `ModelRegistryProofs`. `RowInv` says that a row's path and source belong
  together and that rows of earlier trainings are older than the one under way,
  `WorkInv` what that one will write, `ChampInv` that a nonempty branch has a
  champion, and so has every promised target. The three ways to save
  (`BaselineIsSaved`, `TreeIsSaved`, `HierarchicalIsSaved`) are reduced to one
  description, `IsSaved`: older rows lose at most the flag, none of another
  target does, one new row is champion and it is the best of them. `LeastNatural`
  and `GreatestNumber`, from the well-foundedness of the naturals, give argmin and
  ORDER BY ... LIMIT 1 their values; `FindChampionFinds` says what a lookup
  returns. Theorems: `TypeCorrect`, `PromisesAreKept`, `StepsAgree`, `BestIsFound`,
  `BranchKeepsChampion`.
* `ModelTrainingProofs`. `StageInv` and `BaseInv` say from which selection each
  Stage 1 model and the final model took their columns; `StagesMatch` follows
  under the premise in its formula, that the selection names a column which is
  neither the target nor an intermediate variable: then both choose from the same
  selection. Without it the code does not do so (section 7). `SaveInv`
  says that during a save each obligation is in the rest of the plan or among the
  rows and files written, and that an optional item is none; with the contents of
  the three plans (`TreePlanIsWhole`, `SinglePlanIsWhole`,
  `HierarchicalPlanIsWhole`) it gives `SaveIsAtomic`.
* `WorkspaceProofs`. `Named` and `FileInv` say what every request and the
  recorder hold between their steps (a pending row has its file; a data set
  being uploaded is in no other hands), `ReportInv` that what was recorded is
  committed. `InvariantHolds`, `ReportedStays`, and `RowsHaveFiles`, which is
  about the rows of artifacts (a data set's file goes before its row, section 7).
  `PointerInv` adds what the lock protects and what a deletion can have read, and
  gives `PointerLeadsToRow` without any assumption about when clients hear of a data
  set: the row of a data set and the pointer to it appear in one commit, and a
  deletion reads the pointer after it has seen the row.

Model-checked only: the liveness properties `AcceptedJobEnds`,
`OptimizationEnds`, `AnalysisEnds` and `InverseEnds`, which rest on fairness and
ENABLED. Every other property of a passing run is stated by a theorem. The two
runs that end in a counterexample check what the code does not keep.

## 7. Findings and observations

Two runs end in a counterexample of one property, stated from a docstring,
document or comment of the repository.

| Run | What the code does |
|---|---|
| `job_overlap` | two requests of one session both pass `check_no_active_job` before either inserts; two active jobs, where its docstring and `계획/db_schema.md` 640 promise one |
| `analysis_early_end` | the agent's inverse optimisation tool hands the analysis' job id to the worker task (`inverse_optimization_tool.py` 118), which writes `completed` on the row (`inverse_optimize_tasks.py` 1435) in the middle of a step, for whichever target; the repository's `README.md` 86-88 has the job completed after the pipeline, and `graph/state.py` 76 says that the job's completion is skipped in a run for a target before the last. Until the analysis writes its own end, polls say completed, a cancel is refused and the session's next job is accepted |

What follows is visible in the models (the action is named) without a run of its
own. A property that a line touches is stated so that it holds of what the code
does, and its comment says so.

Jobs:
- `cancel_job` writes `cancelled` over a row whose task started after the row was
  read (`jobs.py` 118), and the task overwrites it (`CancelWrite`;
  `OnlyOwnTaskReopens` allows exactly this).
- A nested search makes a row that was cancelled or failed run again, and may
  fail an analysis that then goes on (`BeginNested`, `EndNested`); a restart leaves a
  row that says completed as it is, though its analysis is lost (`Restart` of
  `AnalysisTask`).
- A worker of a stopped server writes `running` after the next server's cleanup
  (`main.py` 125; `MarkRunning` beside `CleanupStaleJobs`).
- The follow-up endpoints `plot_followup` and `dataframe_followup` create a row
  that no task will end (`RouteOf` "placeholder"; `AcceptedJobEnds` excepts them).
- Optuna's `catch` swallows the cancellation raised in the objective
  (`tasks.py` 684): no trial runs after it, but the job completes (`StartTrial`).
  `optimization_runs` keeps saying `running` after a restart or a cancel of a
  pending job.
- A cancelled or failed OFAT task writes its status past its own open
  transaction and waits for the lock it holds itself, so `cancelled` or `failed`
  is lost; after an exception the connection stays open as long as the Future
  (`tasks.py` 1358, 1363; `End`, `Collect`). With two features relaxing is always in vain. The
  division at `tasks.py` 1187 cannot meet a zero (`PlotsAreSupported`).
- A cancelled agent run comes back as an ordinary error (`cancellation.py` 28), so the
  job ends as failed, or completed if another target left something; the verdict
  says that all targets failed although one was answered without an artifact
  (`Verdict`); progress falls back to 20 with each further target.

Inverse optimisation:
- `/inverse-run` passes the Stage 1 arguments one position too early
  (`optimization.py` 579-600): for a hierarchical champion `max_seconds` is a
  mapping and the callback raises (`PlainArguments`, `LimitIsNoNumber`).
- `run_inverse_optimize_task` reads `stopped_reason`, which only the constrained
  task defines (`inverse_optimize_tasks.py` 1011), whenever scipy reports no
  success (`ReportPlain`).
- A model that can predict no row ends in a completed job with the objective's
  1e9 as its optimum; `convergence` is false though the reason is "converged"; the
  convergence window holds predictions without composition and penalty
  (`Appended`); for a hierarchical model the optimum is predicted with the base
  row's Stage 1 value (`OptimalRow`, and `ReportedIsBest` excepts it), and
  hierarchical constraint models with 0.
- The agent's tool drops the Stage 1 models (`AgentArguments`). Of overlapping compositions
  the report says valid although one undid the other, and a fixed balance
  feature is shown as fixed though it was overwritten.

Models:
- `set_champion` clears every champion of the branch (`modeling.py` 176), while
  `계산로직.md` 236-242 keeps one for each branch, data set and target; a
  hierarchical training clears those of other data sets too (`SaveHierarchical`).
- `dataset_mismatch` (`계산로직.md` 275) is never answered, and `/inverse-run`
  may refuse what the availability called ready (`PromiseKept` leaves it out).
- Without a usable selection Stage 1 is trained with the target among its features
  and then applied to shifted columns (`Predicts`); a y1 that contains an inferred
  target makes the target's own prediction a feature; `y1_columns` lists y1 whose
  Stage 1 failed; artifacts are saved without a step where there is no branch.

Workspace:
- Two uploads, or an upload and a choice, overwrite each other's active data set.
- A failing commit of a deletion leaves the row, perhaps the pointer, without a
  file; an upload into a deleted session leaves a row of no session; deleting a
  session leaves files and data set rows; a running analysis inserts rows below a
  deleted session; a work file whose recording fails once is never tried again.
- The preflight refuses a selected artifact while no data set is active.

Subsets:
- Signature groups match rows on other columns than those the signature was taken
  from, so with high-missing or target columns a group may hold no row or others
  (`Group`); the first deduplication keeps the earlier and not the better
  candidate; when no column is usable targets occur twice, and the parquet write
  fails after the step was recorded (`Writable`).

Seen while reading, outside the models: `계획/pipeline_review.md` 974 names a job
timeout of 600 seconds which nothing in `worker/` enforces.
`load_artifact`'s LIKE for "subset N" matches heatmaps and N0 as well.

## 8. What is not modelled, and why

Numerical work (training, SHAP, the optimisers' search, quality scores as real
numbers), dataframe shaping, plots, prompts and rendering are data to these
models: they return, or raise. The request bodies, step rows and artifacts that
submit handlers write beside the job are left out of `JobLifecycle`; the tasks'
own modules have those that matter to their properties. Placeholder rows are an
endpoint kind of `JobLifecycle` that no instance contains: the proofs hold with
them. Half an hour, five seconds and timeouts are nondeterministic events,
never clocks. Which tool the agent calls is the language model's choice and
nondeterministic.

- Profile, data frame, SHAP and optimisation subgraphs: straight code from one
  file to others, with no state that outlives a call.
- Authentication: one transaction per request on the rows of one token; a model
  of it would restate its guards.
- Administration, monitoring, schemas, configuration, migrations, rendering,
  scripts: nothing ordered to get wrong.
- The client's polling and store: see the plan.
- `삭제 무방/` is a former frontend, by its name free to be deleted.

## 9. Plan

Done, in this order: `JobContract`, `JobLifecycle`; `OptimizationTask`;
`OfatTask`; `AnalysisTask`; `InverseTask`; `ModelRegistry`; `ModelTraining`;
`Workspace`; `OfatAnalysis`; `SubsetDiscovery`, `Lists`; proofs about all of them.

Left, most important first:

1. `ProgressPoll`: the polling client (`JobProgress.tsx`, `ChatPanel.tsx`, the
   store) with `get_job_status` and the progress entry, beside `JobLifecycle`'s
   row; a client that shows a job as ended only if it did, and that does see it.
2. A composition of `JobLifecycle` with the task modules: the frame every task
   shares, refined by `OptimizationTask`, `AnalysisTask` and `InverseTask`.
3. `RefreshTokens`: login, refresh, logout, expiry.

## 10. Running

`tlasany M.tla` parses a module, `tlc -config X.cfg M` runs a configuration
(`PROJECT.json` lists them), `tlapm M.tla` checks the proofs of a `*Proofs`
module. Definitions named as mutants in a comment are wrong on purpose: put in
the place of the definition that follows them, they must make the run they
belong to fail, which shows that the property can tell.

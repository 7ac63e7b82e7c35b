----------------------------- MODULE JobLifecycle -----------------------------
(***************************************************************************)
(* The life of a job: the API handlers that create, cancel and poll rows of *)
(* job_runs, the thread pool that runs their tasks, the status writes those *)
(* tasks make, and the restarts of the process that holds both.             *)
(*                                                                          *)
(* SQLite is one shared table with one write lock.  A handler runs in one   *)
(* database session: its SELECTs see the committed table at once, its first *)
(* flush takes the write lock and holds it until the commit after the       *)
(* response.  A worker's status write is one short transaction that waits   *)
(* for the lock.  Handlers are split where another thread or handler may    *)
(* run between two of their steps and the difference can be seen.           *)
(***************************************************************************)
EXTENDS Integers, Sequences, FiniteSets

CONSTANTS
  Job,            \* identifiers of job rows; each is submitted at most once
  NoJob,          \* no job
  Session,        \* user sessions
  SessionOf,      \* [Job -> Session]
  RouteOf,        \* [Job -> Route]: the kind of endpoint that creates the row
  Cooperative,    \* jobs whose task never goes on past a raised cancel flag
  Nesting,        \* analyses: their agent's tool may run an inverse optimisation
                  \* task, which reports under the analysis' own job id
  MaxWorkers,     \* settings.worker_max_workers
  MaxProcess,     \* bound: incarnations of the server process
  BusyTimeouts,   \* may a writer give up on a held write lock (5 s default)?
  Lingering       \* may a stopped server still run its tasks (graceful stop)?

\* "checked":     analyze, ofat, baseline, optimization/run
\* "unchecked":   null-importance, inverse-run, constrained-inverse-run, bcm-pretrain
\* "placeholder": plot-followup, dataframe-followup, shap, simplify
Route == {"checked", "unchecked", "placeholder"}
Process == 1 .. MaxProcess

ASSUME JobAssumption == NoJob \notin Job /\ IsFiniteSet(Job) /\ Cooperative \subseteq Job
ASSUME RouteAssumption == SessionOf \in [Job -> Session] /\ RouteOf \in [Job -> Route]
\* An agent turns a raised flag into an error of one target and goes on.
ASSUME NestingAssumption ==
  /\ Nesting \subseteq Job /\ Nesting \cap Cooperative = {}
  /\ \A j \in Nesting : RouteOf[j] = "checked"
ASSUME BoundAssumption ==
  /\ MaxWorkers \in Nat \ {0}
  /\ MaxProcess \in Nat \ {0}
  /\ BusyTimeouts \in BOOLEAN
  /\ Lingering \in BOOLEAN

Active == {"pending", "running"}
Terminal == {"completed", "failed", "cancelled"}
RowStatus == {"absent"} \cup Active \cup Terminal

VARIABLES
  row,     \* [Job -> RowStatus]: committed job_runs.status
  quiet,   \* jobs whose committed updated_at is older than 30 minutes
  lock,    \* the submission that holds SQLite's write lock, or NoJob
  sub,     \* [Job -> SubState]: the submit handler of the job
  victim,  \* [Job -> Job or NoJob]: stale job this submission will fail
  canc,    \* [Job -> CancelState]: the cancel handler aimed at the job
  fut,     \* [Job -> FutState]: the job's future in its process's executor
  task,    \* [Job -> TaskState]: where the task function is
  queue,   \* [Process -> Seq(Job)]: the executor's work queue
  flags,   \* [Process -> SUBSET Job]: _cancel_flags of each process
  home,    \* [Job -> Process]: the process that serves the submission
  cur,     \* the process that serves requests, or served them last
  alive,   \* processes that still exist
  phase,   \* "serving", "stopped" or "booting"
  doomed   \* rows the startup cleanup has read as pending or running

store == <<row, quiet>>
handlers == <<lock, sub, victim, canc>>
pool == <<fut, task, queue>>
process == <<cur, alive, phase, doomed>>
vars == <<store, handlers, pool, flags, home, process>>

SubState == {"idle", "checked", "inserted", "enqueued", "refused", "over"}
CancelState == {"idle", "saw_pending", "saw_running", "signalled"}
FutState == {"none", "queued", "running", "cancelled", "done", "lost"}
TaskState == {"none", "entry", "working", "nested", "saving", "interrupted", "failing"}

TypeOK ==
  /\ row \in [Job -> RowStatus] /\ quiet \subseteq Job
  /\ lock \in Job \cup {NoJob}
  /\ sub \in [Job -> SubState] /\ victim \in [Job -> Job \cup {NoJob}]
  /\ canc \in [Job -> CancelState]
  /\ fut \in [Job -> FutState] /\ task \in [Job -> TaskState]
  /\ queue \in [Process -> Seq(Job)] /\ flags \in [Process -> SUBSET Job]
  /\ home \in [Job -> Process]
  /\ cur \in Process /\ alive \subseteq Process
  /\ phase \in {"serving", "stopped", "booting"} /\ doomed \subseteq Job

Init ==
  /\ row = [j \in Job |-> "absent"] /\ quiet = {}
  /\ lock = NoJob
  /\ sub = [j \in Job |-> "idle"] /\ victim = [j \in Job |-> NoJob]
  /\ canc = [j \in Job |-> "idle"]
  /\ fut = [j \in Job |-> "none"] /\ task = [j \in Job |-> "none"]
  /\ queue = [p \in Process |-> <<>>] /\ flags = [p \in Process |-> {}]
  /\ home = [j \in Job |-> 1]
  /\ cur = 1 /\ alive = {1} /\ phase = "serving" /\ doomed = {}

ActiveRows == {j \in Job : row[j] \in Active}

\* get_session_active_job returns some element of this set (no ORDER BY).
SessionActive(s) == {j \in ActiveRows : SessionOf[j] = s}

Running(p) == {j \in Job : home[j] = p /\ fut[j] = "running"}

Flagged(j) == j \in flags[home[j]]

\* Mutant: the status write inserts the row it does not find.
WriteRowUpserts(j, status) ==
  row' = [row EXCEPT ![j] = status] /\ quiet' = quiet \ {j}

\* The UPDATE of one row and its commit; an absent row is not created.
WriteRow(j, status) ==
  /\ row' = IF row[j] = "absent" THEN row ELSE [row EXCEPT ![j] = status]
  /\ quiet' = quiet \ {j}

-----------------------------------------------------------------------------
(* Submission                                                               *)

\* The SELECT of check_no_active_job.  A fresh active job means 409, and the
\* handler ends without a trace; a stale one is remembered to be failed.
CheckNoActiveJob(j) ==
  /\ phase = "serving" /\ sub[j] = "idle" /\ RouteOf[j] # "unchecked"
  /\ \/ /\ SessionActive(SessionOf[j]) = {}
        /\ UNCHANGED victim
     \/ \E stale \in SessionActive(SessionOf[j]) :
          /\ stale \in quiet
          /\ victim' = [victim EXCEPT ![j] = stale]
  /\ sub' = [sub EXCEPT ![j] = "checked"]
  /\ UNCHANGED <<store, lock, canc, pool, flags, home, process>>

\* A 400 after the check, or the lock was not free in time: rolled back.
RejectSubmit(j) ==
  /\ sub[j] = "checked"
  /\ sub' = [sub EXCEPT ![j] = "idle"]
  /\ victim' = [victim EXCEPT ![j] = NoJob]
  /\ UNCHANGED <<store, lock, canc, pool, flags, home, process>>

MayInsert(j) ==
  \/ sub[j] = "checked"
  \/ sub[j] = "idle" /\ RouteOf[j] = "unchecked"

\* The first flush: the stale job's UPDATE and the INSERT of the new row.
InsertJobRun(j) ==
  /\ phase = "serving" /\ MayInsert(j) /\ lock = NoJob
  /\ lock' = j
  /\ sub' = [sub EXCEPT ![j] = "inserted"]
  /\ home' = [home EXCEPT ![j] = cur]
  /\ UNCHANGED <<store, victim, canc, pool, flags, process>>

\* enqueue_job, while the row is still uncommitted.
EnqueueJob(j) ==
  /\ sub[j] = "inserted" /\ RouteOf[j] # "placeholder"
  /\ sub' = [sub EXCEPT ![j] = "enqueued"]
  /\ fut' = [fut EXCEPT ![j] = "queued"]
  /\ queue' = [queue EXCEPT ![cur] = Append(@, j)]
  /\ UNCHANGED <<store, lock, victim, canc, task, flags, home, process>>

\* The executor refuses.  The checked routes catch it and fail the row, the
\* others let get_db_session roll back.
EnqueueRaises(j) ==
  /\ sub[j] = "inserted" /\ RouteOf[j] # "placeholder"
  /\ \/ /\ RouteOf[j] = "checked"
        /\ sub' = [sub EXCEPT ![j] = "refused"]
        /\ UNCHANGED lock
     \/ /\ RouteOf[j] = "unchecked"
        /\ sub' = [sub EXCEPT ![j] = "over"]
        /\ lock' = NoJob
  /\ UNCHANGED <<store, victim, canc, pool, flags, home, process>>

\* Mutant: the row of a refused submission is left pending.
PublishedPending(j) ==
  [k \in Job |-> IF k = j THEN "pending" ELSE IF k = victim[j] THEN "failed" ELSE row[k]]

\* The row a commit publishes, together with the failed stale job.
Published(j) ==
  [k \in Job |->
     IF k = j THEN (IF sub[j] = "refused" THEN "failed" ELSE "pending")
     ELSE IF k = victim[j] THEN "failed" ELSE row[k]]

MayCommit(j) ==
  \/ sub[j] \in {"enqueued", "refused"}
  \/ sub[j] = "inserted" /\ RouteOf[j] = "placeholder"

CommitSubmit(j) ==
  /\ lock = j /\ MayCommit(j)
  /\ row' = Published(j)
  /\ quiet' = quiet \ {j, victim[j]}
  /\ lock' = NoJob
  /\ sub' = [sub EXCEPT ![j] = "over"]
  /\ victim' = [victim EXCEPT ![j] = NoJob]
  /\ UNCHANGED <<canc, pool, flags, home, process>>

\* A flush, refresh or commit raises: the row is gone, a queued task is not.
RollbackSubmit(j) ==
  /\ lock = j
  /\ lock' = NoJob
  /\ sub' = [sub EXCEPT ![j] = "over"]
  /\ victim' = [victim EXCEPT ![j] = NoJob]
  /\ UNCHANGED <<store, canc, pool, flags, home, process>>

-----------------------------------------------------------------------------
(* Cancellation and polling                                                 *)

\* cancel_job reads the row; anything but pending or running means 400.
CancelRead(j) ==
  /\ phase = "serving" /\ canc[j] = "idle"
  /\ \/ row[j] = "pending" /\ canc' = [canc EXCEPT ![j] = "saw_pending"]
     \/ row[j] = "running" /\ canc' = [canc EXCEPT ![j] = "saw_running"]
  /\ UNCHANGED <<store, lock, sub, victim, pool, flags, home, process>>

\* future.cancel() takes a queued future only, and only of this process.
Withdrawn(j) ==
  IF home[j] = cur /\ fut[j] = "queued" THEN [fut EXCEPT ![j] = "cancelled"] ELSE fut

\* Mutant: the handler returns without writing the row it saw pending.
NothingToWrite(j) == "idle"

AfterSignal(j) == IF canc[j] = "saw_pending" THEN "signalled" ELSE "idle"

CancelSignal(j) ==
  /\ canc[j] \in {"saw_pending", "saw_running"}
  /\ fut' = Withdrawn(j)
  /\ flags' = [flags EXCEPT ![cur] = @ \cup {j}]
  /\ canc' = [canc EXCEPT ![j] = AfterSignal(j)]
  /\ UNCHANGED <<store, lock, sub, victim, task, queue, home, process>>

\* The status seen at the read decides; the row is not looked at again.
CancelWrite(j) ==
  /\ canc[j] = "signalled" /\ lock = NoJob
  /\ WriteRow(j, "cancelled")
  /\ canc' = [canc EXCEPT ![j] = "idle"]
  /\ UNCHANGED <<lock, sub, victim, pool, flags, home, process>>

\* 500 "database is locked": the signal stays, the row is not written.
CancelTimeout(j) ==
  /\ BusyTimeouts /\ canc[j] = "signalled" /\ lock # NoJob
  /\ canc' = [canc EXCEPT ![j] = "idle"]
  /\ UNCHANGED <<store, lock, sub, victim, pool, flags, home, process>>

\* get_job_status copies new progress into a running row: updated_at moves.
PollRefresh(j) ==
  /\ phase = "serving" /\ row[j] = "running" /\ lock = NoJob
  /\ quiet' = quiet \ {j}
  /\ UNCHANGED <<row, handlers, pool, flags, home, process>>

\* Half an hour passes without a write to the row.
Age(j) ==
  /\ row[j] \in Active /\ j \notin quiet
  /\ quiet' = quiet \cup {j}
  /\ UNCHANGED <<row, handlers, pool, flags, home, process>>

-----------------------------------------------------------------------------
(* The worker threads of every process that still exists                    *)

\* update_job_status_sync: one UPDATE whatever the row says now; it swallows
\* its own exception, so a busy timeout loses the write.
UpdateJobStatus(j, status) ==
  \/ lock = NoJob /\ WriteRow(j, status)
  \/ BusyTimeouts /\ lock # NoJob /\ UNCHANGED store

\* Mutant: a cancelled future is started like any other.
StartsAny(j) == fut[j] \in {"queued", "cancelled"}

\* Future.set_running_or_notify_cancel.
MayStart(j) == fut[j] = "queued"

\* An idle thread takes the oldest work item; a cancelled one is discarded.
TakeJob(p) ==
  /\ p \in alive /\ queue[p] # <<>>
  /\ Cardinality(Running(p)) < MaxWorkers
  /\ LET j == Head(queue[p]) IN
       IF MayStart(j)
       THEN /\ fut' = [fut EXCEPT ![j] = "running"]
            /\ task' = [task EXCEPT ![j] = "entry"]
       ELSE UNCHANGED <<fut, task>>
  /\ queue' = [queue EXCEPT ![p] = Tail(@)]
  /\ UNCHANGED <<store, handlers, flags, home, process>>

\* The first statement of every task.
MarkRunning(j) ==
  /\ task[j] = "entry"
  /\ UpdateJobStatus(j, "running")
  /\ task' = [task EXCEPT ![j] = "working"]
  /\ UNCHANGED <<handlers, fut, queue, flags, home, process>>

\* The agent calls the inverse optimisation tool: the task function it runs
\* writes "running" on the row of the analysis first, whatever the row says.
BeginNested(j) ==
  /\ task[j] = "working" /\ j \in Nesting
  /\ UpdateJobStatus(j, "running")
  /\ task' = [task EXCEPT ![j] = "nested"]
  /\ UNCHANGED <<handlers, fut, queue, flags, home, process>>

\* It writes its own end on that row; an exception becomes an error of the
\* tool, and in either case the agent goes on.
EndNested(j) ==
  /\ task[j] = "nested"
  /\ \E status \in {"completed", "failed"} : UpdateJobStatus(j, status)
  /\ task' = [task EXCEPT ![j] = "working"]
  /\ UNCHANGED <<handlers, fut, queue, flags, home, process>>

\* token.check() raises InterruptedError and it reaches the task's handler.
NoticeCancel(j) ==
  /\ task[j] = "working" /\ Flagged(j)
  /\ task' = [task EXCEPT ![j] = "interrupted"]
  /\ UNCHANGED <<store, handlers, fut, queue, flags, home, process>>

\* Mutant: the last check is gone.
ChecksNothing(j) == TRUE

\* The other tasks have no check, or swallow what it raises (optuna's catch).
PassesCheck(j) == j \in Cooperative => ~Flagged(j)

\* The last token.check() of the task; nothing asks for the flag after it.
LastCheck(j) ==
  /\ task[j] = "working" /\ PassesCheck(j)
  /\ task' = [task EXCEPT ![j] = "saving"]
  /\ UNCHANGED <<store, handlers, fut, queue, flags, home, process>>

TaskRaises(j) ==
  /\ task[j] \in {"working", "saving"}
  /\ task' = [task EXCEPT ![j] = "failing"]
  /\ UNCHANGED <<store, handlers, fut, queue, flags, home, process>>

\* Mutant: a status outside the JobStatus enum.
OutcomeError(j) ==
  CASE task[j] = "saving" -> "completed"
    [] task[j] = "interrupted" -> "cancelled"
    [] OTHER -> "error"

Outcome(j) ==
  CASE task[j] = "saving" -> "completed"
    [] task[j] = "interrupted" -> "cancelled"
    [] OTHER -> "failed"

\* The final status write, clear_cancellation on the InterruptedError path
\* only, and the return that lets the thread go.
EndTask(j) ==
  /\ task[j] \in {"saving", "interrupted", "failing"}
  /\ UpdateJobStatus(j, Outcome(j))
  /\ task' = [task EXCEPT ![j] = "none"]
  /\ fut' = [fut EXCEPT ![j] = "done"]
  /\ flags' = [flags EXCEPT ![home[j]] =
                 IF task[j] = "interrupted" THEN @ \ {j} ELSE @]
  /\ UNCHANGED <<handlers, queue, home, process>>

-----------------------------------------------------------------------------
(* The process                                                              *)

InFlight == {j \in Job : sub[j] \notin {"idle", "over"} \/ canc[j] # "idle"}

\* SIGTERM: uvicorn lets requests finish, then lifespan calls
\* shutdown(wait=False).  Queued tasks are kept and the threads go on.
Stop ==
  /\ Lingering /\ phase = "serving" /\ InFlight = {} /\ cur < MaxProcess
  /\ phase' = "stopped"
  /\ UNCHANGED <<store, handlers, pool, flags, home, cur, alive, doomed>>

\* The interpreter joins its worker threads, then exits.
Exit(p) ==
  /\ p \in alive /\ (p # cur \/ phase = "stopped")
  /\ queue[p] = <<>> /\ Running(p) = {}
  /\ alive' = alive \ {p}
  /\ UNCHANGED <<store, handlers, pool, flags, home, cur, phase, doomed>>

\* SIGKILL or a power cut: the tasks of p and, with the serving process, all
\* open requests and the uncommitted transaction are gone.
Crash(p) ==
  /\ p \in alive /\ (p = cur => cur < MaxProcess)
  /\ alive' = alive \ {p}
  /\ fut' = [j \in Job |-> IF home[j] = p /\ fut[j] \in {"queued", "running"}
                           THEN "lost" ELSE fut[j]]
  /\ task' = [j \in Job |-> IF home[j] = p THEN "none" ELSE task[j]]
  /\ queue' = [queue EXCEPT ![p] = <<>>]
  /\ flags' = [flags EXCEPT ![p] = {}]
  /\ IF p = cur
     THEN /\ phase' = "stopped" /\ doomed' = {} /\ lock' = NoJob
          /\ sub' = [j \in Job |-> IF sub[j] \in {"idle", "checked"} THEN "idle" ELSE "over"]
          /\ victim' = [j \in Job |-> NoJob]
          /\ canc' = [j \in Job |-> "idle"]
     ELSE UNCHANGED <<handlers, phase, doomed>>
  /\ UNCHANGED <<store, home, cur>>

\* Mutant: the cleanup looks for running rows only.
RunningRows == {j \in Job : row[j] = "running"}

StaleAtStartup == ActiveRows

\* A new process starts: _cleanup_stale_jobs_on_startup reads the active rows.
Boot ==
  /\ phase = "stopped" /\ cur < MaxProcess
  /\ cur' = cur + 1 /\ alive' = alive \cup {cur + 1}
  /\ phase' = "booting" /\ doomed' = StaleAtStartup
  /\ UNCHANGED <<store, handlers, pool, flags, home>>

\* Mutant: the cleanup puts what it read back to pending.
Requeued == [j \in Job |-> IF j \in doomed THEN "pending" ELSE row[j]]

Cleaned == [j \in Job |-> IF j \in doomed THEN "failed" ELSE row[j]]

\* It fails what it read, in one commit, and the server takes requests.
CleanupStaleJobs ==
  /\ phase = "booting"
  /\ row' = Cleaned
  /\ quiet' = quiet \ doomed
  /\ phase' = "serving" /\ doomed' = {}
  /\ UNCHANGED <<handlers, pool, flags, home, cur, alive>>

-----------------------------------------------------------------------------
Submit(j) ==
  \/ CheckNoActiveJob(j) \/ RejectSubmit(j) \/ InsertJobRun(j)
  \/ EnqueueJob(j) \/ EnqueueRaises(j) \/ CommitSubmit(j) \/ RollbackSubmit(j)

CancelOrPoll(j) ==
  \/ CancelRead(j) \/ CancelSignal(j) \/ CancelWrite(j) \/ CancelTimeout(j)
  \/ PollRefresh(j) \/ Age(j)

Work(j) ==
  \/ MarkRunning(j) \/ BeginNested(j) \/ EndNested(j)
  \/ NoticeCancel(j) \/ LastCheck(j) \/ TaskRaises(j) \/ EndTask(j)

Restart == Stop \/ Boot \/ CleanupStaleJobs \/ \E p \in Process : Exit(p) \/ Crash(p)

Next ==
  \/ \E j \in Job : Submit(j) \/ CancelOrPoll(j) \/ Work(j)
  \/ \E p \in Process : TakeJob(p)
  \/ Restart

Spec == Init /\ [][Next]_vars

\* Handlers that started finish, threads take work and tasks come to an end,
\* and a stopped server is started again.  The steps of an agent are bounded,
\* so that it does not nest searches for ever (SF).  No client, no failure and
\* no crash is owed.
Fairness ==
  /\ \A j \in Job :
       /\ WF_vars(EnqueueJob(j)) /\ WF_vars(CommitSubmit(j))
       /\ WF_vars(CancelSignal(j)) /\ WF_vars(CancelWrite(j))
       /\ WF_vars(MarkRunning(j)) /\ WF_vars(EndNested(j))
       /\ SF_vars(NoticeCancel(j) \/ LastCheck(j))
       /\ WF_vars(EndTask(j))
  /\ \A p \in Process : WF_vars(TakeJob(p))
  /\ WF_vars(Boot) /\ WF_vars(CleanupStaleJobs)

FairSpec == Spec /\ Fairness

-----------------------------------------------------------------------------
(* Properties                                                               *)

\* While no status write is lost, a row that says pending or running in the
\* process that created it has a task behind it, or a cancel request about
\* to write it: EnqueueJob before CommitSubmit, EndTask before the future is
\* done and CancelSignal before CancelWrite never strand a row.
ActiveRowHasOwner ==
  ~BusyTimeouts /\ phase = "serving" =>
    \A j \in ActiveRows :
      RouteOf[j] # "placeholder" /\ home[j] = cur =>
        \/ fut[j] \in {"queued", "running"}
        \/ fut[j] = "cancelled" /\ canc[j] = "signalled"

\* A future that cancel_job withdrew from the queue never starts and its row
\* is never reported running or completed, whatever handlers, sweeps and
\* restarts come between the withdrawal and the row's last write.
WithdrawnNeverRuns ==
  [][\A j \in Job : fut[j] = "cancelled" =>
       fut'[j] = "cancelled" /\ row'[j] \notin {"running", "completed"}]_vars

\* The cancel flag is up while the task has a token.check() ahead of it.
ToldInTime(j) ==
  Flagged(j) /\ (fut[j] = "queued" \/ task[j] \in {"entry", "working"})

CancelHeard(j) == [](ToldInTime(j) => [](row[j] # "completed"))

\* A cancel flag raised before a cooperative task's last token.check() keeps
\* the row from ever being completed (until then it may fail or be lost).
EarlyCancelPreventsCompletion == \A j \in Cooperative : CancelHeard(j)

\* When a killed server serves again, no row is left pending or running by an
\* earlier process: the startup cleanup covers every request and task that
\* died, and rolled-back submissions leave nothing to clean.
RestartLeavesNoOrphan ==
  phase = "serving" => \A j \in ActiveRows : home[j] = cur

\* A row leaves a final status only because its own task, still executing,
\* reports that it has begun, or that a search nested in it has: whatever
\* cancels, sweeps and restarts have made of the row before.
OnlyOwnTaskReopens ==
  [][\A j \in Job : row[j] \in Terminal /\ row'[j] \notin Terminal =>
       /\ row'[j] = "running"
       /\ task[j] = "entry" \/ (task[j] = "working" /\ j \in Nesting)]_vars

\* The endpoints that guard with check_no_active_job are meant to leave a
\* session with one pending or running job at most.
OneActivePerSession ==
  \A s \in Session : Cardinality(SessionActive(s)) <= 1

\* A job the API has accepted comes to an end: threads take the work, tasks
\* end, and a restart fails what a dead process left behind.  Rows that are
\* never enqueued wait for a cancel, a stale sweep or a restart.  The end is a
\* final row without a task that could still move it.
AcceptedJobEnds ==
  \A j \in Job :
    (row[j] = "pending" /\ RouteOf[j] # "placeholder") ~>
      row[j] \in Terminal /\ fut[j] \notin {"queued", "running"}

-----------------------------------------------------------------------------
(* Refinement                                                               *)

\* What has become of a job's task, in the contract's words.
taskStage ==
  [j \in Job |-> CASE fut[j] = "none" -> "unsent"
                   [] fut[j] = "queued" -> "waiting"
                   [] fut[j] = "running" -> "executing"
                   [] OTHER -> "over"]

Contract == INSTANCE JobContract WITH stage <- taskStage

\* Every step of handlers, workers and restarts is a step the contract allows:
\* a task runs once, and only a job's own task, while it executes, completes
\* its row: by its end, or in an analysis also by the end of a nested search.
ImplementsContract == Contract!Spec
=============================================================================

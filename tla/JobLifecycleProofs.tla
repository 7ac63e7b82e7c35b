-------------------------- MODULE JobLifecycleProofs --------------------------
(* Theorems about JobLifecycle for every value of its constants.            *)
EXTENDS JobLifecycle, TLAPS

(***************************************************************************)
(* The inductive invariant.  HandlerInv ties a submission to the write lock, *)
(* the process and the row it has not committed yet; FutureInv ties the      *)
(* future to the task function and to what the row can say before the task   *)
(* has begun, and while it runs without a nested one; ProcessInv orders the incarnations of the server; OwnerInv is   *)
(* ActiveRowHasOwner with the two facts about open handlers it rests on;      *)
(* OrphanInv says that a killed server leaves no live task behind.           *)
(***************************************************************************)
HandlerInv ==
  \A j \in Job :
    /\ row[j] # "absent" => sub[j] = "over"
    /\ canc[j] # "idle" => row[j] # "absent"
    /\ lock = j =>
         /\ sub[j] \in {"inserted", "enqueued", "refused"}
         /\ home[j] = cur /\ phase = "serving"
    /\ sub[j] \in {"inserted", "enqueued", "refused"} => lock = j
    /\ victim[j] # NoJob => row[victim[j]] # "absent"
    /\ j \in doomed => row[j] # "absent"

FutureInv ==
  \A j \in Job :
    /\ sub[j] \in {"idle", "checked", "inserted"} => fut[j] = "none"
    /\ task[j] # "none" => fut[j] = "running"
    /\ fut[j] \in {"none", "queued", "cancelled"} => row[j] \notin {"running", "completed"}
    /\ fut[j] = "running" /\ row[j] = "completed" => j \in Nesting
    /\ task[j] = "nested" => j \in Nesting
    /\ canc[j] = "saw_running" => fut[j] \in {"running", "done", "lost"}

ProcessInv ==
  \A j \in Job : home[j] <= cur /\ (phase = "booting" => home[j] < cur)

OwnerInv ==
  /\ ActiveRowHasOwner
  /\ ~BusyTimeouts =>
       \A j \in Job : lock = j /\ sub[j] = "enqueued" => fut[j] \in {"queued", "running"}

OrphanInv ==
  ~Lingering =>
    /\ RestartLeavesNoOrphan
    /\ phase = "booting" => ActiveRows \subseteq doomed
    /\ \A j \in Job :
         fut[j] \in {"queued", "running"} => home[j] = cur /\ phase = "serving"

IInv == TypeOK /\ HandlerInv /\ FutureInv /\ ProcessInv /\ OwnerInv /\ OrphanInv

Withdrawal ==
  \A j \in Job : fut[j] = "cancelled" =>
    fut'[j] = "cancelled" /\ row'[j] \notin {"running", "completed"}

Reopening ==
  \A j \in Job : row[j] \in Terminal /\ row'[j] \notin Terminal =>
    /\ row'[j] = "running"
    /\ task[j] = "entry" \/ (task[j] = "working" /\ j \in Nesting)

\* The flag of j is up in time, or the task has taken one of the ways out
\* that do not complete the row.
Averted(j) ==
  /\ row[j] # "completed"
  /\ \/ ToldInTime(j)
     \/ fut[j] = "running" /\ task[j] \in {"interrupted", "failing"}
     \/ fut[j] \in {"done", "cancelled", "lost"}


\* Every step keeps the variables in their types.
LEMMA TypeStep == TypeOK /\ [Next]_vars => TypeOK'
<1> SUFFICES ASSUME TypeOK, [Next]_vars PROVE TypeOK'
  OBVIOUS
<1> USE BoundAssumption DEF TypeOK, vars, store, handlers, pool, process, Process, Active, Terminal,
       RowStatus, SubState, CancelState, FutState, TaskState
<1>1. ASSUME NEW j \in Job, CheckNoActiveJob(j) PROVE TypeOK'
  BY <1>1 DEF CheckNoActiveJob, SessionActive, ActiveRows
<1>2. ASSUME NEW j \in Job, RejectSubmit(j) PROVE TypeOK'
  BY <1>2 DEF RejectSubmit
<1>3. ASSUME NEW j \in Job, InsertJobRun(j) PROVE TypeOK'
  BY <1>3 DEF InsertJobRun, MayInsert
<1>4. ASSUME NEW j \in Job, EnqueueJob(j) PROVE TypeOK'
  BY <1>4 DEF EnqueueJob
<1>5. ASSUME NEW j \in Job, EnqueueRaises(j) PROVE TypeOK'
  BY <1>5 DEF EnqueueRaises
<1>6. ASSUME NEW j \in Job, CommitSubmit(j) PROVE TypeOK'
  BY <1>6 DEF CommitSubmit, Published, MayCommit
<1>7. ASSUME NEW j \in Job, RollbackSubmit(j) PROVE TypeOK'
  BY <1>7 DEF RollbackSubmit
<1>8. ASSUME NEW j \in Job, CancelRead(j) PROVE TypeOK'
  BY <1>8 DEF CancelRead
<1>9. ASSUME NEW j \in Job, CancelSignal(j) PROVE TypeOK'
  BY <1>9 DEF CancelSignal, Withdrawn, AfterSignal
<1>10. ASSUME NEW j \in Job, CancelWrite(j) PROVE TypeOK'
  BY <1>10 DEF CancelWrite, WriteRow
<1>11. ASSUME NEW j \in Job, CancelTimeout(j) PROVE TypeOK'
  BY <1>11 DEF CancelTimeout
<1>12. ASSUME NEW j \in Job, PollRefresh(j) PROVE TypeOK'
  BY <1>12 DEF PollRefresh
<1>13. ASSUME NEW j \in Job, Age(j) PROVE TypeOK'
  BY <1>13 DEF Age
<1>14. ASSUME NEW j \in Job, MarkRunning(j) PROVE TypeOK'
  BY <1>14 DEF MarkRunning, UpdateJobStatus, WriteRow
<1>15. ASSUME NEW j \in Job, NoticeCancel(j) PROVE TypeOK'
  BY <1>15 DEF NoticeCancel
<1>16. ASSUME NEW j \in Job, LastCheck(j) PROVE TypeOK'
  BY <1>16 DEF LastCheck, PassesCheck
<1>17. ASSUME NEW j \in Job, TaskRaises(j) PROVE TypeOK'
  BY <1>17 DEF TaskRaises
<1>18. ASSUME NEW j \in Job, EndTask(j) PROVE TypeOK'
  BY <1>18 DEF EndTask, UpdateJobStatus, WriteRow, Outcome
<1>19. ASSUME NEW p \in Process, TakeJob(p) PROVE TypeOK'
  <2>1. Head(queue[p]) \in Job /\ Tail(queue[p]) \in Seq(Job)
    BY <1>19 DEF TakeJob, MayStart
  <2>2. fut' \in [Job -> FutState] /\ task' \in [Job -> TaskState]
    BY <1>19, <2>1 DEF TakeJob, MayStart
  <2>3. queue' \in [Process -> Seq(Job)]
    BY <1>19, <2>1 DEF TakeJob, MayStart
  <2> QED
    BY <1>19, <2>2, <2>3 DEF TakeJob, MayStart
<1>20. ASSUME NEW p \in Process, Exit(p) PROVE TypeOK'
  BY <1>20 DEF Exit
<1>21. ASSUME NEW p \in Process, Crash(p) PROVE TypeOK'
  <2>1. fut' \in [Job -> FutState] /\ task' \in [Job -> TaskState]
    BY <1>21 DEF Crash
  <2>2. queue' \in [Process -> Seq(Job)] /\ flags' \in [Process -> SUBSET Job]
    BY <1>21 DEF Crash
  <2>3. CASE p = cur
    <3>1. sub' \in [Job -> SubState] /\ canc' \in [Job -> CancelState]
      BY <1>21, <2>3 DEF Crash
    <3>2. victim' \in [Job -> Job \cup {NoJob}] /\ lock' \in Job \cup {NoJob}
      BY <1>21, <2>3 DEF Crash
    <3> QED
      BY <1>21, <2>1, <2>2, <2>3, <3>1, <3>2 DEF Crash
  <2>4. CASE p # cur
    BY <1>21, <2>1, <2>2, <2>4 DEF Crash
  <2> QED
    BY <2>3, <2>4
<1>22. CASE Stop
  BY <1>22 DEF Stop
<1>23. CASE Boot
  BY <1>23 DEF Boot, StaleAtStartup, ActiveRows
<1>24. CASE CleanupStaleJobs
  BY <1>24 DEF CleanupStaleJobs, Cleaned
<1>25. CASE UNCHANGED vars
  BY <1>25
<1>26. ASSUME NEW j \in Job, BeginNested(j) PROVE TypeOK'
  BY <1>26 DEF BeginNested, UpdateJobStatus, WriteRow
<1>27. ASSUME NEW j \in Job, EndNested(j) PROVE TypeOK'
  <2>1. PICK status \in {"completed", "failed"} : UpdateJobStatus(j, status)
    BY <1>27 DEF EndNested
  <2>2. row' \in [Job -> RowStatus] /\ quiet' \subseteq Job
    <3>1. status \in RowStatus
      BY DEF RowStatus, Terminal
    <3>2. row' = row \/ row' = [row EXCEPT ![j] = status]
      BY <2>1 DEF UpdateJobStatus, WriteRow
    <3>3. quiet' \subseteq quiet
      BY <2>1 DEF UpdateJobStatus, WriteRow
    <3> QED
      BY <3>1, <3>2, <3>3
  <2>3. task' \in [Job -> TaskState]
    BY <1>27 DEF EndNested
  <2> QED
    BY <1>27, <2>2, <2>3 DEF EndNested
<1> QED
  BY <1>1, <1>2, <1>3, <1>4, <1>5, <1>6, <1>7, <1>8, <1>9, <1>10, <1>11,
     <1>12, <1>13, <1>14, <1>15, <1>16, <1>17, <1>18, <1>19, <1>20, <1>21,
     <1>22, <1>23, <1>24, <1>25, <1>26, <1>27 DEF Next, Submit, CancelOrPoll, Work,
     Restart

\* Submissions keep the write lock, the process and the uncommitted row to themselves.
LEMMA HandlerStep == TypeOK /\ HandlerInv /\ [Next]_vars => HandlerInv'
<1> SUFFICES ASSUME TypeOK /\ HandlerInv, [Next]_vars PROVE HandlerInv'
  OBVIOUS
<1> USE JobAssumption, NestingAssumption DEF vars, store, handlers, pool, process, TypeOK, HandlerInv
<1>1. ASSUME NEW j \in Job, CheckNoActiveJob(j) PROVE HandlerInv'
  BY <1>1 DEF CheckNoActiveJob, SessionActive, ActiveRows, Active
<1>2. ASSUME NEW j \in Job, RejectSubmit(j) PROVE HandlerInv'
  BY <1>2 DEF RejectSubmit
<1>3. ASSUME NEW j \in Job, InsertJobRun(j) PROVE HandlerInv'
  BY <1>3 DEF InsertJobRun, MayInsert
<1>4. ASSUME NEW j \in Job, EnqueueJob(j) PROVE HandlerInv'
  BY <1>4 DEF EnqueueJob
<1>5. ASSUME NEW j \in Job, EnqueueRaises(j) PROVE HandlerInv'
  BY <1>5 DEF EnqueueRaises
<1>6. ASSUME NEW j \in Job, CommitSubmit(j) PROVE HandlerInv'
  BY <1>6 DEF CommitSubmit, Published, MayCommit
<1>7. ASSUME NEW j \in Job, RollbackSubmit(j) PROVE HandlerInv'
  BY <1>7 DEF RollbackSubmit
<1>8. ASSUME NEW j \in Job, CancelRead(j) PROVE HandlerInv'
  BY <1>8 DEF CancelRead
<1>9. ASSUME NEW j \in Job, CancelSignal(j) PROVE HandlerInv'
  BY <1>9 DEF CancelSignal, Withdrawn, AfterSignal
<1>10. ASSUME NEW j \in Job, CancelWrite(j) PROVE HandlerInv'
  BY <1>10 DEF CancelWrite, WriteRow
<1>11. ASSUME NEW j \in Job, CancelTimeout(j) PROVE HandlerInv'
  BY <1>11 DEF CancelTimeout
<1>12. ASSUME NEW j \in Job, PollRefresh(j) PROVE HandlerInv'
  BY <1>12 DEF PollRefresh
<1>13. ASSUME NEW j \in Job, Age(j) PROVE HandlerInv'
  BY <1>13 DEF Age
<1>14. ASSUME NEW j \in Job, MarkRunning(j) PROVE HandlerInv'
  BY <1>14 DEF MarkRunning, UpdateJobStatus, WriteRow
<1>15. ASSUME NEW j \in Job, NoticeCancel(j) PROVE HandlerInv'
  BY <1>15 DEF NoticeCancel
<1>16. ASSUME NEW j \in Job, LastCheck(j) PROVE HandlerInv'
  BY <1>16 DEF LastCheck, PassesCheck
<1>17. ASSUME NEW j \in Job, TaskRaises(j) PROVE HandlerInv'
  BY <1>17 DEF TaskRaises
<1>18. ASSUME NEW j \in Job, EndTask(j) PROVE HandlerInv'
  BY <1>18 DEF EndTask, UpdateJobStatus, WriteRow, Outcome
<1>19. ASSUME NEW p \in Process, TakeJob(p) PROVE HandlerInv'
  BY <1>19 DEF TakeJob, MayStart
<1>20. ASSUME NEW p \in Process, Exit(p) PROVE HandlerInv'
  BY <1>20 DEF Exit
<1>21. ASSUME NEW p \in Process, Crash(p) PROVE HandlerInv'
  BY <1>21 DEF Crash
<1>22. CASE Stop
  BY <1>22 DEF Stop, InFlight
<1>23. CASE Boot
  BY <1>23 DEF Boot, StaleAtStartup, ActiveRows, Active
<1>24. CASE CleanupStaleJobs
  BY <1>24 DEF CleanupStaleJobs, Cleaned
<1>25. CASE UNCHANGED vars
  BY <1>25
<1>26. ASSUME NEW j \in Job, BeginNested(j) PROVE HandlerInv'
  BY <1>26 DEF BeginNested, UpdateJobStatus, WriteRow
<1>27. ASSUME NEW j \in Job, EndNested(j) PROVE HandlerInv'
  BY <1>27 DEF EndNested, UpdateJobStatus, WriteRow
<1> QED
  BY <1>1, <1>2, <1>3, <1>4, <1>5, <1>6, <1>7, <1>8, <1>9, <1>10, <1>11,
     <1>12, <1>13, <1>14, <1>15, <1>16, <1>17, <1>18, <1>19, <1>20, <1>21,
     <1>22, <1>23, <1>24, <1>25, <1>26, <1>27 DEF Next, Submit, CancelOrPoll, Work,
     Restart

\* The future, the task function and the row stay in step.
LEMMA FutureStep == TypeOK /\ HandlerInv /\ FutureInv /\ [Next]_vars => FutureInv'
<1> SUFFICES ASSUME TypeOK /\ HandlerInv /\ FutureInv, [Next]_vars PROVE FutureInv'
  OBVIOUS
<1> USE JobAssumption, NestingAssumption DEF vars, store, handlers, pool, process, TypeOK, HandlerInv, FutureInv
<1>1. ASSUME NEW j \in Job, CheckNoActiveJob(j) PROVE FutureInv'
  BY <1>1 DEF CheckNoActiveJob
<1>2. ASSUME NEW j \in Job, RejectSubmit(j) PROVE FutureInv'
  BY <1>2 DEF RejectSubmit
<1>3. ASSUME NEW j \in Job, InsertJobRun(j) PROVE FutureInv'
  BY <1>3 DEF InsertJobRun, MayInsert
<1>4. ASSUME NEW j \in Job, EnqueueJob(j) PROVE FutureInv'
  BY <1>4 DEF EnqueueJob
<1>5. ASSUME NEW j \in Job, EnqueueRaises(j) PROVE FutureInv'
  BY <1>5 DEF EnqueueRaises
<1>6. ASSUME NEW j \in Job, CommitSubmit(j) PROVE FutureInv'
  BY <1>6 DEF CommitSubmit, Published, MayCommit
<1>7. ASSUME NEW j \in Job, RollbackSubmit(j) PROVE FutureInv'
  BY <1>7 DEF RollbackSubmit
<1>8. ASSUME NEW j \in Job, CancelRead(j) PROVE FutureInv'
  BY <1>8 DEF CancelRead, FutState
<1>9. ASSUME NEW j \in Job, CancelSignal(j) PROVE FutureInv'
  <2>1. CASE home[j] = cur /\ fut[j] = "queued"
    <3>1. /\ fut' = [fut EXCEPT ![j] = "cancelled"]
          /\ UNCHANGED <<row, sub, task>>
          /\ canc' = [canc EXCEPT ![j] = AfterSignal(j)]
      BY <1>9, <2>1 DEF CancelSignal, Withdrawn, AfterSignal
    <3>2. canc'[j] # "saw_running" /\ task[j] = "none" /\ row[j] # "absent"
      BY <1>9, <2>1, <3>1 DEF CancelSignal, AfterSignal
    <3>3. \A k \in Job \ {j} : fut'[k] = fut[k] /\ canc'[k] = canc[k]
      BY <3>1
    <3>4. fut'[j] = "cancelled" /\ sub[j] = "over"
      BY <3>1, <3>2
    <3> QED
      BY <2>1, <3>1, <3>2, <3>3, <3>4
  <2>2. CASE ~(home[j] = cur /\ fut[j] = "queued")
    BY <1>9, <2>2 DEF CancelSignal, Withdrawn, AfterSignal
  <2> QED
    BY <2>1, <2>2
<1>10. ASSUME NEW j \in Job, CancelWrite(j) PROVE FutureInv'
  BY <1>10 DEF CancelWrite, WriteRow
<1>11. ASSUME NEW j \in Job, CancelTimeout(j) PROVE FutureInv'
  BY <1>11 DEF CancelTimeout
<1>12. ASSUME NEW j \in Job, PollRefresh(j) PROVE FutureInv'
  BY <1>12 DEF PollRefresh
<1>13. ASSUME NEW j \in Job, Age(j) PROVE FutureInv'
  BY <1>13 DEF Age
<1>14. ASSUME NEW j \in Job, MarkRunning(j) PROVE FutureInv'
  BY <1>14 DEF MarkRunning, UpdateJobStatus, WriteRow
<1>15. ASSUME NEW j \in Job, NoticeCancel(j) PROVE FutureInv'
  BY <1>15 DEF NoticeCancel
<1>16. ASSUME NEW j \in Job, LastCheck(j) PROVE FutureInv'
  BY <1>16 DEF LastCheck, PassesCheck
<1>17. ASSUME NEW j \in Job, TaskRaises(j) PROVE FutureInv'
  BY <1>17 DEF TaskRaises
<1>18. ASSUME NEW j \in Job, EndTask(j) PROVE FutureInv'
  BY <1>18 DEF EndTask, UpdateJobStatus, WriteRow, Outcome
<1>19. ASSUME NEW p \in Process, TakeJob(p) PROVE FutureInv'
  BY <1>19 DEF TakeJob, MayStart
<1>20. ASSUME NEW p \in Process, Exit(p) PROVE FutureInv'
  BY <1>20 DEF Exit
<1>21. ASSUME NEW p \in Process, Crash(p) PROVE FutureInv'
  BY <1>21 DEF Crash
<1>22. CASE Stop
  BY <1>22 DEF Stop
<1>23. CASE Boot
  BY <1>23 DEF Boot, StaleAtStartup, ActiveRows
<1>24. CASE CleanupStaleJobs
  BY <1>24 DEF CleanupStaleJobs, Cleaned
<1>25. CASE UNCHANGED vars
  BY <1>25
<1>26. ASSUME NEW j \in Job, BeginNested(j) PROVE FutureInv'
  BY <1>26 DEF BeginNested, UpdateJobStatus, WriteRow
<1>27. ASSUME NEW j \in Job, EndNested(j) PROVE FutureInv'
  BY <1>27 DEF EndNested, UpdateJobStatus, WriteRow
<1> QED
  BY <1>1, <1>2, <1>3, <1>4, <1>5, <1>6, <1>7, <1>8, <1>9, <1>10, <1>11,
     <1>12, <1>13, <1>14, <1>15, <1>16, <1>17, <1>18, <1>19, <1>20, <1>21,
     <1>22, <1>23, <1>24, <1>25, <1>26, <1>27 DEF Next, Submit, CancelOrPoll, Work,
     Restart

\* Incarnations only count up.
LEMMA ProcessStep == TypeOK /\ HandlerInv /\ ProcessInv /\ [Next]_vars => ProcessInv'
<1> SUFFICES ASSUME TypeOK /\ HandlerInv /\ ProcessInv, [Next]_vars PROVE ProcessInv'
  OBVIOUS
<1> USE BoundAssumption DEF vars, store, handlers, pool, process, TypeOK, HandlerInv, ProcessInv, Process
<1>1. ASSUME NEW j \in Job, CheckNoActiveJob(j) PROVE ProcessInv'
  BY <1>1 DEF CheckNoActiveJob
<1>2. ASSUME NEW j \in Job, RejectSubmit(j) PROVE ProcessInv'
  BY <1>2 DEF RejectSubmit
<1>3. ASSUME NEW j \in Job, InsertJobRun(j) PROVE ProcessInv'
  BY <1>3 DEF InsertJobRun, MayInsert
<1>4. ASSUME NEW j \in Job, EnqueueJob(j) PROVE ProcessInv'
  BY <1>4 DEF EnqueueJob
<1>5. ASSUME NEW j \in Job, EnqueueRaises(j) PROVE ProcessInv'
  BY <1>5 DEF EnqueueRaises
<1>6. ASSUME NEW j \in Job, CommitSubmit(j) PROVE ProcessInv'
  BY <1>6 DEF CommitSubmit, Published, MayCommit
<1>7. ASSUME NEW j \in Job, RollbackSubmit(j) PROVE ProcessInv'
  BY <1>7 DEF RollbackSubmit
<1>8. ASSUME NEW j \in Job, CancelRead(j) PROVE ProcessInv'
  BY <1>8 DEF CancelRead
<1>9. ASSUME NEW j \in Job, CancelSignal(j) PROVE ProcessInv'
  BY <1>9 DEF CancelSignal, Withdrawn, AfterSignal
<1>10. ASSUME NEW j \in Job, CancelWrite(j) PROVE ProcessInv'
  BY <1>10 DEF CancelWrite, WriteRow
<1>11. ASSUME NEW j \in Job, CancelTimeout(j) PROVE ProcessInv'
  BY <1>11 DEF CancelTimeout
<1>12. ASSUME NEW j \in Job, PollRefresh(j) PROVE ProcessInv'
  BY <1>12 DEF PollRefresh
<1>13. ASSUME NEW j \in Job, Age(j) PROVE ProcessInv'
  BY <1>13 DEF Age
<1>14. ASSUME NEW j \in Job, MarkRunning(j) PROVE ProcessInv'
  BY <1>14 DEF MarkRunning, UpdateJobStatus, WriteRow
<1>15. ASSUME NEW j \in Job, NoticeCancel(j) PROVE ProcessInv'
  BY <1>15 DEF NoticeCancel
<1>16. ASSUME NEW j \in Job, LastCheck(j) PROVE ProcessInv'
  BY <1>16 DEF LastCheck, PassesCheck
<1>17. ASSUME NEW j \in Job, TaskRaises(j) PROVE ProcessInv'
  BY <1>17 DEF TaskRaises
<1>18. ASSUME NEW j \in Job, EndTask(j) PROVE ProcessInv'
  BY <1>18 DEF EndTask, UpdateJobStatus, WriteRow, Outcome
<1>19. ASSUME NEW p \in Process, TakeJob(p) PROVE ProcessInv'
  BY <1>19 DEF TakeJob, MayStart
<1>20. ASSUME NEW p \in Process, Exit(p) PROVE ProcessInv'
  BY <1>20 DEF Exit
<1>21. ASSUME NEW p \in Process, Crash(p) PROVE ProcessInv'
  BY <1>21 DEF Crash
<1>22. CASE Stop
  BY <1>22 DEF Stop
<1>23. CASE Boot
  BY <1>23 DEF Boot, StaleAtStartup, ActiveRows
<1>24. CASE CleanupStaleJobs
  BY <1>24 DEF CleanupStaleJobs, Cleaned
<1>25. CASE UNCHANGED vars
  BY <1>25
<1>26. ASSUME NEW j \in Job, BeginNested(j) PROVE ProcessInv'
  BY <1>26 DEF BeginNested, UpdateJobStatus, WriteRow
<1>27. ASSUME NEW j \in Job, EndNested(j) PROVE ProcessInv'
  BY <1>27 DEF EndNested, UpdateJobStatus, WriteRow
<1> QED
  BY <1>1, <1>2, <1>3, <1>4, <1>5, <1>6, <1>7, <1>8, <1>9, <1>10, <1>11,
     <1>12, <1>13, <1>14, <1>15, <1>16, <1>17, <1>18, <1>19, <1>20, <1>21,
     <1>22, <1>23, <1>24, <1>25, <1>26, <1>27 DEF Next, Submit, CancelOrPoll, Work,
     Restart

\* No step strands a pending or running row.
LEMMA OwnerStep == TypeOK /\ HandlerInv /\ FutureInv /\ ProcessInv /\ OwnerInv /\ [Next]_vars => OwnerInv'
<1> SUFFICES ASSUME TypeOK /\ HandlerInv /\ FutureInv /\ ProcessInv /\ OwnerInv, [Next]_vars PROVE OwnerInv'
  OBVIOUS
<1> USE JobAssumption, BoundAssumption DEF vars, store, handlers, pool, process, TypeOK, HandlerInv, FutureInv, ProcessInv, OwnerInv,
       ActiveRowHasOwner, ActiveRows, Active
<1>1. ASSUME NEW j \in Job, CheckNoActiveJob(j) PROVE OwnerInv'
  BY <1>1 DEF CheckNoActiveJob
<1>2. ASSUME NEW j \in Job, RejectSubmit(j) PROVE OwnerInv'
  BY <1>2 DEF RejectSubmit
<1>3. ASSUME NEW j \in Job, InsertJobRun(j) PROVE OwnerInv'
  BY <1>3 DEF InsertJobRun, MayInsert
<1>4. ASSUME NEW j \in Job, EnqueueJob(j) PROVE OwnerInv'
  BY <1>4 DEF EnqueueJob
<1>5. ASSUME NEW j \in Job, EnqueueRaises(j) PROVE OwnerInv'
  BY <1>5 DEF EnqueueRaises
<1>6. ASSUME NEW j \in Job, CommitSubmit(j) PROVE OwnerInv'
  BY <1>6 DEF CommitSubmit, Published, MayCommit
<1>7. ASSUME NEW j \in Job, RollbackSubmit(j) PROVE OwnerInv'
  BY <1>7 DEF RollbackSubmit
<1>8. ASSUME NEW j \in Job, CancelRead(j) PROVE OwnerInv'
  BY <1>8 DEF CancelRead
<1>9. ASSUME NEW j \in Job, CancelSignal(j) PROVE OwnerInv'
  BY <1>9 DEF CancelSignal, Withdrawn, AfterSignal
<1>10. ASSUME NEW j \in Job, CancelWrite(j) PROVE OwnerInv'
  BY <1>10 DEF CancelWrite, WriteRow
<1>11. ASSUME NEW j \in Job, CancelTimeout(j) PROVE OwnerInv'
  BY <1>11 DEF CancelTimeout
<1>12. ASSUME NEW j \in Job, PollRefresh(j) PROVE OwnerInv'
  BY <1>12 DEF PollRefresh
<1>13. ASSUME NEW j \in Job, Age(j) PROVE OwnerInv'
  BY <1>13 DEF Age
<1>14. ASSUME NEW j \in Job, MarkRunning(j) PROVE OwnerInv'
  BY <1>14 DEF MarkRunning, UpdateJobStatus, WriteRow
<1>15. ASSUME NEW j \in Job, NoticeCancel(j) PROVE OwnerInv'
  BY <1>15 DEF NoticeCancel
<1>16. ASSUME NEW j \in Job, LastCheck(j) PROVE OwnerInv'
  BY <1>16 DEF LastCheck, PassesCheck
<1>17. ASSUME NEW j \in Job, TaskRaises(j) PROVE OwnerInv'
  BY <1>17 DEF TaskRaises
<1>18. ASSUME NEW j \in Job, EndTask(j) PROVE OwnerInv'
  BY <1>18 DEF EndTask, UpdateJobStatus, WriteRow, Outcome
<1>19. ASSUME NEW p \in Process, TakeJob(p) PROVE OwnerInv'
  <2>1. PICK k \in Job : k = Head(queue[p])
    BY <1>19 DEF TakeJob, MayStart
  <2>2. \/ fut' = fut
        \/ fut[k] = "queued" /\ fut' = [fut EXCEPT ![k] = "running"]
    BY <1>19, <2>1 DEF TakeJob, MayStart
  <2>3. UNCHANGED <<row, lock, sub, canc, home, cur, phase>>
    BY <1>19 DEF TakeJob, MayStart
  <2> QED
    BY <2>2, <2>3
<1>20. ASSUME NEW p \in Process, Exit(p) PROVE OwnerInv'
  BY <1>20 DEF Exit
<1>21. ASSUME NEW p \in Process, Crash(p) PROVE OwnerInv'
  BY <1>21 DEF Crash
<1>22. CASE Stop
  BY <1>22 DEF Stop
<1>23. CASE Boot
  BY <1>23 DEF Boot, StaleAtStartup, ActiveRows
<1>24. CASE CleanupStaleJobs
  BY <1>24 DEF CleanupStaleJobs, Cleaned, Process
<1>25. CASE UNCHANGED vars
  BY <1>25
<1>26. ASSUME NEW j \in Job, BeginNested(j) PROVE OwnerInv'
  BY <1>26 DEF BeginNested, UpdateJobStatus, WriteRow
<1>27. ASSUME NEW j \in Job, EndNested(j) PROVE OwnerInv'
  BY <1>27 DEF EndNested, UpdateJobStatus, WriteRow
<1> QED
  BY <1>1, <1>2, <1>3, <1>4, <1>5, <1>6, <1>7, <1>8, <1>9, <1>10, <1>11,
     <1>12, <1>13, <1>14, <1>15, <1>16, <1>17, <1>18, <1>19, <1>20, <1>21,
     <1>22, <1>23, <1>24, <1>25, <1>26, <1>27 DEF Next, Submit, CancelOrPoll, Work,
     Restart

\* No killed server leaves a task or an open row to the next.
LEMMA OrphanStep == TypeOK /\ HandlerInv /\ FutureInv /\ ProcessInv /\ OrphanInv /\ [Next]_vars => OrphanInv'
<1> SUFFICES ASSUME TypeOK /\ HandlerInv /\ FutureInv /\ ProcessInv /\ OrphanInv, [Next]_vars PROVE OrphanInv'
  OBVIOUS
<1> USE JobAssumption, NestingAssumption DEF vars, store, handlers, pool, process, TypeOK, HandlerInv, FutureInv, ProcessInv, OrphanInv,
       RestartLeavesNoOrphan, ActiveRows, Active
<1>1. ASSUME NEW j \in Job, CheckNoActiveJob(j) PROVE OrphanInv'
  BY <1>1 DEF CheckNoActiveJob
<1>2. ASSUME NEW j \in Job, RejectSubmit(j) PROVE OrphanInv'
  BY <1>2 DEF RejectSubmit
<1>3. ASSUME NEW j \in Job, InsertJobRun(j) PROVE OrphanInv'
  BY <1>3 DEF InsertJobRun, MayInsert
<1>4. ASSUME NEW j \in Job, EnqueueJob(j) PROVE OrphanInv'
  BY <1>4 DEF EnqueueJob
<1>5. ASSUME NEW j \in Job, EnqueueRaises(j) PROVE OrphanInv'
  BY <1>5 DEF EnqueueRaises
<1>6. ASSUME NEW j \in Job, CommitSubmit(j) PROVE OrphanInv'
  BY <1>6 DEF CommitSubmit, Published, MayCommit
<1>7. ASSUME NEW j \in Job, RollbackSubmit(j) PROVE OrphanInv'
  BY <1>7 DEF RollbackSubmit
<1>8. ASSUME NEW j \in Job, CancelRead(j) PROVE OrphanInv'
  BY <1>8 DEF CancelRead
<1>9. ASSUME NEW j \in Job, CancelSignal(j) PROVE OrphanInv'
  BY <1>9 DEF CancelSignal, Withdrawn, AfterSignal
<1>10. ASSUME NEW j \in Job, CancelWrite(j) PROVE OrphanInv'
  BY <1>10 DEF CancelWrite, WriteRow
<1>11. ASSUME NEW j \in Job, CancelTimeout(j) PROVE OrphanInv'
  BY <1>11 DEF CancelTimeout
<1>12. ASSUME NEW j \in Job, PollRefresh(j) PROVE OrphanInv'
  BY <1>12 DEF PollRefresh
<1>13. ASSUME NEW j \in Job, Age(j) PROVE OrphanInv'
  BY <1>13 DEF Age
<1>14. ASSUME NEW j \in Job, MarkRunning(j) PROVE OrphanInv'
  BY <1>14 DEF MarkRunning, UpdateJobStatus, WriteRow
<1>15. ASSUME NEW j \in Job, NoticeCancel(j) PROVE OrphanInv'
  BY <1>15 DEF NoticeCancel
<1>16. ASSUME NEW j \in Job, LastCheck(j) PROVE OrphanInv'
  BY <1>16 DEF LastCheck, PassesCheck
<1>17. ASSUME NEW j \in Job, TaskRaises(j) PROVE OrphanInv'
  BY <1>17 DEF TaskRaises
<1>18. ASSUME NEW j \in Job, EndTask(j) PROVE OrphanInv'
  BY <1>18 DEF EndTask, UpdateJobStatus, WriteRow, Outcome
<1>19. ASSUME NEW p \in Process, TakeJob(p) PROVE OrphanInv'
  BY <1>19 DEF TakeJob, MayStart
<1>20. ASSUME NEW p \in Process, Exit(p) PROVE OrphanInv'
  BY <1>20 DEF Exit
<1>21. ASSUME NEW p \in Process, Crash(p) PROVE OrphanInv'
  BY <1>21 DEF Crash
<1>22. CASE Stop
  BY <1>22 DEF Stop
<1>23. CASE Boot
  BY <1>23 DEF Boot, StaleAtStartup, ActiveRows
<1>24. CASE CleanupStaleJobs
  BY <1>24 DEF CleanupStaleJobs, Cleaned
<1>25. CASE UNCHANGED vars
  BY <1>25
<1>26. ASSUME NEW j \in Job, BeginNested(j) PROVE OrphanInv'
  BY <1>26 DEF BeginNested, UpdateJobStatus, WriteRow
<1>27. ASSUME NEW j \in Job, EndNested(j) PROVE OrphanInv'
  BY <1>27 DEF EndNested, UpdateJobStatus, WriteRow
<1> QED
  BY <1>1, <1>2, <1>3, <1>4, <1>5, <1>6, <1>7, <1>8, <1>9, <1>10, <1>11,
     <1>12, <1>13, <1>14, <1>15, <1>16, <1>17, <1>18, <1>19, <1>20, <1>21,
     <1>22, <1>23, <1>24, <1>25, <1>26, <1>27 DEF Next, Submit, CancelOrPoll, Work,
     Restart

\* The initial state satisfies every part of the invariant.
LEMMA InvInit == Init => IInv
<1> SUFFICES ASSUME Init PROVE IInv
  OBVIOUS
<1> USE JobAssumption, BoundAssumption DEF Init, Active, ActiveRows
<1>1. TypeOK
  BY DEF TypeOK, Process, RowStatus, Terminal, SubState, CancelState, FutState, TaskState
<1>2. HandlerInv /\ FutureInv /\ ProcessInv
  BY DEF HandlerInv, FutureInv, ProcessInv
<1>3. OwnerInv /\ OrphanInv
  BY DEF OwnerInv, OrphanInv, ActiveRowHasOwner, RestartLeavesNoOrphan
<1> QED
  BY <1>1, <1>2, <1>3 DEF IInv

\* Every step of handlers, workers and restarts preserves the whole invariant.
LEMMA InvStep == IInv /\ [Next]_vars => IInv'
  BY TypeStep, HandlerStep, FutureStep, ProcessStep, OwnerStep, OrphanStep DEF IInv

\* The inductive invariant holds in every reachable state.
THEOREM InvariantHolds == Spec => []IInv
  BY InvInit, InvStep, PTL DEF Spec

\* TypeOK: the variables keep their types.
THEOREM TypeCorrect == Spec => []TypeOK
<1>1. IInv => TypeOK
  BY DEF IInv
<1> QED
  BY <1>1, InvariantHolds, PTL

\* ActiveRowHasOwner: while no status write is lost, a pending or running row
\* has a task, or a cancel request about to write it, behind it.
THEOREM NoRowIsStranded == Spec => []ActiveRowHasOwner
<1>1. IInv => ActiveRowHasOwner
  BY DEF IInv, OwnerInv
<1> QED
  BY <1>1, InvariantHolds, PTL

\* RestartLeavesNoOrphan, for servers that are killed and never linger.
THEOREM KilledServerLeavesNoOrphan ==
  ASSUME ~Lingering PROVE Spec => []RestartLeavesNoOrphan
<1>1. IInv => RestartLeavesNoOrphan
  BY DEF IInv, OrphanInv
<1> QED
  BY <1>1, InvariantHolds, PTL

\* Withdrawal is WithdrawnNeverRuns for one step.
LEMMA WithdrawnStep == IInv /\ [Next]_vars => Withdrawal
<1> SUFFICES ASSUME IInv, [Next]_vars PROVE Withdrawal
  OBVIOUS
<1> USE JobAssumption, NestingAssumption DEF vars, store, handlers, pool, process, IInv, TypeOK, HandlerInv, FutureInv, Withdrawal
<1>1. ASSUME NEW j \in Job, CheckNoActiveJob(j) PROVE Withdrawal
  BY <1>1 DEF CheckNoActiveJob
<1>2. ASSUME NEW j \in Job, RejectSubmit(j) PROVE Withdrawal
  BY <1>2 DEF RejectSubmit
<1>3. ASSUME NEW j \in Job, InsertJobRun(j) PROVE Withdrawal
  BY <1>3 DEF InsertJobRun, MayInsert
<1>4. ASSUME NEW j \in Job, EnqueueJob(j) PROVE Withdrawal
  BY <1>4 DEF EnqueueJob
<1>5. ASSUME NEW j \in Job, EnqueueRaises(j) PROVE Withdrawal
  BY <1>5 DEF EnqueueRaises
<1>6. ASSUME NEW j \in Job, CommitSubmit(j) PROVE Withdrawal
  BY <1>6 DEF CommitSubmit, Published, MayCommit
<1>7. ASSUME NEW j \in Job, RollbackSubmit(j) PROVE Withdrawal
  BY <1>7 DEF RollbackSubmit
<1>8. ASSUME NEW j \in Job, CancelRead(j) PROVE Withdrawal
  BY <1>8 DEF CancelRead
<1>9. ASSUME NEW j \in Job, CancelSignal(j) PROVE Withdrawal
  BY <1>9 DEF CancelSignal, Withdrawn, AfterSignal
<1>10. ASSUME NEW j \in Job, CancelWrite(j) PROVE Withdrawal
  BY <1>10 DEF CancelWrite, WriteRow
<1>11. ASSUME NEW j \in Job, CancelTimeout(j) PROVE Withdrawal
  BY <1>11 DEF CancelTimeout
<1>12. ASSUME NEW j \in Job, PollRefresh(j) PROVE Withdrawal
  BY <1>12 DEF PollRefresh
<1>13. ASSUME NEW j \in Job, Age(j) PROVE Withdrawal
  BY <1>13 DEF Age
<1>14. ASSUME NEW j \in Job, MarkRunning(j) PROVE Withdrawal
  BY <1>14 DEF MarkRunning, UpdateJobStatus, WriteRow
<1>15. ASSUME NEW j \in Job, NoticeCancel(j) PROVE Withdrawal
  BY <1>15 DEF NoticeCancel
<1>16. ASSUME NEW j \in Job, LastCheck(j) PROVE Withdrawal
  BY <1>16 DEF LastCheck, PassesCheck
<1>17. ASSUME NEW j \in Job, TaskRaises(j) PROVE Withdrawal
  BY <1>17 DEF TaskRaises
<1>18. ASSUME NEW j \in Job, EndTask(j) PROVE Withdrawal
  BY <1>18 DEF EndTask, UpdateJobStatus, WriteRow, Outcome
<1>19. ASSUME NEW p \in Process, TakeJob(p) PROVE Withdrawal
  BY <1>19 DEF TakeJob, MayStart
<1>20. ASSUME NEW p \in Process, Exit(p) PROVE Withdrawal
  BY <1>20 DEF Exit
<1>21. ASSUME NEW p \in Process, Crash(p) PROVE Withdrawal
  BY <1>21 DEF Crash
<1>22. CASE Stop
  BY <1>22 DEF Stop
<1>23. CASE Boot
  BY <1>23 DEF Boot, StaleAtStartup, ActiveRows
<1>24. CASE CleanupStaleJobs
  BY <1>24 DEF CleanupStaleJobs, Cleaned
<1>25. CASE UNCHANGED vars
  BY <1>25
<1>26. ASSUME NEW j \in Job, BeginNested(j) PROVE Withdrawal
  BY <1>26 DEF BeginNested, UpdateJobStatus, WriteRow
<1>27. ASSUME NEW j \in Job, EndNested(j) PROVE Withdrawal
  BY <1>27 DEF EndNested, UpdateJobStatus, WriteRow
<1> QED
  BY <1>1, <1>2, <1>3, <1>4, <1>5, <1>6, <1>7, <1>8, <1>9, <1>10, <1>11,
     <1>12, <1>13, <1>14, <1>15, <1>16, <1>17, <1>18, <1>19, <1>20, <1>21,
     <1>22, <1>23, <1>24, <1>25, <1>26, <1>27 DEF Next, Submit, CancelOrPoll, Work,
     Restart

\* Reopening is OnlyOwnTaskReopens for one step.
LEMMA ReopenStep == IInv /\ [Next]_vars => Reopening
<1> SUFFICES ASSUME IInv, [Next]_vars PROVE Reopening
  OBVIOUS
<1> USE JobAssumption, NestingAssumption DEF vars, store, handlers, pool, process, IInv, TypeOK, HandlerInv, Reopening, Terminal
<1>1. ASSUME NEW j \in Job, CheckNoActiveJob(j) PROVE Reopening
  BY <1>1 DEF CheckNoActiveJob
<1>2. ASSUME NEW j \in Job, RejectSubmit(j) PROVE Reopening
  BY <1>2 DEF RejectSubmit
<1>3. ASSUME NEW j \in Job, InsertJobRun(j) PROVE Reopening
  BY <1>3 DEF InsertJobRun, MayInsert
<1>4. ASSUME NEW j \in Job, EnqueueJob(j) PROVE Reopening
  BY <1>4 DEF EnqueueJob
<1>5. ASSUME NEW j \in Job, EnqueueRaises(j) PROVE Reopening
  BY <1>5 DEF EnqueueRaises
<1>6. ASSUME NEW j \in Job, CommitSubmit(j) PROVE Reopening
  BY <1>6 DEF CommitSubmit, Published, MayCommit
<1>7. ASSUME NEW j \in Job, RollbackSubmit(j) PROVE Reopening
  BY <1>7 DEF RollbackSubmit
<1>8. ASSUME NEW j \in Job, CancelRead(j) PROVE Reopening
  BY <1>8 DEF CancelRead
<1>9. ASSUME NEW j \in Job, CancelSignal(j) PROVE Reopening
  BY <1>9 DEF CancelSignal, Withdrawn, AfterSignal
<1>10. ASSUME NEW j \in Job, CancelWrite(j) PROVE Reopening
  BY <1>10 DEF CancelWrite, WriteRow
<1>11. ASSUME NEW j \in Job, CancelTimeout(j) PROVE Reopening
  BY <1>11 DEF CancelTimeout
<1>12. ASSUME NEW j \in Job, PollRefresh(j) PROVE Reopening
  BY <1>12 DEF PollRefresh
<1>13. ASSUME NEW j \in Job, Age(j) PROVE Reopening
  BY <1>13 DEF Age
<1>14. ASSUME NEW j \in Job, MarkRunning(j) PROVE Reopening
  BY <1>14 DEF MarkRunning, UpdateJobStatus, WriteRow
<1>15. ASSUME NEW j \in Job, NoticeCancel(j) PROVE Reopening
  BY <1>15 DEF NoticeCancel
<1>16. ASSUME NEW j \in Job, LastCheck(j) PROVE Reopening
  BY <1>16 DEF LastCheck, PassesCheck
<1>17. ASSUME NEW j \in Job, TaskRaises(j) PROVE Reopening
  BY <1>17 DEF TaskRaises
<1>18. ASSUME NEW j \in Job, EndTask(j) PROVE Reopening
  BY <1>18 DEF EndTask, UpdateJobStatus, WriteRow, Outcome
<1>19. ASSUME NEW p \in Process, TakeJob(p) PROVE Reopening
  BY <1>19 DEF TakeJob, MayStart
<1>20. ASSUME NEW p \in Process, Exit(p) PROVE Reopening
  BY <1>20 DEF Exit
<1>21. ASSUME NEW p \in Process, Crash(p) PROVE Reopening
  BY <1>21 DEF Crash
<1>22. CASE Stop
  BY <1>22 DEF Stop
<1>23. CASE Boot
  BY <1>23 DEF Boot, StaleAtStartup, ActiveRows
<1>24. CASE CleanupStaleJobs
  BY <1>24 DEF CleanupStaleJobs, Cleaned
<1>25. CASE UNCHANGED vars
  BY <1>25
<1>26. ASSUME NEW j \in Job, BeginNested(j) PROVE Reopening
  BY <1>26 DEF BeginNested, UpdateJobStatus, WriteRow
<1>27. ASSUME NEW j \in Job, EndNested(j) PROVE Reopening
  BY <1>27 DEF EndNested, UpdateJobStatus, WriteRow
<1> QED
  BY <1>1, <1>2, <1>3, <1>4, <1>5, <1>6, <1>7, <1>8, <1>9, <1>10, <1>11,
     <1>12, <1>13, <1>14, <1>15, <1>16, <1>17, <1>18, <1>19, <1>20, <1>21,
     <1>22, <1>23, <1>24, <1>25, <1>26, <1>27 DEF Next, Submit, CancelOrPoll, Work,
     Restart

\* Every step is a step of the contract, or leaves row and stage alone.
LEMMA ContractStep == IInv /\ [Next]_vars => [Contract!Next]_(Contract!vars)
<1> SUFFICES ASSUME IInv, [Next]_vars PROVE [Contract!Next]_(Contract!vars)
  OBVIOUS
<1> USE JobAssumption, NestingAssumption DEF vars, store, handlers, pool, process, IInv, TypeOK, HandlerInv, FutureInv, taskStage
<1>1. ASSUME NEW j \in Job, CheckNoActiveJob(j) PROVE [Contract!Next]_(Contract!vars)
  BY <1>1 DEF CheckNoActiveJob, Contract!vars
<1>2. ASSUME NEW j \in Job, RejectSubmit(j) PROVE [Contract!Next]_(Contract!vars)
  BY <1>2 DEF RejectSubmit, Contract!vars
<1>3. ASSUME NEW j \in Job, InsertJobRun(j) PROVE [Contract!Next]_(Contract!vars)
  BY <1>3 DEF InsertJobRun, Contract!vars
<1>4. ASSUME NEW j \in Job, EnqueueJob(j) PROVE [Contract!Next]_(Contract!vars)
  <2>1. Contract!Accept(j)
    BY <1>4 DEF EnqueueJob, Contract!Accept
  <2> QED
    BY <2>1 DEF Contract!Next
<1>5. ASSUME NEW j \in Job, EnqueueRaises(j) PROVE [Contract!Next]_(Contract!vars)
  BY <1>5 DEF EnqueueRaises, Contract!vars
<1>6. ASSUME NEW j \in Job, CommitSubmit(j) PROVE [Contract!Next]_(Contract!vars)
  <2> DEFINE stale == {k \in Job : k = victim[j]}
  <2>a. \A k \in Job : k \in stale => row[k] # "absent"
    BY DEF HandlerInv
  <2>b. row' = Published(j)
    BY <1>6 DEF CommitSubmit
  <2>1. row' = [Contract!Fail(stale) EXCEPT ![j] = IF sub[j] = "refused" THEN "failed" ELSE "pending"]
    <3> HIDE JobAssumption, NestingAssumption DEF vars, store, handlers, pool, process, IInv, TypeOK, HandlerInv, FutureInv, taskStage
    <3> QED
      BY <2>a, <2>b DEF Published, Contract!Fail
  <2>2. row[j] = "absent"
    BY <1>6 DEF CommitSubmit
  <2>3. Contract!Publish(j, stale)
    BY <1>6, <2>1, <2>2 DEF CommitSubmit, Contract!Publish
  <2> QED
    BY <2>3 DEF Contract!Next
<1>7. ASSUME NEW j \in Job, RollbackSubmit(j) PROVE [Contract!Next]_(Contract!vars)
  BY <1>7 DEF RollbackSubmit, Contract!vars
<1>8. ASSUME NEW j \in Job, CancelRead(j) PROVE [Contract!Next]_(Contract!vars)
  BY <1>8 DEF CancelRead, Contract!vars
<1>9. ASSUME NEW j \in Job, CancelSignal(j) PROVE [Contract!Next]_(Contract!vars)
  <2>1. CASE home[j] = cur /\ fut[j] = "queued"
    <3>1. fut' = [fut EXCEPT ![j] = "cancelled"] /\ row' = row
      BY <1>9, <2>1 DEF CancelSignal, Withdrawn, AfterSignal
    <3>2. Contract!Withdraw(j)
      BY <2>1, <3>1 DEF Contract!Withdraw
    <3> QED
      BY <3>2 DEF Contract!Next
  <2>2. CASE ~(home[j] = cur /\ fut[j] = "queued")
    BY <1>9, <2>2 DEF CancelSignal, Withdrawn, AfterSignal, Contract!vars
  <2> QED
    BY <2>1, <2>2
<1>10. ASSUME NEW j \in Job, CancelWrite(j) PROVE [Contract!Next]_(Contract!vars)
  <2>1. Contract!Cancel(j)
    BY <1>10 DEF CancelWrite, WriteRow, Contract!Cancel
  <2> QED
    BY <2>1 DEF Contract!Next
<1>11. ASSUME NEW j \in Job, CancelTimeout(j) PROVE [Contract!Next]_(Contract!vars)
  BY <1>11 DEF CancelTimeout, Contract!vars
<1>12. ASSUME NEW j \in Job, PollRefresh(j) PROVE [Contract!Next]_(Contract!vars)
  BY <1>12 DEF PollRefresh, Contract!vars
<1>13. ASSUME NEW j \in Job, Age(j) PROVE [Contract!Next]_(Contract!vars)
  BY <1>13 DEF Age, Contract!vars
<1>14. ASSUME NEW j \in Job, MarkRunning(j) PROVE [Contract!Next]_(Contract!vars)
  <2>1. Contract!ReportRunning(j) \/ UNCHANGED Contract!vars
    BY <1>14 DEF MarkRunning, UpdateJobStatus, WriteRow, Contract!ReportRunning,
             Contract!Write, Contract!vars
  <2> QED
    BY <2>1 DEF Contract!Next
<1>15. ASSUME NEW j \in Job, NoticeCancel(j) PROVE [Contract!Next]_(Contract!vars)
  BY <1>15 DEF NoticeCancel, Contract!vars
<1>16. ASSUME NEW j \in Job, LastCheck(j) PROVE [Contract!Next]_(Contract!vars)
  BY <1>16 DEF LastCheck, Contract!vars
<1>17. ASSUME NEW j \in Job, TaskRaises(j) PROVE [Contract!Next]_(Contract!vars)
  BY <1>17 DEF TaskRaises, Contract!vars
<1>18. ASSUME NEW j \in Job, EndTask(j) PROVE [Contract!Next]_(Contract!vars)
  <2>1. Outcome(j) \in Contract!Terminal
    BY DEF Outcome, Contract!Terminal
  <2>2. fut[j] = "running" /\ fut' = [fut EXCEPT ![j] = "done"]
    BY <1>18 DEF EndTask
  <2>3. taskStage[j] = "executing" /\ taskStage' = [taskStage EXCEPT ![j] = "over"]
    BY <2>2
  <2>4. Contract!Write(j, Outcome(j)) \/ row' = row
    BY <1>18 DEF EndTask, UpdateJobStatus, WriteRow, Contract!Write
  <2>5. Contract!Settle(j)
    BY <2>1, <2>3, <2>4 DEF Contract!Settle
  <2> QED
    BY <2>5 DEF Contract!Next
<1>19. ASSUME NEW p \in Process, TakeJob(p) PROVE [Contract!Next]_(Contract!vars)
  <2>1. PICK j \in Job : j = Head(queue[p])
    BY <1>19 DEF TakeJob, MayStart
  <2>2. CASE fut[j] = "queued"
    <3>1. fut' = [fut EXCEPT ![j] = "running"] /\ row' = row
      BY <1>19, <2>1, <2>2 DEF TakeJob, MayStart
    <3>2. Contract!Execute(j)
      BY <2>2, <3>1 DEF Contract!Execute
    <3> QED
      BY <3>2 DEF Contract!Next
  <2>3. CASE fut[j] # "queued"
    BY <1>19, <2>1, <2>3 DEF TakeJob, MayStart, Contract!vars
  <2> QED
    BY <2>2, <2>3
<1>20. ASSUME NEW p \in Process, Exit(p) PROVE [Contract!Next]_(Contract!vars)
  BY <1>20 DEF Exit, Contract!vars
<1>21. ASSUME NEW p \in Process, Crash(p) PROVE [Contract!Next]_(Contract!vars)
  <2>1. PICK S \in SUBSET Job :
          S = {j \in Job : home[j] = p /\ fut[j] \in {"queued", "running"}}
    OBVIOUS
  <2>2. fut' = [j \in Job |-> IF j \in S THEN "lost" ELSE fut[j]] /\ row' = row
    BY <1>21, <2>1 DEF Crash
  <2>3. \A j \in S : taskStage[j] \in {"waiting", "executing"}
    BY <2>1
  <2>4. taskStage' = [j \in Job |-> IF j \in S THEN "over" ELSE taskStage[j]]
    BY <2>2
  <2>5. Contract!Lose(S)
    BY <2>2, <2>3, <2>4 DEF Contract!Lose
  <2> QED
    BY <2>5 DEF Contract!Next
<1>22. CASE Stop
  BY <1>22 DEF Stop, Contract!vars
<1>23. CASE Boot
  BY <1>23 DEF Boot, Contract!vars
<1>24. CASE CleanupStaleJobs
  <2>1. row' = Contract!Fail(doomed) /\ UNCHANGED fut
    BY <1>24 DEF CleanupStaleJobs, Cleaned, Contract!Fail
  <2>2. doomed \in SUBSET Job /\ Contract!Expire(doomed)
    BY <2>1 DEF Contract!Expire
  <2> QED
    BY <2>2 DEF Contract!Next
<1>25. CASE UNCHANGED vars
  BY <1>25 DEF Contract!vars
<1>26. ASSUME NEW j \in Job, BeginNested(j) PROVE [Contract!Next]_(Contract!vars)
  <2>1. fut[j] = "running" /\ UNCHANGED fut
    BY <1>26 DEF BeginNested
  <2>2. Contract!ReportRunning(j) \/ UNCHANGED Contract!vars
    BY <1>26, <2>1 DEF BeginNested, UpdateJobStatus, WriteRow, Contract!ReportRunning,
             Contract!Write, Contract!vars
  <2> QED
    BY <2>2 DEF Contract!Next
<1>27. ASSUME NEW j \in Job, EndNested(j) PROVE [Contract!Next]_(Contract!vars)
  <2>1. fut[j] = "running" /\ j \in Nesting /\ UNCHANGED fut
    BY <1>27 DEF EndNested
  <2>2. PICK status \in {"completed", "failed"} : UpdateJobStatus(j, status)
    BY <1>27 DEF EndNested
  <2>3. Contract!Write(j, status) \/ row' = row
    BY <2>2 DEF UpdateJobStatus, WriteRow, Contract!Write
  <2>4. Contract!ReportNested(j) \/ UNCHANGED Contract!vars
    BY <2>1, <2>3 DEF Contract!ReportNested, Contract!vars
  <2> QED
    BY <2>4 DEF Contract!Next
<1> QED
  BY <1>1, <1>2, <1>3, <1>4, <1>5, <1>6, <1>7, <1>8, <1>9, <1>10, <1>11,
     <1>12, <1>13, <1>14, <1>15, <1>16, <1>17, <1>18, <1>19, <1>20, <1>21,
     <1>22, <1>23, <1>24, <1>25, <1>26, <1>27 DEF Next, Submit, CancelOrPoll, Work,
     Restart

\* No row and no task at the start: the contract's initial state.
LEMMA ContractInit == Init => Contract!Init
  BY DEF Init, Contract!Init, taskStage

\* ImplementsContract: handlers, worker threads and restarts implement the
\* abstract contract of a job, for any number of jobs, threads and restarts.
THEOREM Refinement == Spec => ImplementsContract
<1>1. IInv /\ [Next]_vars => [Contract!Next]_(Contract!vars)
  BY ContractStep
<1> QED
  BY <1>1, ContractInit, InvariantHolds, PTL DEF Spec, ImplementsContract, Contract!Spec

\* WithdrawnNeverRuns: a future cancelled in the queue never starts.
THEOREM WithdrawnStays == Spec => WithdrawnNeverRuns
<1>1. IInv /\ [Next]_vars => [Withdrawal]_vars
  BY WithdrawnStep
<1> QED
  BY <1>1, InvariantHolds, PTL DEF Spec, WithdrawnNeverRuns, Withdrawal

\* OnlyOwnTaskReopens: a final status gives way to "running" only, written by
\* the first statement of the job's own task or of a search nested in it.
THEOREM FinalStatusReopens == Spec => OnlyOwnTaskReopens
<1>1. IInv /\ [Next]_vars => [Reopening]_vars
  BY ReopenStep
<1> QED
  BY <1>1, InvariantHolds, PTL DEF Spec, OnlyOwnTaskReopens, Reopening

\* Once the flag of a cooperative job is up in time, completion stays averted.
LEMMA AvertedStep ==
  ASSUME NEW c \in Cooperative, IInv, Averted(c), [Next]_vars
  PROVE  Averted(c)'
<1>0. c \in Job
  BY JobAssumption
<1> USE <1>0, JobAssumption, NestingAssumption DEF vars, store, handlers, pool, process, IInv, TypeOK, HandlerInv, FutureInv, Averted, ToldInTime, Flagged
<1>1. ASSUME NEW j \in Job, CheckNoActiveJob(j) PROVE Averted(c)'
  BY <1>1 DEF CheckNoActiveJob
<1>2. ASSUME NEW j \in Job, RejectSubmit(j) PROVE Averted(c)'
  BY <1>2 DEF RejectSubmit
<1>3. ASSUME NEW j \in Job, InsertJobRun(j) PROVE Averted(c)'
  BY <1>3 DEF InsertJobRun, MayInsert
<1>4. ASSUME NEW j \in Job, EnqueueJob(j) PROVE Averted(c)'
  BY <1>4 DEF EnqueueJob
<1>5. ASSUME NEW j \in Job, EnqueueRaises(j) PROVE Averted(c)'
  BY <1>5 DEF EnqueueRaises
<1>6. ASSUME NEW j \in Job, CommitSubmit(j) PROVE Averted(c)'
  BY <1>6 DEF CommitSubmit, Published, MayCommit
<1>7. ASSUME NEW j \in Job, RollbackSubmit(j) PROVE Averted(c)'
  BY <1>7 DEF RollbackSubmit
<1>8. ASSUME NEW j \in Job, CancelRead(j) PROVE Averted(c)'
  BY <1>8 DEF CancelRead
<1>9. ASSUME NEW j \in Job, CancelSignal(j) PROVE Averted(c)'
  BY <1>9 DEF CancelSignal, Withdrawn, AfterSignal
<1>10. ASSUME NEW j \in Job, CancelWrite(j) PROVE Averted(c)'
  BY <1>10 DEF CancelWrite, WriteRow
<1>11. ASSUME NEW j \in Job, CancelTimeout(j) PROVE Averted(c)'
  BY <1>11 DEF CancelTimeout
<1>12. ASSUME NEW j \in Job, PollRefresh(j) PROVE Averted(c)'
  BY <1>12 DEF PollRefresh
<1>13. ASSUME NEW j \in Job, Age(j) PROVE Averted(c)'
  BY <1>13 DEF Age
<1>14. ASSUME NEW j \in Job, MarkRunning(j) PROVE Averted(c)'
  BY <1>14 DEF MarkRunning, UpdateJobStatus, WriteRow
<1>15. ASSUME NEW j \in Job, NoticeCancel(j) PROVE Averted(c)'
  BY <1>15 DEF NoticeCancel
<1>16. ASSUME NEW j \in Job, LastCheck(j) PROVE Averted(c)'
  BY <1>16 DEF LastCheck, PassesCheck
<1>17. ASSUME NEW j \in Job, TaskRaises(j) PROVE Averted(c)'
  BY <1>17 DEF TaskRaises
<1>18. ASSUME NEW j \in Job, EndTask(j) PROVE Averted(c)'
  BY <1>18 DEF EndTask, UpdateJobStatus, WriteRow, Outcome
<1>19. ASSUME NEW p \in Process, TakeJob(p) PROVE Averted(c)'
  BY <1>19 DEF TakeJob, MayStart
<1>20. ASSUME NEW p \in Process, Exit(p) PROVE Averted(c)'
  BY <1>20 DEF Exit
<1>21. ASSUME NEW p \in Process, Crash(p) PROVE Averted(c)'
  BY <1>21 DEF Crash
<1>22. CASE Stop
  BY <1>22 DEF Stop
<1>23. CASE Boot
  BY <1>23 DEF Boot, StaleAtStartup, ActiveRows
<1>24. CASE CleanupStaleJobs
  BY <1>24 DEF CleanupStaleJobs, Cleaned
<1>25. CASE UNCHANGED vars
  BY <1>25
<1>26. ASSUME NEW j \in Job, BeginNested(j) PROVE Averted(c)'
  BY <1>26 DEF BeginNested, UpdateJobStatus, WriteRow
<1>27. ASSUME NEW j \in Job, EndNested(j) PROVE Averted(c)'
  BY <1>27 DEF EndNested, UpdateJobStatus, WriteRow
<1> QED
  BY <1>1, <1>2, <1>3, <1>4, <1>5, <1>6, <1>7, <1>8, <1>9, <1>10, <1>11,
     <1>12, <1>13, <1>14, <1>15, <1>16, <1>17, <1>18, <1>19, <1>20, <1>21,
     <1>22, <1>23, <1>24, <1>25, <1>26, <1>27 DEF Next, Submit, CancelOrPoll, Work,
     Restart

\* EarlyCancelPreventsCompletion: a flag raised before the last token.check()
\* of a cooperative task keeps its row from ever being completed.
THEOREM EarlyCancelHeard == Spec => EarlyCancelPreventsCompletion
<1> SUFFICES ASSUME NEW c \in Cooperative PROVE Spec => CancelHeard(c)
  BY DEF EarlyCancelPreventsCompletion
<1>1. IInv /\ ToldInTime(c) => Averted(c)
  BY JobAssumption, NestingAssumption DEF IInv, FutureInv, ToldInTime, Averted, TypeOK
<1>2. IInv /\ Averted(c) /\ [Next]_vars => Averted(c)'
  BY AvertedStep
<1>3. Averted(c) => row[c] # "completed"
  BY DEF Averted
<1> QED
  BY <1>1, <1>2, <1>3, InvariantHolds, PTL DEF Spec, CancelHeard
=============================================================================

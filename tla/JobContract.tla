------------------------------ MODULE JobContract ------------------------------
(***************************************************************************)
(* What the job subsystem promises of one submitted job, without queues,   *)
(* handlers, locks or cancel flags: a task runs at most once, a withdrawn   *)
(* or lost task never runs again, and only its own task, while it executes, *)
(* makes the row in job_runs "completed": as its last step, unless another  *)
(* task may be nested in it under the same job.  What it does NOT promise   *)
(* is just as visible: a status that looks final can still be overwritten   *)
(* while the task is executing (ReportRunning, ReportNested, Settle) and by *)
(* Cancel and Expire, which do not look at the row they write.              *)
(* JobLifecycle implements this specification.                              *)
(***************************************************************************)
CONSTANTS
  Job,
  Nesting   \* jobs whose task may run another task that reports as this job

Terminal == {"completed", "failed", "cancelled"}
RowStatus == {"absent", "pending", "running"} \cup Terminal
Stage == {"unsent", "waiting", "executing", "over"}

VARIABLES
  row,    \* [Job -> RowStatus]: the committed status, "absent" without a row
  stage   \* [Job -> Stage]: what has become of the job's task

vars == <<row, stage>>

TypeOK ==
  /\ row \in [Job -> RowStatus]
  /\ stage \in [Job -> Stage]

Init ==
  /\ row = [j \in Job |-> "absent"]
  /\ stage = [j \in Job |-> "unsent"]

\* Every row of S that exists is set to "failed".
Fail(S) == [j \in Job |-> IF j \in S /\ row[j] # "absent" THEN "failed" ELSE row[j]]

\* The row of one job is written, if there is one.
Write(j, status) ==
  row' = IF row[j] = "absent" THEN row ELSE [row EXCEPT ![j] = status]

\* The row appears; the same transaction may fail rows given up as stale.
Publish(j, stale) ==
  /\ row[j] = "absent"
  /\ \E status \in {"pending", "failed"} :
       row' = [Fail(stale) EXCEPT ![j] = status]
  /\ UNCHANGED stage

Accept(j) ==
  /\ stage[j] = "unsent"
  /\ stage' = [stage EXCEPT ![j] = "waiting"]
  /\ UNCHANGED row

Withdraw(j) ==
  /\ stage[j] = "waiting"
  /\ stage' = [stage EXCEPT ![j] = "over"]
  /\ UNCHANGED row

Execute(j) ==
  /\ stage[j] = "waiting"
  /\ stage' = [stage EXCEPT ![j] = "executing"]
  /\ UNCHANGED row

ReportRunning(j) ==
  /\ stage[j] = "executing"
  /\ Write(j, "running")
  /\ UNCHANGED stage

\* A nested task has ended; the task itself goes on.
ReportNested(j) ==
  /\ stage[j] = "executing" /\ j \in Nesting
  /\ \E status \in {"completed", "failed"} : Write(j, status)
  /\ UNCHANGED stage

\* The task ends; its last status write may be lost.
Settle(j) ==
  /\ stage[j] = "executing"
  /\ stage' = [stage EXCEPT ![j] = "over"]
  /\ \/ \E status \in Terminal : Write(j, status)
     \/ UNCHANGED row

Cancel(j) ==
  /\ row[j] # "absent"
  /\ row' = [row EXCEPT ![j] = "cancelled"]
  /\ UNCHANGED stage

\* A restart or a stale sweep gives rows up.
Expire(S) ==
  /\ row' = Fail(S)
  /\ UNCHANGED stage

\* A process dies with the tasks it held.
Lose(S) ==
  /\ \A j \in S : stage[j] \in {"waiting", "executing"}
  /\ stage' = [j \in Job |-> IF j \in S THEN "over" ELSE stage[j]]
  /\ UNCHANGED row

Next ==
  \/ \E j \in Job :
       \/ \E stale \in SUBSET Job : Publish(j, stale)
       \/ Accept(j) \/ Withdraw(j) \/ Execute(j)
       \/ ReportRunning(j) \/ ReportNested(j) \/ Settle(j) \/ Cancel(j)
  \/ \E S \in SUBSET Job : Expire(S) \/ Lose(S)

Spec == Init /\ [][Next]_vars
=============================================================================

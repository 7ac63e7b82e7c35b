------------------------------- MODULE OfatTask -------------------------------
(***************************************************************************)
(* run_ofat_task: one worker thread that writes a step and its artifacts in *)
(* one long transaction, while its status writes and every other writer of  *)
(* the process go through connections of their own.  SQLite has one write   *)
(* lock: the task's transaction holds it from the INSERT of the step to the *)
(* commit at the end, or to the end of the connection object.               *)
(*                                                                          *)
(* Cancel requests are those that find the row running: such a request only *)
(* raises the flag.  JobLifecycle has the other ones.                       *)
(***************************************************************************)
EXTENDS Integers

CONSTANTS
  NTargets,     \* target columns that exist in the data set
  OtherWriters  \* do other requests and tasks write meanwhile?

ASSUME TargetAssumption == NTargets \in Nat \ {0} /\ OtherWriters \in BOOLEAN

VARIABLES
  jobRow,   \* committed job_runs.status
  stage,    \* where the task is
  outcome,  \* what the task set out to report, "none" until then
  holder,   \* who holds the write lock: "free", "task" or "other"
  conn,     \* the task's connection: "none", "open", "closed", "garbage", "pinned"
  plotted,  \* targets whose plot is done
  created,  \* created_ids: artifacts the task has inserted
  stored,   \* artifacts other connections can see
  flag      \* the job is in _cancel_flags

vars == <<jobRow, stage, outcome, holder, conn, plotted, created, stored, flag>>
data == <<plotted, created, stored>>

TypeOK ==
  /\ jobRow \in {"pending", "running", "completed", "failed", "cancelled"}
  /\ stage \in {"entry", "loading", "grouped", "plotting", "ending", "over", "lost"}
  /\ outcome \in {"none", "completed", "failed", "cancelled"}
  /\ holder \in {"free", "task", "other"}
  /\ conn \in {"none", "open", "closed", "garbage", "pinned"}
  /\ plotted \in 0 .. NTargets
  /\ created \in 0 .. NTargets + 2 /\ stored \in 0 .. NTargets + 2
  /\ flag \in BOOLEAN

Init ==
  /\ jobRow = "pending" /\ stage = "entry" /\ outcome = "none"
  /\ holder = "free" /\ conn = "none"
  /\ plotted = 0 /\ created = 0 /\ stored = 0
  /\ flag = FALSE

\* update_job_status_sync: its connection waits five seconds for the lock and
\* then gives up without a word.
WriteJob(status) ==
  \/ holder = "free" /\ jobRow' = status
  \/ holder # "free" /\ UNCHANGED jobRow

\* The exception handlers of the task begin: nothing is closed or rolled back.
End(result) == stage' = "ending" /\ outcome' = result

-----------------------------------------------------------------------------
MarkRunning ==
  /\ stage = "entry"
  /\ WriteJob("running")
  /\ stage' = "loading"
  /\ UNCHANGED <<outcome, holder, conn, data, flag>>

\* The file is read, the columns are looked up and the groups searched; both
\* checks of this part come before there is a connection.
Load ==
  /\ stage = "loading"
  /\ \/ flag /\ End("cancelled")
     \/ End("failed")
     \/ ~flag /\ stage' = "grouped" /\ UNCHANGED outcome
  /\ UNCHANGED <<jobRow, holder, conn, data, flag>>

\* The INSERT of the step takes the write lock, or gives up waiting for it.
InsertStep ==
  /\ stage = "grouped" /\ conn = "none"
  /\ conn' = "open"
  /\ \/ holder = "free" /\ holder' = "task" /\ UNCHANGED <<stage, outcome>>
     \/ holder = "other" /\ End("failed") /\ UNCHANGED holder
  /\ UNCHANGED <<jobRow, data, flag>>

\* Mutant: every artifact is committed as it is saved.
SaveArtifactCommits == created' = created + 1 /\ stored' = created + 1

\* Mutant: an artifact is inserted twice.
SaveArtifactTwice == created' = created + 2 /\ UNCHANGED stored

\* save_artifact_to_db leaves the commit to its caller.
SaveArtifact == created' = created + 1 /\ UNCHANGED stored

\* Mutant: the connection is closed without a commit.
CloseOnly == UNCHANGED stored /\ holder' = "free" /\ conn' = "closed"

\* conn.commit(); conn.close()
CommitStep == stored' = created' /\ holder' = "free" /\ conn' = "closed"

\* No group holds: the strict analysis leaves a diagnostic table, the relaxed
\* one that pruned in vain only its step; or the diagnosis raises.
NoGroups ==
  /\ stage = "grouped" /\ conn = "open"
  /\ \/ /\ created' \in {created, created + 1}
        /\ End("completed") /\ CommitStep
     \/ End("failed") /\ UNCHANGED <<holder, conn, created, stored>>
  /\ UNCHANGED <<jobRow, plotted, flag>>

\* Groups hold, at once or after pruning with its report.
FindGroups ==
  /\ stage = "grouped" /\ conn = "open"
  /\ stage' = "plotting"
  /\ SaveArtifact \/ UNCHANGED <<created, stored>>
  /\ UNCHANGED <<jobRow, outcome, holder, conn, plotted, flag>>

\* Mutant: the flag is not looked at after the groups.
NeverCancelled == FALSE

Cancelled == flag

\* token.check(), then the plot of one target and its artifact.
PlotTarget ==
  /\ stage = "plotting" /\ plotted < NTargets
  /\ \/ Cancelled /\ End("cancelled") /\ UNCHANGED data
     \/ End("failed") /\ UNCHANGED data
     \/ /\ ~Cancelled
        /\ plotted' = plotted + 1 /\ SaveArtifact
        /\ UNCHANGED <<stage, outcome>>
  /\ UNCHANGED <<jobRow, holder, conn, flag>>

\* The last check, the summary table if it has rows, commit and close.
Finish ==
  /\ stage = "plotting" /\ plotted = NTargets
  /\ \/ Cancelled /\ End("cancelled") /\ UNCHANGED <<holder, conn, data>>
     \/ End("failed") /\ UNCHANGED <<holder, conn, data>>
     \/ /\ ~Cancelled
        /\ created' \in {created, created + 1}
        /\ End("completed") /\ CommitStep /\ UNCHANGED plotted
  /\ UNCHANGED <<jobRow, flag>>

\* The status write and the return.  A cancelled task clears its flag and its
\* frame becomes garbage; the exception of a failed one stays in its Future,
\* which _jobs keeps, and pins the frame with the connection.
Return ==
  /\ stage = "ending"
  /\ WriteJob(outcome)
  /\ stage' = "over"
  /\ flag' = IF outcome = "cancelled" THEN FALSE ELSE flag
  /\ conn' = IF conn # "open" THEN conn
             ELSE IF outcome = "failed" THEN "pinned" ELSE "garbage"
  /\ UNCHANGED <<outcome, holder, data>>

\* The collector finds the frame: the connection closes and rolls back.
Collect ==
  /\ conn = "garbage"
  /\ conn' = "closed"
  /\ holder' = IF holder = "task" THEN "free" ELSE holder
  /\ UNCHANGED <<jobRow, stage, outcome, data, flag>>

\* A cancel request that reads a running row.
CancelRunning ==
  /\ jobRow = "running"
  /\ flag' = TRUE
  /\ UNCHANGED <<jobRow, stage, outcome, holder, conn, data>>

\* Any other request or task that writes.
OtherBegins ==
  /\ OtherWriters
  /\ holder = "free" /\ holder' = "other"
  /\ UNCHANGED <<jobRow, stage, outcome, conn, data, flag>>

OtherEnds ==
  /\ holder = "other" /\ holder' = "free"
  /\ UNCHANGED <<jobRow, stage, outcome, conn, data, flag>>

\* The process dies with its connections; the next one fails the row.
Restart ==
  /\ stage' = IF stage = "over" THEN stage ELSE "lost"
  /\ jobRow' = IF jobRow \in {"pending", "running"} THEN "failed" ELSE jobRow
  /\ holder' = "free" /\ flag' = FALSE
  /\ conn' = IF conn = "none" THEN conn ELSE "closed"
  /\ UNCHANGED <<outcome, data>>

Task ==
  \/ MarkRunning \/ Load \/ InsertStep \/ NoGroups \/ FindGroups
  \/ PlotTarget \/ Finish \/ Return

Next == Task \/ Collect \/ CancelRunning \/ OtherBegins \/ OtherEnds \/ Restart

Spec == Init /\ [][Next]_vars

-----------------------------------------------------------------------------
(* Properties                                                               *)

\* The step and its artifacts become visible together, and only those of an
\* analysis that went through: a cancelled, failed or killed one leaves none.
StepIsAtomic == stored > 0 => outcome = "completed" /\ stored = created

\* A completed row means that every artifact in its result can be read and
\* that the task holds the write lock no more.
CompletedIsVisible == jobRow = "completed" => stored = created /\ holder # "task"

\* A flag that is up while the plots are made, also one raised while the
\* groups were searched, leaves no step and no artifact behind, ever.
CancelDiscards == []((flag /\ stage = "plotting") => [](stored = 0))
=============================================================================

----------------------------- MODULE Workspace -----------------------------
(***************************************************************************)
(* What one session owns and who changes it: the data sets and the pointer *)
(* to the active one, its branch, the files and rows of the artifacts.     *)
(* API requests upload and delete; the agent of a running analysis reads a *)
(* context once and then records files and rows.                           *)
(*                                                                         *)
(* A request reads the session when it is validated; only delete_session   *)
(* goes on with that copy, the others read it again where they need it.    *)
(* An upload is answered before its commit.                                *)
(* SQLite gives the write lock to a connection at its first write and      *)
(* takes it back at its commit, when the others see what it wrote; files   *)
(* change at once.                                                         *)
(***************************************************************************)
EXTENDS Naturals, FiniteSets

CONSTANTS
  Datasets,        \* identifiers of data sets
  Requests,        \* requests the server serves at a time
  Artifacts,       \* identifiers of artifacts
  MaxRuns,         \* bound on the agent runs
  NoDataset, NoArtifact, NoOne

VARIABLES
  alive,      \* the row in sessions
  active,     \* sessions.active_dataset_id
  branch,     \* the session's branch exists
  datasets,   \* rows in datasets
  artifacts,  \* rows in artifacts
  files,      \* data sets and artifacts that have their file
  lock,       \* who may write to the database
  known,      \* data sets a client has been told of
  req,        \* the requests
  run,        \* the agent's run
  reported,   \* artifacts that a run listed in its result
  runs        \* runs that started

vars == <<alive, active, branch, datasets, artifacts, files, lock, known, req, run, reported, runs>>

Worker == "worker"

ASSUME WorkspaceAssumption ==
  /\ MaxRuns \in Nat
  /\ NoDataset \notin Datasets /\ NoArtifact \notin Artifacts
  /\ Datasets \cap Artifacts = {}
  /\ NoOne \notin Requests \cup {Worker} /\ Worker \notin Requests

-----------------------------------------------------------------------------
Nothing == [op |-> "none", at |-> "idle", dataset |-> NoDataset, seen |-> NoDataset, loaded |-> {}]

\* seen: the pointer in the copy of the session that the handler decides by;
\* loaded: the rows that a cascading DELETE will remove.
Request ==
  [op : {"none", "upload", "delete", "session", "branch"},
   at : {"idle", "valid", "found", "read", "cleared", "removed", "loaded", "written"},
   dataset : Datasets \cup {NoDataset}, seen : Datasets \cup {NoDataset}, loaded : SUBSET Artifacts]

NoRun ==
  [at |-> "idle", dataset |-> NoDataset, branch |-> FALSE, step |-> FALSE,
   pending |-> {}, writing |-> NoArtifact, recorded |-> {}, workfile |-> FALSE]

\* pending: rows of the recorder's transaction; recorded: recorded_artifact_ids.
Run ==
  [at : {"idle", "session", "dataset", "agent", "file", "insert", "commit"},
   dataset : Datasets \cup {NoDataset}, branch : BOOLEAN, step : BOOLEAN,
   pending : SUBSET Artifacts, writing : Artifacts \cup {NoArtifact},
   recorded : SUBSET Artifacts, workfile : BOOLEAN]

\* artifacts is a function from the rows to whether they belong to a step.
Rows == DOMAIN artifacts
OfStep == {a \in Rows : artifacts[a]}
Without(S) == [a \in Rows \ S |-> artifacts[a]]

TypeOK ==
  /\ alive \in BOOLEAN /\ branch \in BOOLEAN
  /\ active \in Datasets \cup {NoDataset}
  /\ datasets \subseteq Datasets /\ known \subseteq Datasets
  /\ Rows \subseteq Artifacts /\ artifacts \in [Rows -> BOOLEAN]
  /\ files \subseteq Datasets \cup Artifacts
  /\ lock \in Requests \cup {Worker, NoOne}
  /\ req \in [Requests -> Request]
  /\ run \in Run
  /\ reported \subseteq Artifacts
  /\ runs \in 0 .. MaxRuns

\* create_session: a session and its default branch.
Init ==
  /\ alive = TRUE /\ active = NoDataset /\ branch = TRUE
  /\ datasets = {} /\ artifacts = [a \in {} |-> FALSE] /\ files = {} /\ known = {}
  /\ lock = NoOne /\ req = [r \in Requests |-> Nothing]
  /\ run = NoRun /\ reported = {} /\ runs = 0

stored == <<alive, active, branch, datasets, artifacts>>
working == <<run, reported, runs>>

-----------------------------------------------------------------------------
(* Steps that every request has                                             *)

MayWrite(who) == lock \in {NoOne, who}

\* validate_user_session: the session must exist.  pointer is what the handler
\* keeps of it.
Validated(r, op, d, pointer) ==
  /\ req[r] = Nothing /\ alive
  /\ req' = [req EXCEPT ![r] = [Nothing EXCEPT !.op = op, !.at = "valid", !.dataset = d,
                                               !.seen = pointer]]

Goes(r, op, from, to) ==
  /\ req[r].op = op /\ req[r].at = from
  /\ req' = [req EXCEPT ![r].at = to]

Ends(r) == req' = [req EXCEPT ![r] = Nothing]

\* get_db_session: an error, a lock that is not freed in time or a failing
\* commit rolls the transaction back; the files stay as they are.
Rollback(r) ==
  /\ req[r] # Nothing
  /\ Ends(r)
  /\ lock' = IF lock = r THEN NoOne ELSE lock
  /\ UNCHANGED <<stored, files, known, working>>

Commits(r, op) ==
  /\ req[r].op = op /\ req[r].at = "written"
  /\ Ends(r)
  /\ lock' = NoOne

-----------------------------------------------------------------------------
(* upload_dataset, select_builtin_dataset                                   *)

Fresh == {d \in Datasets : d \notin files \cup known /\ \A r \in Requests : req[r].dataset # d}

\* The file is saved under the session that was validated.
SaveFile(r) ==
  /\ \E d \in Fresh : Validated(r, "upload", d, NoDataset) /\ files' = files \cup {d}
  /\ UNCHANGED <<stored, lock, known, working>>

\* The INSERT and the UPDATE of the pointer.  The response is sent, before the
\* commit: from here on a client can name the data set.
WriteUpload(r) ==
  /\ MayWrite(r) /\ Goes(r, "upload", "valid", "written")
  /\ lock' = r
  /\ known' = known \cup {req[r].dataset}
  /\ UNCHANGED <<stored, files, working>>

\* Nobody else can have deleted the session since the INSERT; if it was gone
\* before, the pointer is skipped and the row belongs to no session.
CommitUpload(r) ==
  /\ Commits(r, "upload")
  /\ datasets' = datasets \cup {req[r].dataset}
  /\ active' = IF alive THEN req[r].dataset ELSE active
  /\ UNCHANGED <<alive, branch, artifacts, files, known, working>>

-----------------------------------------------------------------------------
(* delete_dataset                                                           *)

BeginDelete(r) ==
  /\ \E d \in known : Validated(r, "delete", d, NoDataset)
  /\ UNCHANGED <<stored, files, lock, known, working>>

FindDataset(r) ==
  /\ IF req[r].dataset \in datasets THEN Goes(r, "delete", "valid", "found")
     ELSE req[r].op = "delete" /\ req[r].at = "valid" /\ Ends(r)
  /\ UNCHANGED <<stored, files, lock, known, working>>

\* The session is read again, after the data set's row was found.
ReadPointer(r) ==
  /\ req[r].op = "delete" /\ req[r].at = "found"
  /\ req' = [req EXCEPT ![r].at = "read", ![r].seen = IF alive THEN active ELSE NoDataset]
  /\ UNCHANGED <<stored, files, lock, known, working>>

\* Mutant: the pointer is left to the foreign key, which SQLite does not follow.
LeavesPointer(q) == FALSE

\* The session that was read says that the data set is active.
ClearsPointer(q) == q.seen = q.dataset

\* The UPDATE, if it finds the session; with another pointer nothing is written.
ClearPointer(r) ==
  /\ Goes(r, "delete", "read", "cleared")
  /\ IF ClearsPointer(req[r]) THEN alive /\ MayWrite(r) /\ lock' = r
     ELSE UNCHANGED lock
  /\ UNCHANGED <<stored, files, known, working>>

RemoveFile(r) ==
  /\ Goes(r, "delete", "cleared", "removed")
  /\ files' = files \ {req[r].dataset}
  /\ UNCHANGED <<stored, lock, known, working>>

DeleteRow(r) ==
  /\ MayWrite(r) /\ Goes(r, "delete", "removed", "written")
  /\ lock' = r
  /\ UNCHANGED <<stored, files, known, working>>

CommitDelete(r) ==
  /\ Commits(r, "delete")
  /\ datasets' = datasets \ {req[r].dataset}
  /\ active' = IF ClearsPointer(req[r]) THEN NoDataset ELSE active
  /\ UNCHANGED <<alive, branch, artifacts, files, known, working>>

-----------------------------------------------------------------------------
(* delete_session and delete_branch                                         *)

BeginDrop(r) ==
  /\ \E op \in {"session", "branch"} :
       /\ op = "branch" => branch
       /\ Validated(r, op, NoDataset, IF op = "session" THEN active ELSE NoDataset)
  /\ UNCHANGED <<stored, files, lock, known, working>>

\* The rows below the session or the branch are read, if there is no pointer
\* to clear before the lock is taken: what is recorded later is not deleted.
LoadChildren(r) ==
  /\ req[r].op \in {"session", "branch"} /\ req[r].at = "valid"
  /\ IF req[r].op = "session" /\ req[r].seen # NoDataset
     THEN alive /\ MayWrite(r) /\ lock' = r
     ELSE UNCHANGED lock
  /\ req' = [req EXCEPT ![r].at = "loaded", ![r].loaded = OfStep]
  /\ UNCHANGED <<stored, files, known, working>>

WriteDrop(r) ==
  /\ MayWrite(r) /\ \E op \in {"session", "branch"} : Goes(r, op, "loaded", "written")
  /\ lock' = r
  /\ UNCHANGED <<stored, files, known, working>>

\* No file is deleted, nor the rows of the data sets.
CommitDrop(r) ==
  /\ \E op \in {"session", "branch"} :
       /\ Commits(r, op)
       /\ alive' = (alive /\ op # "session")
       /\ active' = IF op = "session" THEN NoDataset ELSE active
  /\ branch' = FALSE
  /\ artifacts' = Without(req[r].loaded)
  /\ UNCHANGED <<datasets, files, known, working>>

-----------------------------------------------------------------------------
(* run_analysis_agent: the context and the preflight                        *)

StartRun ==
  /\ run = NoRun /\ runs < MaxRuns
  /\ run' = [NoRun EXCEPT !.at = "session"]
  /\ runs' = runs + 1
  /\ UNCHANGED <<stored, files, lock, known, req, reported>>

\* SESSION_NOT_FOUND, or the pointer is remembered.
ReadSession ==
  /\ run.at = "session"
  /\ run' = IF alive THEN [run EXCEPT !.at = "dataset", !.dataset = active] ELSE NoRun
  /\ UNCHANGED <<stored, files, lock, known, req, reported, runs>>

\* DATASET_REQUIRED unless it is a general question: the pointer is NULL or its
\* row is gone, though an artifact may be selected.
Preflight(needs) == needs => run.dataset \in datasets

\* The data set's row and the branch; the tools find the file by its path, or
\* fail.
ReadContext ==
  /\ run.at = "dataset"
  /\ \E needs \in BOOLEAN :
       run' = IF Preflight(needs) THEN [NoRun EXCEPT !.at = "agent", !.branch = branch] ELSE NoRun
  /\ UNCHANGED <<stored, files, lock, known, req, reported, runs>>

-----------------------------------------------------------------------------
(* run_analysis_agent: steps, tools and the recorder                        *)

\* The agent's code writes a file into the work directory.
WriteWorkFile ==
  /\ run.at = "agent" /\ ~run.workfile
  /\ run' = [run EXCEPT !.workfile = TRUE]
  /\ UNCHANGED <<stored, files, lock, known, req, reported, runs>>

NewArtifacts == {a \in Artifacts : a \notin files \cup run.recorded \cup reported}

Recording(workfile) ==
  /\ run.at = "agent"
  /\ \E a \in NewArtifacts :
       run' = [run EXCEPT !.at = "file", !.writing = a, !.workfile = workfile]
  /\ UNCHANGED <<stored, files, lock, known, req, reported, runs>>

\* An artifact of a tool, or the code of a step.
RecordResult == Recording(run.workfile)

\* The files that are new in the work directory count as seen before they are
\* recorded.
RecordWorkFile == run.workfile /\ Recording(FALSE)

\* What a commit of the recorder's connection adds.
Committed(pending) ==
  [a \in Rows \cup pending |-> IF a \in pending THEN run.step ELSE artifacts[a]]

\* record_step: without a branch nothing happens; its commit may fail too.
RecordStep ==
  /\ run.at = "agent" /\ run.branch /\ MayWrite(Worker)
  /\ \/ /\ run' = [run EXCEPT !.step = TRUE, !.pending = {}]
        /\ artifacts' = Committed(run.pending) /\ lock' = NoOne
     \/ lock' = Worker /\ UNCHANGED <<run, artifacts>>
  /\ UNCHANGED <<alive, active, branch, datasets, files, known, req, reported, runs>>

\* A failing write, INSERT or commit is logged and the artifact given up; a
\* row that could not be committed stays in the connection's transaction.
GivesUp == run' = [run EXCEPT !.at = "agent", !.writing = NoArtifact]

\* Mutant: the row is inserted although the file could not be written.
WriteOrGoOn ==
  /\ run.at = "file"
  /\ run' = [run EXCEPT !.at = "insert"]
  /\ files' \in {files, files \cup {run.writing}}
  /\ UNCHANGED <<stored, lock, known, req, reported, runs>>

WriteArtifact ==
  /\ \/ run.at = "file" /\ run' = [run EXCEPT !.at = "insert"] /\ files' = files \cup {run.writing}
     \/ run.at = "file" /\ GivesUp /\ UNCHANGED files
  /\ UNCHANGED <<stored, lock, known, req, reported, runs>>

InsertArtifact ==
  /\ run.at = "insert"
  /\ \/ /\ MayWrite(Worker) /\ lock' = Worker
        /\ run' = [run EXCEPT !.at = "commit", !.pending = @ \cup {run.writing}]
     \/ GivesUp /\ UNCHANGED lock
  /\ UNCHANGED <<stored, files, known, req, reported, runs>>

\* Mutant: the identifier is listed whatever becomes of the commit.
ListedAnyway == [run EXCEPT !.at = "agent", !.writing = NoArtifact,
                            !.recorded = @ \cup {run.writing}]

NotListed == [run EXCEPT !.at = "agent", !.writing = NoArtifact]

CommitArtifact ==
  /\ run.at = "commit"
  /\ \/ /\ artifacts' = Committed(run.pending) /\ lock' = NoOne
        /\ run' = [run EXCEPT !.at = "agent", !.writing = NoArtifact, !.pending = {},
                              !.recorded = @ \cup {run.writing}]
     \/ run' = NotListed /\ UNCHANGED <<artifacts, lock>>
  /\ UNCHANGED <<alive, active, branch, datasets, files, known, req, reported, runs>>

\* The connection is closed, and what it did not commit is gone.
Closes == /\ run' = NoRun
          /\ lock' = IF lock = Worker THEN NoOne ELSE lock

\* An answer, or AGENT_RUN_ERROR: both list what was recorded.
FinishRun ==
  /\ run.at = "agent" /\ Closes
  /\ reported' = reported \cup run.recorded
  /\ UNCHANGED <<stored, files, known, req, runs>>

\* The cancel flag ends the agent between two steps; nothing is listed.
CancelRun ==
  /\ run.at = "agent" /\ Closes
  /\ UNCHANGED <<stored, files, known, req, reported, runs>>

-----------------------------------------------------------------------------
\* The process dies and starts again.
Crash ==
  /\ run' = NoRun /\ lock' = NoOne /\ req' = [r \in Requests |-> Nothing]
  /\ UNCHANGED <<stored, files, known, reported, runs>>

Serve(r) ==
  \/ SaveFile(r) \/ WriteUpload(r) \/ CommitUpload(r)
  \/ BeginDelete(r) \/ FindDataset(r) \/ ReadPointer(r) \/ ClearPointer(r)
  \/ RemoveFile(r) \/ DeleteRow(r) \/ CommitDelete(r)
  \/ BeginDrop(r) \/ LoadChildren(r) \/ WriteDrop(r) \/ CommitDrop(r)
  \/ Rollback(r)

Analyse ==
  \/ StartRun \/ ReadSession \/ ReadContext
  \/ WriteWorkFile \/ RecordResult \/ RecordWorkFile \/ RecordStep
  \/ WriteArtifact \/ InsertArtifact \/ CommitArtifact
  \/ FinishRun \/ CancelRun

Next == Crash \/ Analyse \/ \E r \in Requests : Serve(r)

Spec == Init /\ [][Next]_vars

-----------------------------------------------------------------------------
(* Properties                                                               *)

\* The session's pointer leads to a data set: delete_dataset clears it in the
\* commit that deletes the row, and although it reads the pointer some steps
\* before, and a client may name a data set that is not committed yet, no
\* interleaving with uploads, other deletions, rollbacks and crashes leaves the
\* pointer at a row that is gone.
PointerHasRow == alive /\ active # NoDataset => active \in datasets

\* A row in artifacts has its file, whatever fails or dies in between.
RowHasFile == Rows \subseteq files

\* What a result lists can be fetched: the rows are committed, of error
\* answers too, and are there until the session or the branch is deleted.
ReportedIsStored == alive /\ branch => reported \subseteq Rows
=============================================================================

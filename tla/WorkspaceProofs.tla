---------------------------- MODULE WorkspaceProofs ----------------------------
(* Theorems about Workspace for any data sets, requests, artifacts and runs. *)
EXTENDS Workspace, TLAPS

(***************************************************************************)
(* The inductive invariant.  Named: an upload or a deletion has a data set.  *)
(* FileInv: what the recorder holds has its file.                           *)
(* ReportInv: while there is a branch, what a run may list is committed.    *)
(* PointerInv: a data set that is being uploaded has no row yet and is not   *)
(* the one that another upload, or a deletion that found its row, is about;  *)
(* so once a deletion has read another pointer than its data set's, nobody   *)
(* sets the pointer to that data set again.                                  *)
(***************************************************************************)
FileInv ==
  /\ Rows \cup run.pending \subseteq files
  /\ run.at \in {"file", "insert", "commit"} => run.writing \in Artifacts
  /\ run.at \in {"insert", "commit"} => run.writing \in files

ReportInv ==
  /\ run.at = "commit" => run.writing \in run.pending
  /\ branch => reported \cup run.recorded \subseteq Rows

Named == \A r \in Requests : req[r].op \in {"upload", "delete"} => req[r].dataset \in Datasets

Uploads(r) == req[r].op = "upload"

\* The deletion has found the row of its data set.
Found(r) == req[r].op = "delete" /\ req[r].at # "valid"

PointerInv ==
  /\ PointerHasRow
  /\ datasets \subseteq known
  /\ ~alive => active = NoDataset
  /\ \A r \in Requests : Uploads(r) =>
       /\ req[r].dataset \notin datasets
       /\ req[r].at = "written" => req[r].dataset \in known
       /\ \A q \in Requests \ {r} : Uploads(q) \/ Found(q) => req[q].dataset # req[r].dataset
  /\ \A r \in Requests : Found(r) /\ req[r].at # "found" =>
       req[r].seen = req[r].dataset \/ active # req[r].dataset

Inv == TypeOK /\ Named /\ FileInv /\ ReportInv

-----------------------------------------------------------------------------
(* What the steps of a request leave in it                                  *)

LEMMA NothingIsRequest == Nothing \in Request /\ NoRun \in Run
  BY DEF Nothing, Request, NoRun, Run

LEMMA ValidatedReq ==
  ASSUME TypeOK, NEW r \in Requests, NEW op \in {"upload", "delete", "session", "branch"},
         NEW d \in Datasets \cup {NoDataset}, NEW pointer \in Datasets \cup {NoDataset},
         Validated(r, op, d, pointer)
  PROVE  /\ req' \in [Requests -> Request]
         /\ \A q \in Requests \ {r} : req'[q] = req[q]
         /\ req'[r].op = op /\ req'[r].dataset = d /\ req'[r].at = "valid"
         /\ alive
<1>1. [Nothing EXCEPT !.op = op, !.at = "valid", !.dataset = d, !.seen = pointer] \in Request
  BY DEF Nothing, Request
<1> QED
  BY <1>1 DEF Validated, TypeOK, Nothing

LEMMA GoesReq ==
  ASSUME TypeOK, NEW r \in Requests, NEW op, NEW from,
         NEW to \in {"found", "cleared", "removed", "loaded", "written"}, Goes(r, op, from, to)
  PROVE  /\ req' \in [Requests -> Request]
         /\ \A q \in Requests \ {r} : req'[q] = req[q]
         /\ req'[r].op = req[r].op /\ req'[r].dataset = req[r].dataset
         /\ req'[r].seen = req[r].seen /\ req[r].op = op
         /\ req[r].at = from /\ req'[r].at = to
<1>1. req[r] \in Request
  BY DEF TypeOK
<1>2. [req[r] EXCEPT !.at = to] \in Request
  BY <1>1 DEF Request
<1>3. req' = [req EXCEPT ![r] = [req[r] EXCEPT !.at = to]]
  BY DEF Goes
<1> QED
  BY <1>1, <1>2, <1>3 DEF Goes, TypeOK, Request

LEMMA ReadReq ==
  ASSUME TypeOK, NEW r \in Requests, ReadPointer(r)
  PROVE  /\ req' \in [Requests -> Request]
         /\ \A q \in Requests \ {r} : req'[q] = req[q]
         /\ req'[r].op = "delete" /\ req[r].op = "delete" /\ req'[r].dataset = req[r].dataset
         /\ req'[r].seen = (IF alive THEN active ELSE NoDataset)
         /\ req[r].at = "found" /\ req'[r].at = "read"
<1> DEFINE seen == IF alive THEN active ELSE NoDataset
<1>1. seen \in Datasets \cup {NoDataset}
  BY DEF TypeOK
<1>2. req' = [req EXCEPT ![r] = [req[r] EXCEPT !.at = "read", !.seen = seen]]
  BY DEF ReadPointer
<1> HIDE DEF seen
<1>3. req[r] \in Request
  BY DEF TypeOK
<1>4. [req[r] EXCEPT !.at = "read", !.seen = seen] \in Request
  BY <1>1, <1>3 DEF Request
<1>5. /\ req' \in [Requests -> Request]
      /\ \A q \in Requests \ {r} : req'[q] = req[q]
      /\ req'[r].op = req[r].op /\ req'[r].dataset = req[r].dataset
      /\ req'[r].seen = seen /\ req'[r].at = "read"
  BY <1>2, <1>3, <1>4 DEF TypeOK, Request
<1> QED
  BY <1>5 DEF ReadPointer, seen

LEMMA EndsReq ==
  ASSUME TypeOK, NEW r \in Requests, Ends(r)
  PROVE  /\ req' \in [Requests -> Request]
         /\ \A q \in Requests \ {r} : req'[q] = req[q]
         /\ req'[r] = Nothing
  BY NothingIsRequest DEF Ends, TypeOK

LEMMA NoNothing == Nothing.op \notin {"upload", "delete"}
  BY DEF Nothing

-----------------------------------------------------------------------------
(* Every step keeps Inv                                                     *)

\* A step of a request whose effect on the rest is none or its own.
LEMMA ServeStep ==
  ASSUME Inv, NEW r \in Requests, Serve(r)
  PROVE  Inv'
<1> USE WorkspaceAssumption, NoNothing DEF Inv, stored, working
<1>1. CASE SaveFile(r)
  <2>1. PICK d \in Fresh : Validated(r, "upload", d, NoDataset) /\ files' = files \cup {d}
    BY <1>1 DEF SaveFile
  <2>2. d \in Datasets
    BY <2>1 DEF Fresh
  <2>3. req' \in [Requests -> Request] /\ Named'
    BY <2>1, <2>2, ValidatedReq DEF Named
  <2> QED
    BY <1>1, <2>1, <2>2, <2>3 DEF SaveFile, TypeOK, Rows, FileInv, ReportInv
<1>2. CASE WriteUpload(r)
  <2>1. req' \in [Requests -> Request] /\ Named' /\ req[r].op = "upload"
    BY <1>2, GoesReq DEF WriteUpload, Named
  <2>2. req[r].dataset \in Datasets
    BY <2>1 DEF Named
  <2> QED
    BY <1>2, <2>1, <2>2 DEF WriteUpload, TypeOK, Rows, FileInv, ReportInv
<1>3. CASE CommitUpload(r)
  <2>1. req' \in [Requests -> Request] /\ Named' /\ req[r].op = "upload" /\ lock' = NoOne
    BY <1>3, EndsReq DEF CommitUpload, Commits, Named
  <2>2. req[r].dataset \in Datasets
    BY <2>1 DEF Named
  <2> QED
    BY <1>3, <2>1, <2>2 DEF CommitUpload, TypeOK, Rows, FileInv, ReportInv
<1>4. CASE BeginDelete(r)
  <2>1. PICK d \in known : Validated(r, "delete", d, NoDataset)
    BY <1>4 DEF BeginDelete
  <2>2. d \in Datasets
    BY <2>1 DEF TypeOK
  <2>3. req' \in [Requests -> Request] /\ Named'
    BY <2>1, <2>2, ValidatedReq DEF Named
  <2> QED
    BY <1>4, <2>3 DEF BeginDelete, TypeOK, Rows, FileInv, ReportInv
<1>5. CASE FindDataset(r)
  <2>1. req' \in [Requests -> Request] /\ Named'
    BY <1>5, GoesReq, EndsReq DEF FindDataset, Named
  <2> QED
    BY <1>5, <2>1 DEF FindDataset, TypeOK, Rows, FileInv, ReportInv
<1>6. CASE ClearPointer(r) \/ DeleteRow(r)
  <2>1. req' \in [Requests -> Request] /\ Named'
    BY <1>6, GoesReq DEF ClearPointer, DeleteRow, Named
  <2>2. lock' \in {lock, r}
    BY <1>6 DEF ClearPointer, DeleteRow
  <2>3. UNCHANGED <<stored, files, known, working>>
    BY <1>6 DEF ClearPointer, DeleteRow
  <2> QED
    BY <2>1, <2>2, <2>3 DEF TypeOK, Rows, FileInv, ReportInv
<1>7. CASE RemoveFile(r)
  <2>1. req' \in [Requests -> Request] /\ Named' /\ req[r].op = "delete"
    BY <1>7, GoesReq DEF RemoveFile, Named
  <2>2. req[r].dataset \in Datasets
    BY <2>1 DEF Named
  <2>3. Rows \cup run.pending \subseteq files' /\ (run.at \in {"insert", "commit"} => run.writing \in files')
    <3>1. run.pending \subseteq Artifacts /\ run.writing \in Artifacts \cup {NoArtifact}
      BY DEF TypeOK, Run
    <3>2. files' = files \ {req[r].dataset}
      BY <1>7 DEF RemoveFile
    <3>3. Rows \cup run.pending \subseteq files'
      BY <2>2, <3>1, <3>2 DEF TypeOK, FileInv
    <3>4. ASSUME run.at \in {"insert", "commit"} PROVE run.writing \in files'
      BY <2>2, <3>2, <3>4 DEF FileInv
    <3> QED
      BY <3>3, <3>4
  <2> QED
    BY <1>7, <2>1, <2>3 DEF RemoveFile, TypeOK, Rows, FileInv, ReportInv
<1>8. CASE CommitDelete(r)
  <2>1. req' \in [Requests -> Request] /\ Named' /\ lock' = NoOne
    BY <1>8, EndsReq DEF CommitDelete, Commits, Named
  <2> QED
    BY <1>8, <2>1 DEF CommitDelete, TypeOK, Rows, FileInv, ReportInv
<1>9. CASE BeginDrop(r)
  <2>1. PICK op \in {"session", "branch"}, pointer \in Datasets \cup {NoDataset} :
          Validated(r, op, NoDataset, pointer)
    BY <1>9 DEF BeginDrop, TypeOK
  <2>2. req' \in [Requests -> Request] /\ Named'
    BY <2>1, ValidatedReq DEF Named
  <2> QED
    BY <1>9, <2>2 DEF BeginDrop, TypeOK, Rows, FileInv, ReportInv
<1>10. CASE LoadChildren(r)
  <2>1. [req[r] EXCEPT !.at = "loaded", !.loaded = OfStep] \in Request
    <3>1. req[r] \in Request /\ OfStep \in SUBSET Artifacts
      BY DEF TypeOK, OfStep
    <3> QED
      BY <3>1 DEF Request
  <2>2. req' = [req EXCEPT ![r] = [req[r] EXCEPT !.at = "loaded", !.loaded = OfStep]]
    BY <1>10 DEF LoadChildren
  <2>3. req' \in [Requests -> Request] /\ Named'
    BY <2>1, <2>2 DEF TypeOK, Named, Request
  <2>4. lock' \in {lock, r}
    BY <1>10 DEF LoadChildren
  <2> QED
    BY <1>10, <2>3, <2>4 DEF LoadChildren, TypeOK, Rows, FileInv, ReportInv
<1>11. CASE WriteDrop(r)
  <2>1. req' \in [Requests -> Request] /\ Named'
    BY <1>11, GoesReq DEF WriteDrop, Named
  <2> QED
    BY <1>11, <2>1 DEF WriteDrop, TypeOK, Rows, FileInv, ReportInv
<1>12. CASE CommitDrop(r)
  <2>1. req' \in [Requests -> Request] /\ Named' /\ lock' = NoOne
    BY <1>12, EndsReq DEF CommitDrop, Commits, Named
  <2>2. artifacts' = [a \in Rows \ req[r].loaded |-> artifacts[a]] /\ branch' = FALSE
    BY <1>12 DEF CommitDrop, Without
  <2>3. Rows' \subseteq Rows /\ artifacts' \in [Rows' -> BOOLEAN]
    BY <2>2 DEF Rows, TypeOK
  <2>4. alive' \in BOOLEAN /\ active' \in {active, NoDataset}
    BY <1>12 DEF CommitDrop, TypeOK
  <2> QED
    BY <1>12, <2>1, <2>2, <2>3, <2>4 DEF CommitDrop, TypeOK, FileInv, ReportInv
<1>13. CASE Rollback(r)
  <2>1. req' \in [Requests -> Request] /\ Named'
    BY <1>13, EndsReq DEF Rollback, Named
  <2> QED
    BY <1>13, <2>1 DEF Rollback, TypeOK, Rows, FileInv, ReportInv
<1>14. CASE ReadPointer(r)
  <2>1. req' \in [Requests -> Request] /\ Named'
    BY <1>14, ReadReq DEF Named
  <2> QED
    BY <1>14, <2>1 DEF ReadPointer, TypeOK, Rows, FileInv, ReportInv
<1> QED
  BY <1>1, <1>2, <1>3, <1>4, <1>5, <1>6, <1>7, <1>8, <1>9, <1>10, <1>11, <1>12, <1>13, <1>14
  DEF Serve

LEMMA AnalyseStep ==
  ASSUME Inv, Analyse \/ Crash \/ UNCHANGED vars
  PROVE  Inv'
<1> USE WorkspaceAssumption, NoNothing, NothingIsRequest DEF Inv, stored, working
<1>0. run \in Run
  BY DEF TypeOK
<1>1. CASE StartRun
  <2>1. run' \in Run /\ run'.at = "session" /\ run'.pending = {} /\ run'.recorded = {}
    BY <1>1 DEF StartRun, NoRun, Run
  <2>2. runs' \in 0 .. MaxRuns
    BY <1>1 DEF StartRun, TypeOK
  <2> QED
    BY <1>1, <2>1, <2>2 DEF StartRun, TypeOK, Rows, FileInv, ReportInv, Named
<1>2. CASE ReadSession
  <2>1. run' \in Run /\ run'.at \notin {"file", "insert", "commit"}
        /\ run'.pending \subseteq run.pending /\ run'.recorded \subseteq run.recorded
    BY <1>0, <1>2 DEF ReadSession, NoRun, Run, TypeOK
  <2> QED
    BY <1>2, <2>1 DEF ReadSession, TypeOK, Rows, FileInv, ReportInv, Named
<1>3. CASE ReadContext
  <2>1. run' \in Run /\ run'.at \notin {"file", "insert", "commit"}
        /\ run'.pending = {} /\ run'.recorded = {}
    <3>1. branch \in BOOLEAN
      BY DEF TypeOK
    <3>2. [NoRun EXCEPT !.at = "agent", !.branch = branch] \in Run
      BY <3>1 DEF NoRun, Run
    <3>3. run' \in {NoRun, [NoRun EXCEPT !.at = "agent", !.branch = branch]}
      BY <1>3 DEF ReadContext
    <3>4. CASE run' = NoRun
      BY <3>4 DEF NoRun
    <3>5. CASE run' = [NoRun EXCEPT !.at = "agent", !.branch = branch]
      BY <3>2, <3>5 DEF NoRun
    <3> QED
      BY <3>3, <3>4, <3>5
  <2> QED
    BY <1>3, <2>1 DEF ReadContext, TypeOK, Rows, FileInv, ReportInv, Named
<1>4. CASE WriteWorkFile
  <2>1. run' \in Run /\ run'.at = "agent" /\ run'.pending = run.pending /\ run'.recorded = run.recorded
    BY <1>0, <1>4 DEF WriteWorkFile, Run
  <2> QED
    BY <1>4, <2>1 DEF WriteWorkFile, TypeOK, Rows, FileInv, ReportInv, Named
<1>5. ASSUME NEW workfile \in BOOLEAN, Recording(workfile) PROVE Inv'
  <2>1. PICK a \in Artifacts : run' = [run EXCEPT !.at = "file", !.writing = a, !.workfile = workfile]
    BY <1>5 DEF Recording, NewArtifacts
  <2>2. run' \in Run /\ run'.at = "file" /\ run'.writing = a /\ run'.pending = run.pending
        /\ run'.recorded = run.recorded
    BY <1>0, <2>1 DEF Run
  <2> QED
    BY <1>5, <2>2 DEF Recording, TypeOK, Rows, FileInv, ReportInv, Named
<1>6. CASE RecordResult \/ RecordWorkFile
  <2>1. run.workfile \in BOOLEAN
    BY <1>0 DEF Run
  <2> QED
    BY <1>5, <1>6, <2>1 DEF RecordResult, RecordWorkFile
<1>7. CASE WriteArtifact
  <2>1. CASE run.at = "file" /\ run' = [run EXCEPT !.at = "insert"] /\ files' = files \cup {run.writing}
    <3>1. run' \in Run /\ run'.at = "insert" /\ run'.pending = run.pending
          /\ run'.recorded = run.recorded /\ run'.writing = run.writing
      BY <1>0, <2>1 DEF Run
    <3> QED
      BY <1>7, <2>1, <3>1 DEF WriteArtifact, TypeOK, Rows, FileInv, ReportInv, Named
  <2>2. CASE GivesUp /\ UNCHANGED files
    <3>1. run' \in Run /\ run'.at = "agent" /\ run'.pending = run.pending /\ run'.recorded = run.recorded
      BY <1>0, <2>2 DEF GivesUp, Run
    <3> QED
      BY <1>7, <2>2, <3>1 DEF WriteArtifact, TypeOK, Rows, FileInv, ReportInv, Named
  <2> QED
    BY <1>7, <2>1, <2>2 DEF WriteArtifact
<1>8. CASE InsertArtifact
  <2>1. CASE lock' = Worker /\ run' = [run EXCEPT !.at = "commit", !.pending = @ \cup {run.writing}]
    <3>1. run' \in Run /\ run'.at = "commit" /\ run'.pending = run.pending \cup {run.writing}
          /\ run'.recorded = run.recorded /\ run'.writing = run.writing
      BY <1>0, <1>8, <2>1 DEF InsertArtifact, Run, FileInv
    <3> QED
      BY <1>8, <2>1, <3>1 DEF InsertArtifact, TypeOK, Rows, FileInv, ReportInv, Named
  <2>2. CASE GivesUp /\ UNCHANGED lock
    <3>1. run' \in Run /\ run'.at = "agent" /\ run'.pending = run.pending /\ run'.recorded = run.recorded
      BY <1>0, <2>2 DEF GivesUp, Run
    <3> QED
      BY <1>8, <2>2, <3>1 DEF InsertArtifact, TypeOK, Rows, FileInv, ReportInv, Named
  <2> QED
    BY <1>8, <2>1, <2>2 DEF InsertArtifact
<1>9. ASSUME artifacts' = Committed(run.pending)
      PROVE  /\ Rows' = Rows \cup run.pending /\ Rows' \subseteq Artifacts
             /\ artifacts' \in [Rows' -> BOOLEAN]
  <2>1. Rows' = Rows \cup run.pending
    BY <1>9 DEF Committed, Rows
  <2>2. \A a \in Rows' : (IF a \in run.pending THEN run.step ELSE artifacts[a]) \in BOOLEAN
    BY <1>0, <2>1 DEF Run, TypeOK, Rows
  <2> QED
    BY <1>0, <1>9, <2>1, <2>2 DEF Committed, Run, TypeOK
<1>10. CASE RecordStep
  <2>1. CASE run' = [run EXCEPT !.step = TRUE, !.pending = {}] /\ artifacts' = Committed(run.pending) /\ lock' = NoOne
    <3>1. run' \in Run /\ run'.at = "agent" /\ run'.pending = {} /\ run'.recorded = run.recorded
      BY <1>0, <1>10, <2>1 DEF RecordStep, Run
    <3> QED
      BY <1>9, <1>10, <2>1, <3>1 DEF RecordStep, TypeOK, FileInv, ReportInv, Named
  <2>2. CASE lock' = Worker /\ UNCHANGED <<run, artifacts>>
    BY <1>10, <2>2 DEF RecordStep, TypeOK, Rows, FileInv, ReportInv, Named
  <2> QED
    BY <1>10, <2>1, <2>2 DEF RecordStep
<1>11. CASE CommitArtifact
  <2>1. CASE /\ artifacts' = Committed(run.pending) /\ lock' = NoOne
             /\ run' = [run EXCEPT !.at = "agent", !.writing = NoArtifact, !.pending = {},
                                   !.recorded = @ \cup {run.writing}]
    <3>1. run' \in Run /\ run'.at = "agent" /\ run'.pending = {}
          /\ run'.recorded = run.recorded \cup {run.writing}
      BY <1>0, <1>11, <2>1 DEF CommitArtifact, Run, FileInv
    <3>2. run.writing \in Rows'
      BY <1>9, <1>11, <2>1 DEF CommitArtifact, ReportInv
    <3> QED
      BY <1>9, <1>11, <2>1, <3>1, <3>2 DEF CommitArtifact, TypeOK, FileInv, ReportInv, Named
  <2>2. CASE run' = NotListed /\ UNCHANGED <<artifacts, lock>>
    <3>1. run' \in Run /\ run'.at = "agent" /\ run'.pending = run.pending /\ run'.recorded = run.recorded
      BY <1>0, <2>2 DEF NotListed, Run
    <3> QED
      BY <1>11, <2>2, <3>1 DEF CommitArtifact, TypeOK, Rows, FileInv, ReportInv, Named
  <2> QED
    BY <1>11, <2>1, <2>2 DEF CommitArtifact
<1>12. NoRun.at = "idle" /\ NoRun.pending = {} /\ NoRun.recorded = {}
  BY DEF NoRun
<1>13. CASE FinishRun \/ CancelRun
  <2>1. run' = NoRun /\ lock' \in {lock, NoOne}
    BY <1>13 DEF FinishRun, CancelRun, Closes
  <2>2. reported' \in {reported, reported \cup run.recorded}
    BY <1>13 DEF FinishRun, CancelRun
  <2>3. run.recorded \subseteq Artifacts
    BY <1>0 DEF Run
  <2> QED
    BY <1>12, <1>13, <2>1, <2>2, <2>3 DEF FinishRun, CancelRun, TypeOK, Rows, FileInv, ReportInv, Named
<1>14. CASE Crash
  <2>1. req' \in [Requests -> Request] /\ Named'
    BY <1>14 DEF Crash, Named
  <2> QED
    BY <1>12, <1>14, <2>1 DEF Crash, TypeOK, Rows, FileInv, ReportInv
<1>15. CASE UNCHANGED vars
  BY <1>15 DEF vars, TypeOK, Rows, FileInv, ReportInv, Named
<1> QED
  BY <1>1, <1>2, <1>3, <1>4, <1>6, <1>7, <1>8, <1>10, <1>11, <1>13, <1>14, <1>15 DEF Analyse

LEMMA InvStep == Inv /\ [Next]_vars => Inv'
  BY ServeStep, AnalyseStep DEF Next

LEMMA InvInit == Init => Inv
  BY WorkspaceAssumption, NothingIsRequest, NoNothing
     DEF Init, Inv, TypeOK, Named, FileInv, ReportInv, Rows, NoRun, Nothing

\* Every variable keeps its type, and every request and recorder holds what
\* its step needs.
THEOREM InvariantHolds == Spec => [](TypeOK /\ Inv)
<1>1. Inv => TypeOK
  BY DEF Inv
<1> QED
  BY <1>1, InvInit, InvStep, PTL DEF Spec

\* record_artifact writes an artifact's file before its row, and no handler
\* removes the file: a row in artifacts has its file.
THEOREM RowsHaveFiles == Spec => []RowHasFile
<1>1. Inv => RowHasFile
  BY DEF Inv, FileInv, RowHasFile
<1> QED
  BY <1>1, InvInit, InvStep, PTL DEF Spec

\* What run_analysis_agent lists in an answer or an error is committed, until
\* the session or the branch goes.
THEOREM ReportedStays == Spec => []ReportedIsStored
<1>1. Inv => ReportedIsStored
  BY DEF Inv, ReportInv, ReportedIsStored
<1> QED
  BY <1>1, InvInit, InvStep, PTL DEF Spec

-----------------------------------------------------------------------------
(* The pointer to the active data set                                       *)

\* A request that goes on without touching sessions and data sets.
LEMMA PointerGoes ==
  ASSUME Inv, PointerInv, NEW r \in Requests, UNCHANGED stored, known \subseteq known',
         \A q \in Requests \ {r} : req'[q] = req[q],
         req'[r].op = req[r].op, req'[r].dataset = req[r].dataset,
         Uploads(r) /\ req'[r].at = "written" => req[r].dataset \in known',
         Found(r)' => Found(r) \/ req[r].dataset \in datasets,
         Found(r)' /\ req'[r].at # "found" =>
           req'[r].seen = req[r].dataset \/ active # req[r].dataset
  PROVE  PointerInv'
<1> USE DEF stored
<1>1. PointerHasRow' /\ (datasets \subseteq known)' /\ (~alive => active = NoDataset)'
  BY DEF PointerInv, PointerHasRow
<1>2. ASSUME NEW p \in Requests, Uploads(p)'
      PROVE  /\ req'[p].dataset \notin datasets'
             /\ req'[p].at = "written" => req'[p].dataset \in known'
             /\ \A q \in Requests \ {p} : (Uploads(q) \/ Found(q))' => req'[q].dataset # req'[p].dataset
  <2>1. Uploads(p) /\ req'[p].dataset = req[p].dataset /\ req[p].dataset \notin datasets
    BY <1>2 DEF PointerInv, Uploads
  <2>2. req'[p].at = "written" => req'[p].dataset \in known'
    BY <2>1 DEF PointerInv, Uploads
  <2>3. ASSUME NEW q \in Requests \ {p}, (Uploads(q) \/ Found(q))'
        PROVE  req'[q].dataset # req'[p].dataset
    <3>1. req'[q].dataset = req[q].dataset
      OBVIOUS
    <3>2. Uploads(q) \/ Found(q) \/ req[q].dataset \in datasets
      BY <2>3 DEF Uploads, Found
    <3> QED
      BY <2>1, <3>1, <3>2 DEF PointerInv
  <2> QED
    BY <2>1, <2>2, <2>3
<1>3. ASSUME NEW p \in Requests, Found(p)', req'[p].at # "found"
      PROVE  req'[p].seen = req'[p].dataset \/ active' # req'[p].dataset
  BY <1>3 DEF PointerInv, Found
<1> QED
  BY <1>1, <1>2, <1>3 DEF PointerInv

\* A request that is over, where the rest of the invariant is kept.
LEMMA PointerEnds ==
  ASSUME Inv, PointerInv, NEW r \in Requests, PointerHasRow', UNCHANGED known,
         datasets' \subseteq datasets, ~alive' => active' = NoDataset,
         active' \in {active, NoDataset},
         req'[r] = Nothing, \A q \in Requests \ {r} : req'[q] = req[q]
  PROVE  PointerInv'
<1>1. ~Uploads(r)' /\ ~Found(r)'
  BY NoNothing DEF Uploads, Found
<1>2. ASSUME NEW p \in Requests, Found(p)', req'[p].at # "found"
      PROVE  req'[p].seen = req'[p].dataset \/ active' # req'[p].dataset
  <2>1. p # r /\ req'[p] = req[p]
    BY <1>1, <1>2
  <2>2. req[p].dataset \in Datasets
    BY <1>2, <2>1 DEF Inv, Named, Found
  <2>3. req[p].seen = req[p].dataset \/ active # req[p].dataset
    BY <1>2, <2>1 DEF PointerInv, Found
  <2> QED
    BY <2>1, <2>2, <2>3, WorkspaceAssumption
<1>3. ASSUME NEW p \in Requests, Uploads(p)'
      PROVE  /\ req'[p].dataset \notin datasets'
             /\ req'[p].at = "written" => req'[p].dataset \in known'
             /\ \A q \in Requests \ {p} : (Uploads(q) \/ Found(q))' => req'[q].dataset # req'[p].dataset
  <2>1. p # r /\ req'[p] = req[p] /\ Uploads(p)
    BY <1>1, <1>3 DEF Uploads
  <2>2. ASSUME NEW q \in Requests \ {p}, (Uploads(q) \/ Found(q))'
        PROVE  q # r /\ req'[q] = req[q] /\ (Uploads(q) \/ Found(q))
    BY <1>1, <2>2 DEF Uploads, Found
  <2> QED
    BY <2>1, <2>2 DEF PointerInv
<1> QED
  BY <1>2, <1>3 DEF PointerInv

LEMMA PointerServe ==
  ASSUME Inv, PointerInv, NEW r \in Requests, Serve(r)
  PROVE  PointerInv'
<1> USE WorkspaceAssumption, NoNothing DEF stored, working
<1>0. TypeOK /\ Named
  BY DEF Inv
<1>1. CASE SaveFile(r)
  <2>1. PICK d \in Fresh : Validated(r, "upload", d, NoDataset)
    BY <1>1 DEF SaveFile
  <2>2. d \in Datasets \ known /\ \A q \in Requests : req[q].dataset # d
    BY <2>1 DEF Fresh
  <2>3. /\ \A q \in Requests \ {r} : req'[q] = req[q]
        /\ req'[r].op = "upload" /\ req'[r].dataset = d /\ req'[r].at = "valid"
    BY <1>0, <2>1, <2>2, ValidatedReq
  <2>4. d \notin datasets /\ UNCHANGED <<alive, active, datasets, known>>
    BY <1>1, <2>2 DEF SaveFile, PointerInv
  <2> QED
    BY <2>2, <2>3, <2>4 DEF PointerInv, PointerHasRow, Uploads, Found
<1>2. CASE WriteUpload(r)
  <2>1. /\ \A q \in Requests \ {r} : req'[q] = req[q]
        /\ req'[r].op = req[r].op /\ req'[r].dataset = req[r].dataset /\ req[r].op = "upload"
    BY <1>0, <1>2, GoesReq DEF WriteUpload
  <2>2. UNCHANGED stored /\ known' = known \cup {req[r].dataset}
    BY <1>2 DEF WriteUpload
  <2>3. ~Found(r)'
    BY <2>1 DEF Found
  <2> QED
    BY <2>1, <2>2, <2>3, PointerGoes
<1>3. CASE CommitUpload(r)
  <2> DEFINE d == req[r].dataset
  <2>1. /\ \A q \in Requests \ {r} : req'[q] = req[q]
        /\ req'[r] = Nothing /\ Uploads(r) /\ req[r].at = "written"
    BY <1>0, <1>3, EndsReq DEF CommitUpload, Commits, Uploads
  <2>2. d \in known /\ \A q \in Requests \ {r} : Uploads(q) \/ Found(q) => req[q].dataset # d
    BY <2>1 DEF PointerInv
  <2>3. /\ datasets' = datasets \cup {d} /\ UNCHANGED <<alive, known>>
        /\ active' = IF alive THEN d ELSE active
    BY <1>3 DEF CommitUpload
  <2>4. PointerHasRow' /\ datasets' \subseteq known' /\ (~alive' => active' = NoDataset)
    BY <2>2, <2>3 DEF PointerInv, PointerHasRow
  <2>5. ~Uploads(r)' /\ ~Found(r)'
    BY <2>1 DEF Uploads, Found
  <2>6. ASSUME NEW q \in Requests, Found(q)', req'[q].at # "found"
        PROVE  req'[q].seen = req'[q].dataset \/ active' # req'[q].dataset
    <3>1. q # r /\ req'[q] = req[q] /\ Found(q)
      BY <2>1, <2>5, <2>6 DEF Found
    <3> QED
      BY <2>2, <2>3, <2>6, <3>1 DEF PointerInv
  <2>7. ASSUME NEW p \in Requests, Uploads(p)'
        PROVE  /\ req'[p].dataset \notin datasets'
               /\ req'[p].at = "written" => req'[p].dataset \in known'
               /\ \A q \in Requests \ {p} : (Uploads(q) \/ Found(q))' => req'[q].dataset # req'[p].dataset
    <3>1. p # r /\ req'[p] = req[p] /\ Uploads(p)
      BY <2>1, <2>5, <2>7 DEF Uploads
    <3>2. req'[p].dataset \notin datasets' /\ (req'[p].at = "written" => req'[p].dataset \in known')
      BY <2>2, <2>3, <3>1 DEF PointerInv
    <3>3. ASSUME NEW q \in Requests \ {p}, (Uploads(q) \/ Found(q))'
          PROVE  q # r /\ req'[q] = req[q] /\ (Uploads(q) \/ Found(q))
      BY <2>1, <2>5, <3>3 DEF Uploads, Found
    <3> QED
      BY <3>1, <3>2, <3>3 DEF PointerInv
  <2> QED
    BY <2>4, <2>6, <2>7 DEF PointerInv
<1>4. CASE BeginDelete(r)
  <2>1. PICK d \in known : Validated(r, "delete", d, NoDataset)
    BY <1>4 DEF BeginDelete
  <2>2. d \in Datasets
    BY <1>0, <2>1 DEF TypeOK
  <2>3. /\ \A q \in Requests \ {r} : req'[q] = req[q]
        /\ req'[r].op = "delete" /\ req'[r].at = "valid"
    BY <1>0, <2>1, <2>2, ValidatedReq
  <2>4. UNCHANGED <<alive, active, datasets, known>>
    BY <1>4 DEF BeginDelete
  <2> QED
    BY <2>3, <2>4 DEF PointerInv, PointerHasRow, Uploads, Found
<1>5. CASE FindDataset(r)
  <2>1. CASE Goes(r, "delete", "valid", "found") /\ req[r].dataset \in datasets
    <3>1. /\ \A q \in Requests \ {r} : req'[q] = req[q]
          /\ req'[r].op = req[r].op /\ req'[r].dataset = req[r].dataset
          /\ req'[r].at = "found"
      BY <1>0, <2>1, GoesReq
    <3>2. UNCHANGED stored /\ known' = known
      BY <1>5 DEF FindDataset
    <3>3. ~Uploads(r)
      BY <2>1 DEF Uploads, Goes
    <3> QED
      BY <2>1, <3>1, <3>2, <3>3, PointerGoes
  <2>2. CASE Ends(r)
    <3>1. req'[r] = Nothing /\ \A q \in Requests \ {r} : req'[q] = req[q]
      BY <1>0, <2>2, EndsReq
    <3>2. UNCHANGED <<alive, active, datasets, known>>
      BY <1>5 DEF FindDataset
    <3>3. PointerHasRow' /\ (~alive' => active' = NoDataset)
      BY <3>2 DEF PointerInv, PointerHasRow
    <3> QED
      BY <3>1, <3>2, <3>3, PointerEnds
  <2> QED
    BY <1>5, <2>1, <2>2 DEF FindDataset
<1>6. CASE ReadPointer(r)
  <2>1. /\ \A q \in Requests \ {r} : req'[q] = req[q]
        /\ req'[r].op = "delete" /\ req[r].op = "delete" /\ req'[r].dataset = req[r].dataset
        /\ req'[r].seen = (IF alive THEN active ELSE NoDataset)
        /\ req[r].at = "found"
    BY <1>0, <1>6, ReadReq
  <2>2. UNCHANGED stored /\ known' = known
    BY <1>6 DEF ReadPointer
  <2>3. req[r].dataset # NoDataset
    BY <1>0, <2>1 DEF Named
  <2>4. req'[r].seen = active
    BY <2>1 DEF PointerInv
  <2>5. Found(r) /\ ~Uploads(r)
    BY <2>1 DEF Found, Uploads
  <2>6. req'[r].seen = req[r].dataset \/ active # req[r].dataset
    BY <2>4
  <2> QED
    BY <2>1, <2>2, <2>5, <2>6, PointerGoes
<1>7. CASE ClearPointer(r) \/ RemoveFile(r) \/ DeleteRow(r)
  <2>1. /\ \A q \in Requests \ {r} : req'[q] = req[q]
        /\ req'[r].op = req[r].op /\ req'[r].dataset = req[r].dataset
        /\ req'[r].seen = req[r].seen /\ req[r].op = "delete"
        /\ req[r].at \in {"read", "cleared", "removed"}
    BY <1>0, <1>7, GoesReq DEF ClearPointer, RemoveFile, DeleteRow
  <2>2. UNCHANGED stored /\ known' = known
    BY <1>7 DEF ClearPointer, RemoveFile, DeleteRow
  <2>3. Found(r) /\ ~Uploads(r)
    BY <2>1 DEF Found, Uploads
  <2>4. req[r].seen = req[r].dataset \/ active # req[r].dataset
    BY <2>1, <2>3 DEF PointerInv
  <2> QED
    BY <2>1, <2>2, <2>3, <2>4, PointerGoes
<1>8. CASE WriteDrop(r)
  <2>1. /\ \A q \in Requests \ {r} : req'[q] = req[q]
        /\ req'[r].op = req[r].op /\ req'[r].dataset = req[r].dataset
        /\ req[r].op \in {"session", "branch"}
    BY <1>0, <1>8, GoesReq DEF WriteDrop
  <2>2. UNCHANGED stored /\ known' = known
    BY <1>8 DEF WriteDrop
  <2>3. ~Uploads(r) /\ ~Found(r)'
    BY <2>1 DEF Found, Uploads
  <2> QED
    BY <2>1, <2>2, <2>3, PointerGoes
<1>9. CASE CommitDelete(r)
  <2>1. /\ \A q \in Requests \ {r} : req'[q] = req[q]
        /\ req'[r] = Nothing /\ req[r].op = "delete" /\ req[r].at = "written"
    BY <1>0, <1>9, EndsReq DEF CommitDelete, Commits
  <2>2. req[r].seen = req[r].dataset \/ active # req[r].dataset
    BY <2>1 DEF PointerInv, Found
  <2>3. active' = NoDataset \/ (active' = active /\ active # req[r].dataset)
    <3>1. active' = IF req[r].seen = req[r].dataset THEN NoDataset ELSE active
      BY <1>9 DEF CommitDelete, ClearsPointer
    <3> QED
      BY <2>2, <3>1
  <2>4. datasets' = datasets \ {req[r].dataset} /\ UNCHANGED <<alive, known>>
    BY <1>9 DEF CommitDelete
  <2>5. PointerHasRow' /\ (~alive' => active' = NoDataset)
    BY <2>3, <2>4 DEF PointerInv, PointerHasRow
  <2>6. datasets' \subseteq datasets /\ active' \in {active, NoDataset}
    BY <2>3, <2>4
  <2> QED
    BY <2>1, <2>4, <2>5, <2>6, PointerEnds
<1>10. CASE BeginDrop(r)
  <2>1. PICK op \in {"session", "branch"}, pointer \in Datasets \cup {NoDataset} :
          Validated(r, op, NoDataset, pointer)
    BY <1>0, <1>10 DEF BeginDrop, TypeOK
  <2>2. /\ \A q \in Requests \ {r} : req'[q] = req[q]
        /\ req'[r].op = op
    BY <1>0, <2>1, ValidatedReq
  <2>3. UNCHANGED <<alive, active, datasets, known>>
    BY <1>10 DEF BeginDrop
  <2> QED
    BY <2>2, <2>3 DEF PointerInv, PointerHasRow, Uploads, Found
<1>11. CASE LoadChildren(r)
  <2>1. /\ \A q \in Requests \ {r} : req'[q] = req[q]
        /\ req'[r].op = req[r].op /\ req'[r].dataset = req[r].dataset
        /\ req[r].op \in {"session", "branch"}
    <3>1. req' = [req EXCEPT ![r] = [req[r] EXCEPT !.at = "loaded", !.loaded = OfStep]]
      BY <1>11 DEF LoadChildren
    <3>2. req \in [Requests -> Request] /\ req[r] \in Request
      BY <1>0 DEF TypeOK
    <3> QED
      BY <1>11, <3>1, <3>2 DEF LoadChildren, Request
  <2>2. UNCHANGED stored /\ known' = known
    BY <1>11 DEF LoadChildren
  <2>3. ~Uploads(r) /\ ~Found(r)'
    BY <2>1 DEF Found, Uploads
  <2> QED
    BY <2>1, <2>2, <2>3, PointerGoes
<1>12. CASE CommitDrop(r) \/ Rollback(r)
  <2>1. req'[r] = Nothing /\ \A q \in Requests \ {r} : req'[q] = req[q]
    BY <1>0, <1>12, EndsReq DEF CommitDrop, Rollback, Commits
  <2>2. /\ UNCHANGED <<datasets, known>>
        /\ alive' = alive \/ active' = NoDataset
        /\ alive' => alive
    <3>1. CASE CommitDrop(r)
      BY <1>0, <3>1 DEF CommitDrop, TypeOK
    <3>2. CASE Rollback(r)
      BY <3>2 DEF Rollback
    <3> QED
      BY <1>12, <3>1, <3>2
  <2>3. active' \in {active, NoDataset}
    BY <1>12 DEF CommitDrop, Rollback
  <2>4. PointerHasRow' /\ (~alive' => active' = NoDataset)
    BY <2>2, <2>3 DEF PointerInv, PointerHasRow
  <2> QED
    BY <2>1, <2>2, <2>3, <2>4, PointerEnds
<1> QED
  BY <1>1, <1>2, <1>3, <1>4, <1>5, <1>6, <1>7, <1>8, <1>9, <1>10, <1>11, <1>12 DEF Serve

\* The agent does not touch data sets, and a crash forgets the requests.
LEMMA PointerElse ==
  ASSUME PointerInv, Analyse \/ Crash \/ UNCHANGED vars
  PROVE  PointerInv'
<1> USE NoNothing DEF stored, working
<1>1. CASE Analyse
  <2>1. UNCHANGED <<alive, active, datasets, known, req>>
    BY <1>1 DEF Analyse, StartRun, ReadSession, ReadContext, WriteWorkFile, RecordResult,
       RecordWorkFile, Recording, RecordStep, WriteArtifact, InsertArtifact, CommitArtifact,
       FinishRun, CancelRun
  <2> QED
    BY <2>1 DEF PointerInv, PointerHasRow, Uploads, Found
<1>2. CASE Crash
  BY <1>2 DEF Crash, PointerInv, PointerHasRow, Uploads, Found
<1>3. CASE UNCHANGED vars
  BY <1>3 DEF vars, PointerInv, PointerHasRow, Uploads, Found
<1> QED
  BY <1>1, <1>2, <1>3

\* delete_dataset finds the row, then reads the pointer, then clears it or not;
\* whatever commits in between, the pointer of a session leads to a row.
THEOREM PointerLeadsToRow == Spec => []PointerHasRow
<1>1. Init => PointerInv
  BY NoNothing DEF Init, PointerInv, PointerHasRow, Uploads, Found
<1>2. Inv /\ PointerInv /\ [Next]_vars => PointerInv'
  BY PointerServe, PointerElse DEF Next
<1>3. PointerInv => PointerHasRow
  BY DEF PointerInv
<1> QED
  BY <1>1, <1>2, <1>3, InvInit, InvStep, PTL DEF Spec
=============================================================================

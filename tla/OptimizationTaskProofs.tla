------------------------ MODULE OptimizationTaskProofs ------------------------
(* Theorems about OptimizationTask for every value of its constants.        *)
EXTENDS OptimizationTask, TLAPS

(***************************************************************************)
(* The inductive invariant.  SubmitInv: an open submission has no rows, and *)
(* the two rows appear together.  ResultInv: a completed run's row is right *)
(* and its task records no more.  OrderInv follows the two status writes    *)
(* that end a task, while no write is lost.                                 *)
(***************************************************************************)
TrialInv == TypeOK /\ (stage = "scoring" => Len(history) < tried)

SubmitInv ==
  /\ open => jobRow = "absent"
  /\ jobRow = "absent" <=> opt.status = "absent"
  /\ jobRow = "absent" => canc = "idle"

ResultInv ==
  opt.status = "completed" =>
    CompletedRunHasResult /\ stage \in {"reporting", "over", "lost"}

Started == {"loading", "optimizing", "scoring", "saving", "reporting", "interrupted",
            "cancelling", "failing", "settling", "over"}

\* What the rows may say while the task writes its last words.
OrderInv ==
  ~contended =>
    /\ stage \in Started => ~open
    /\ JobCompletesLast
    /\ stage = "reporting" => opt.status \in {"absent", "completed"}
    /\ stage = "cancelling" => jobRow \in {"absent", "cancelled"}
    /\ stage = "settling" => jobRow \in {"absent", "failed", "cancelled"}
    /\ stage = "over" => opt.status \in {"absent"} \cup Terminal
    /\ RowsAgreeAtEnd

IInv == TrialInv /\ SubmitInv /\ ResultInv /\ OrderInv

\* No trial is being scored, at most n are recorded, and the flag or the end
\* of the task keeps it so.
NoMoreThan(n) ==
  /\ Len(history) <= n /\ stage # "scoring"
  /\ flag \/ stage \in {"over", "lost", "withdrawn"}

\* Every step keeps the types and records at most the trials it started.
LEMMA TrialStep == TrialInv /\ [Next]_vars => TrialInv'
<1> SUFFICES ASSUME TrialInv, [Next]_vars PROVE TrialInv'
  OBVIOUS
<1> USE TrialAssumption DEF vars, rows, trials, TrialInv, TypeOK, Stage, Active, Terminal, Result
<1>1. CASE Enqueue
  BY <1>1 DEF Enqueue
<1>2. CASE CommitRun
  BY <1>2 DEF CommitRun
<1>3. CASE RollbackRun
  <2>1. UNCHANGED <<jobRow, opt, stage, tried, history, flag, canc, contended>>
    BY <1>3 DEF RollbackRun
  <2>2. open' \in BOOLEAN
    BY <1>3 DEF RollbackRun
  <2> QED
    BY <2>1, <2>2
<1>4. CASE Start
  BY <1>4 DEF Start
<1>5. CASE MarkRunning
  BY <1>5 DEF MarkRunning, WriteJob
<1>6. CASE Load
  BY <1>6 DEF Load
<1>7. CASE StartTrial
  BY <1>7 DEF StartTrial
<1>8. CASE FinishTrial
  <2>1. stage = "scoring" /\ stage' = "optimizing" /\ tried' = tried
    BY <1>8 DEF FinishTrial
  <2>2. history' = history \/ \E result \in Result : history' = Append(history, result)
    BY <1>8 DEF FinishTrial
  <2>3. history' \in Seq(Result) /\ Len(history') <= tried'
    BY <2>1, <2>2
  <2>4. opt' = opt \/ opt' = [opt EXCEPT !.trials = Len(history')]
    BY <1>8 DEF FinishTrial, WriteOpt
  <2>5. Len(history') \in 0 .. NTrials
    BY <2>1, <2>3
  <2> QED
    BY <1>8, <2>1, <2>3, <2>4, <2>5 DEF FinishTrial
<1>9. CASE StopStudy
  BY <1>9 DEF StopStudy
<1>10. CASE SaveResult
  <2>1. PICK best \in Valid : WriteOpt([status |-> "completed", trials |-> Len(history), best |-> best])
    BY <1>10 DEF SaveResult
  <2>2. best \in Score
    BY <2>1 DEF Valid, Result
  <2>3. Len(history) \in 0 .. NTrials
    OBVIOUS
  <2> QED
    BY <1>10, <2>1, <2>2, <2>3 DEF SaveResult, WriteOpt
<1>11. CASE ReportCompleted
  BY <1>11 DEF ReportCompleted, WriteJob
<1>12. CASE ReportStopped
  BY <1>12 DEF ReportStopped, WriteJob
<1>13. CASE SettleRun
  BY <1>13 DEF SettleRun, WriteOpt, StatusSet
<1>14. CASE CancelRead
  BY <1>14 DEF CancelRead
<1>15. CASE CancelSignal
  BY <1>15 DEF CancelSignal
<1>16. CASE CancelWrite
  BY <1>16 DEF CancelWrite, WriteJob
<1>17. CASE Restart
  BY <1>17 DEF Restart
<1>18. CASE UNCHANGED vars
  BY <1>18
<1> QED
  BY <1>1, <1>2, <1>3, <1>4, <1>5, <1>6, <1>7, <1>8, <1>9, <1>10,
     <1>11, <1>12, <1>13, <1>14, <1>15, <1>16, <1>17, <1>18 DEF Next, Submit, Task, Cancel

\* The rows appear together, with the commit of the submission.
LEMMA SubmitStep == TrialInv /\ SubmitInv /\ [Next]_vars => SubmitInv'
<1> SUFFICES ASSUME TrialInv /\ SubmitInv, [Next]_vars PROVE SubmitInv'
  OBVIOUS
<1> USE TrialAssumption DEF vars, rows, trials, TrialInv, TypeOK, SubmitInv, Active, Terminal
<1>1. CASE Enqueue
  BY <1>1 DEF Enqueue
<1>2. CASE CommitRun
  BY <1>2 DEF CommitRun
<1>3. CASE RollbackRun
  BY <1>3 DEF RollbackRun
<1>4. CASE Start
  BY <1>4 DEF Start
<1>5. CASE MarkRunning
  BY <1>5 DEF MarkRunning, WriteJob
<1>6. CASE Load
  BY <1>6 DEF Load
<1>7. CASE StartTrial
  BY <1>7 DEF StartTrial
<1>8. CASE FinishTrial
  BY <1>8 DEF FinishTrial, WriteOpt
<1>9. CASE StopStudy
  BY <1>9 DEF StopStudy
<1>10. CASE SaveResult
  BY <1>10 DEF SaveResult, WriteOpt, IsBest
<1>11. CASE ReportCompleted
  BY <1>11 DEF ReportCompleted, WriteJob
<1>12. CASE ReportStopped
  BY <1>12 DEF ReportStopped, WriteJob
<1>13. CASE SettleRun
  BY <1>13 DEF SettleRun, WriteOpt, StatusSet
<1>14. CASE CancelRead
  BY <1>14 DEF CancelRead
<1>15. CASE CancelSignal
  BY <1>15 DEF CancelSignal
<1>16. CASE CancelWrite
  BY <1>16 DEF CancelWrite, WriteJob
<1>17. CASE Restart
  BY <1>17 DEF Restart
<1>18. CASE UNCHANGED vars
  BY <1>18
<1> QED
  BY <1>1, <1>2, <1>3, <1>4, <1>5, <1>6, <1>7, <1>8, <1>9, <1>10,
     <1>11, <1>12, <1>13, <1>14, <1>15, <1>16, <1>17, <1>18 DEF Next, Submit, Task, Cancel

\* Only SaveResult completes the run's row, and nothing is recorded later.
LEMMA ResultStep == TrialInv /\ SubmitInv /\ ResultInv /\ [Next]_vars => ResultInv'
<1> SUFFICES ASSUME TrialInv /\ SubmitInv /\ ResultInv, [Next]_vars PROVE ResultInv'
  OBVIOUS
<1> USE TrialAssumption DEF vars, rows, trials, TrialInv, TypeOK, SubmitInv, ResultInv, CompletedRunHasResult, Valid
<1>1. CASE Enqueue
  BY <1>1 DEF Enqueue
<1>2. CASE CommitRun
  BY <1>2 DEF CommitRun
<1>3. CASE RollbackRun
  BY <1>3 DEF RollbackRun
<1>4. CASE Start
  BY <1>4 DEF Start
<1>5. CASE MarkRunning
  BY <1>5 DEF MarkRunning, WriteJob
<1>6. CASE Load
  BY <1>6 DEF Load
<1>7. CASE StartTrial
  BY <1>7 DEF StartTrial
<1>8. CASE FinishTrial
  BY <1>8 DEF FinishTrial, WriteOpt
<1>9. CASE StopStudy
  BY <1>9 DEF StopStudy
<1>10. CASE SaveResult
  BY <1>10 DEF SaveResult, WriteOpt, IsBest
<1>11. CASE ReportCompleted
  BY <1>11 DEF ReportCompleted, WriteJob
<1>12. CASE ReportStopped
  BY <1>12 DEF ReportStopped, WriteJob
<1>13. CASE SettleRun
  BY <1>13 DEF SettleRun, WriteOpt, StatusSet
<1>14. CASE CancelRead
  BY <1>14 DEF CancelRead
<1>15. CASE CancelSignal
  BY <1>15 DEF CancelSignal
<1>16. CASE CancelWrite
  BY <1>16 DEF CancelWrite, WriteJob
<1>17. CASE Restart
  BY <1>17 DEF Restart
<1>18. CASE UNCHANGED vars
  BY <1>18
<1> QED
  BY <1>1, <1>2, <1>3, <1>4, <1>5, <1>6, <1>7, <1>8, <1>9, <1>10,
     <1>11, <1>12, <1>13, <1>14, <1>15, <1>16, <1>17, <1>18 DEF Next, Submit, Task, Cancel

\* The last two writes of a task keep their order and agree.
LEMMA OrderStep == TrialInv /\ SubmitInv /\ ResultInv /\ OrderInv /\ [Next]_vars => OrderInv'
<1> SUFFICES ASSUME TrialInv /\ SubmitInv /\ ResultInv /\ OrderInv, [Next]_vars PROVE OrderInv'
  OBVIOUS
<1> USE TrialAssumption DEF vars, rows, trials, TrialInv, TypeOK, SubmitInv, ResultInv, OrderInv, Started, JobCompletesLast, RowsAgreeAtEnd, Active, Terminal
<1>1. CASE Enqueue
  BY <1>1 DEF Enqueue
<1>2. CASE CommitRun
  BY <1>2 DEF CommitRun
<1>3. CASE RollbackRun
  BY <1>3 DEF RollbackRun
<1>4. CASE Start
  BY <1>4 DEF Start
<1>5. CASE MarkRunning
  BY <1>5 DEF MarkRunning, WriteJob
<1>6. CASE Load
  BY <1>6 DEF Load
<1>7. CASE StartTrial
  BY <1>7 DEF StartTrial
<1>8. CASE FinishTrial
  BY <1>8 DEF FinishTrial, WriteOpt
<1>9. CASE StopStudy
  BY <1>9 DEF StopStudy
<1>10. CASE SaveResult
  BY <1>10 DEF SaveResult, WriteOpt, IsBest
<1>11. CASE ReportCompleted
  BY <1>11 DEF ReportCompleted, WriteJob
<1>12. CASE ReportStopped
  BY <1>12 DEF ReportStopped, WriteJob
<1>13. CASE SettleRun
  BY <1>13 DEF SettleRun, WriteOpt, StatusSet
<1>14. CASE CancelRead
  BY <1>14 DEF CancelRead
<1>15. CASE CancelSignal
  BY <1>15 DEF CancelSignal
<1>16. CASE CancelWrite
  BY <1>16 DEF CancelWrite, WriteJob
<1>17. CASE Restart
  BY <1>17 DEF Restart
<1>18. CASE UNCHANGED vars
  BY <1>18
<1> QED
  BY <1>1, <1>2, <1>3, <1>4, <1>5, <1>6, <1>7, <1>8, <1>9, <1>10,
     <1>11, <1>12, <1>13, <1>14, <1>15, <1>16, <1>17, <1>18 DEF Next, Submit, Task, Cancel

\* The handler's first state satisfies every part of the invariant.
LEMMA InvInit == Init => IInv
<1> SUFFICES ASSUME Init PROVE IInv
  OBVIOUS
<1> USE TrialAssumption DEF Init
<1>1. TrialInv
  <2>1. 0 \in 0 .. NTrials /\ opt \in [status : {"absent", "running"} \cup Terminal,
                                     trials : 0 .. NTrials, best : Score \cup {NaN}]
    BY DEF TrialAssumption
  <2>2. history \in Seq(Result) /\ Len(history) <= tried
    OBVIOUS
  <2>3. stage \in Stage /\ stage # "scoring"
    BY DEF Stage
  <2> QED
    BY <2>1, <2>2, <2>3 DEF TrialInv, TypeOK
<1>2. SubmitInv /\ ResultInv
  BY DEF SubmitInv, ResultInv
<1>3. OrderInv
  BY DEF OrderInv, Started, JobCompletesLast, RowsAgreeAtEnd
<1> QED
  BY <1>1, <1>2, <1>3 DEF IInv

\* Handlers, task, cancel and restart preserve the invariant.
LEMMA InvStep == IInv /\ [Next]_vars => IInv'
  BY TrialStep, SubmitStep, ResultStep, OrderStep DEF IInv

\* The inductive invariant holds in every reachable state.
THEOREM InvariantHolds == Spec => []IInv
  BY InvInit, InvStep, PTL DEF Spec

\* TypeOK: the variables keep their types, for any number of trials.
THEOREM TypeCorrect == Spec => []TypeOK
<1>1. IInv => TypeOK
  BY DEF IInv, TrialInv
<1> QED
  BY <1>1, InvariantHolds, PTL

\* CompletedRunHasResult: a completed run's row holds the best of all its
\* trials, with or without lost writes, cancels and restarts.
THEOREM ResultIsRight == Spec => []CompletedRunHasResult
<1>1. IInv => CompletedRunHasResult
  BY DEF IInv, ResultInv, CompletedRunHasResult
<1> QED
  BY <1>1, InvariantHolds, PTL

\* While no write is lost, the job's row is completed after the run's row, so a
\* client that sees the job completed can read the result.
THEOREM JobIsLast == Spec => []JobCompletesLast
<1>1. IInv => JobCompletesLast
  BY DEF IInv, OrderInv, JobCompletesLast
<1> QED
  BY <1>1, InvariantHolds, PTL

\* While no write is lost, a task that ended leaves both rows alike.
THEOREM RowsAgree == Spec => []RowsAgreeAtEnd
<1>1. IInv => RowsAgreeAtEnd
  BY DEF IInv, OrderInv, RowsAgreeAtEnd
<1> QED
  BY <1>1, InvariantHolds, PTL

\* Once no more trials are to come, none comes.
LEMMA NoMoreStep ==
  ASSUME NEW n \in 0 .. NTrials, IInv, NoMoreThan(n), [Next]_vars
  PROVE  NoMoreThan(n)'
<1> USE TrialAssumption DEF vars, rows, trials, IInv, TrialInv, TypeOK, NoMoreThan
<1>1. CASE Enqueue
  BY <1>1 DEF Enqueue
<1>2. CASE CommitRun
  BY <1>2 DEF CommitRun
<1>3. CASE RollbackRun
  BY <1>3 DEF RollbackRun
<1>4. CASE Start
  BY <1>4 DEF Start
<1>5. CASE MarkRunning
  BY <1>5 DEF MarkRunning, WriteJob
<1>6. CASE Load
  BY <1>6 DEF Load
<1>7. CASE StartTrial
  BY <1>7 DEF StartTrial
<1>8. CASE FinishTrial
  BY <1>8 DEF FinishTrial, WriteOpt
<1>9. CASE StopStudy
  BY <1>9 DEF StopStudy
<1>10. CASE SaveResult
  BY <1>10 DEF SaveResult, WriteOpt, IsBest
<1>11. CASE ReportCompleted
  BY <1>11 DEF ReportCompleted, WriteJob
<1>12. CASE ReportStopped
  BY <1>12 DEF ReportStopped, WriteJob
<1>13. CASE SettleRun
  BY <1>13 DEF SettleRun, WriteOpt, StatusSet
<1>14. CASE CancelRead
  BY <1>14 DEF CancelRead
<1>15. CASE CancelSignal
  BY <1>15 DEF CancelSignal
<1>16. CASE CancelWrite
  BY <1>16 DEF CancelWrite, WriteJob
<1>17. CASE Restart
  BY <1>17 DEF Restart
<1>18. CASE UNCHANGED vars
  BY <1>18
<1> QED
  BY <1>1, <1>2, <1>3, <1>4, <1>5, <1>6, <1>7, <1>8, <1>9, <1>10,
     <1>11, <1>12, <1>13, <1>14, <1>15, <1>16, <1>17, <1>18 DEF Next, Submit, Task, Cancel

\* NoTrialAfterCancel: a flag raised between two trials stops the recording.
THEOREM CancelStopsTrials == Spec => NoTrialAfterCancel
<1> SUFFICES ASSUME NEW n \in 0 .. NTrials PROVE Spec => NoneAfter(n)
  BY DEF NoTrialAfterCancel
<1>1. CancelledBy(n) => NoMoreThan(n)
  BY DEF CancelledBy, NoMoreThan
<1>2. IInv /\ NoMoreThan(n) /\ [Next]_vars => NoMoreThan(n)'
  BY NoMoreStep
<1>3. NoMoreThan(n) => Len(history) <= n
  BY DEF NoMoreThan
<1> QED
  BY <1>1, <1>2, <1>3, InvariantHolds, PTL DEF Spec, NoneAfter
=============================================================================

-------------------------- MODULE AnalysisTaskProofs --------------------------
(* Theorems about AnalysisTask for any number of targets, steps and retries. *)
EXTENDS AnalysisTask, TLAPS

(***************************************************************************)
(* The inductive invariant.  PlaceInv ties the stage to the target and to   *)
(* the outcome; VerdictInv says what a completed outcome was decided on.  A *)
(* row completed by a nested search says nothing of the outcome, and is      *)
(* overwritten before the task is over.                                     *)
(***************************************************************************)
PlaceInv ==
  /\ TypeOK
  /\ Working => target <= NTargets
  /\ stage = "ending" => outcome # "none"
  /\ stage \in {"entry", "opening"} => target = 1

VerdictInv ==
  /\ jobRow = "completed" /\ stage = "over" => outcome = "completed"
  /\ outcome = "completed" =>
       /\ stage \in {"ending", "over", "lost"}
       /\ target = NTargets + 1
       /\ failed # {} => NTargets > 1 /\ recorded # {}

IInv == PlaceInv /\ VerdictInv

\* What is left to an agent once the flag was up in step n of target t.
StepsLeft(t, n) ==
  /\ stage \notin {"entry", "opening"} /\ target >= t
  /\ flag \/ stage \in {"ending", "over", "lost"}
  /\ target = t => /\ Working \/ stage = "lost"
                   /\ step <= n + 1
                   /\ Working /\ step = n + 1 => interrupted
  /\ target > t /\ Working =>
       step <= 2 /\ (step = 2 => interrupted)

\* Max and Min of two integers.
LEMMA MaxOfTwo == \A a, b \in Int : Max({a, b}) \in {a, b} /\ Max({a, b}) >= a /\ Max({a, b}) >= b
<1> SUFFICES ASSUME NEW a \in Int, NEW b \in Int
             PROVE  Max({a, b}) \in {a, b} /\ Max({a, b}) >= a /\ Max({a, b}) >= b
  OBVIOUS
<1>1. \E x \in {a, b} : \A y \in {a, b} : x >= y
  <2>1. CASE a >= b
    BY <2>1
  <2>2. CASE b >= a
    BY <2>2
  <2> QED
    BY <2>1, <2>2
<1> QED
  BY <1>1 DEF Max

LEMMA MinOfTwo == \A a, b \in Int : Min({a, b}) \in {a, b} /\ Min({a, b}) <= a /\ Min({a, b}) <= b
<1> SUFFICES ASSUME NEW a \in Int, NEW b \in Int
             PROVE  Min({a, b}) \in {a, b} /\ Min({a, b}) <= a /\ Min({a, b}) <= b
  OBVIOUS
<1>1. \E x \in {a, b} : \A y \in {a, b} : x <= y
  <2>1. CASE a <= b
    BY <2>1
  <2>2. CASE b <= a
    BY <2>2
  <2> QED
    BY <2>1, <2>2
<1> QED
  BY <1>1 DEF Min

\* A value raised to lo at least and cut to hi at most.
LEMMA Clamp ==
  ASSUME NEW lo \in Int, NEW hi \in Int, lo <= hi, NEW q \in Int
  PROVE  Min({hi, Max({lo, q})}) \in lo .. hi
<1> DEFINE m == Max({lo, q})
<1>1. m \in Int /\ m >= lo
  BY MaxOfTwo
<1> HIDE DEF m
<1> DEFINE k == Min({hi, m})
<1>2. k \in {hi, m} /\ k <= hi
  BY <1>1, MinOfTwo
<1>3. k \in lo .. hi
  <2> HIDE DEF k
  <2> QED
    BY <1>1, <1>2
<1> QED
  BY <1>3 DEF m

\* Division by a positive integer yields an integer.
LEMMA DivInt == ASSUME NEW a \in Int, NEW b \in Nat \ {0} PROVE a \div b \in Int
  OBVIOUS

\* The progress callback stays between its floor and its ceiling, and never
\* falls below what it emitted last.
LEMMA CallbackRange ==
  ASSUME TypeOK
  PROVE  /\ Planned \in emitted .. Ceiling
         /\ Acted \in Planned .. Ceiling
<1>1. /\ emitted \in Floor .. Ceiling /\ Floor \in Int /\ Ceiling \in Int
      /\ step \in Int /\ PlanningInterval \in Nat \ {0} /\ MaxSteps \in Nat \ {0}
  BY AgentAssumption DEF TypeOK, Floor, Ceiling
<1>2. Planned \in emitted .. Ceiling
  <2>1. CASE (step - 1) % PlanningInterval # 0
    BY <1>1, <2>1 DEF Planned
  <2>2. CASE ~((step - 1) % PlanningInterval # 0)
    <3> DEFINE d == (step - 1) \div PlanningInterval
               q == Floor + 5 * (1 + d)
    <3>1. d \in Int
      BY <1>1, DivInt
    <3>2. Planned = Min({Ceiling, Max({emitted, q})})
      BY <2>2 DEF Planned
    <3> HIDE DEF d
    <3>3. q \in Int
      BY <1>1, <3>1
    <3> HIDE DEF q
    <3> QED
      BY <1>1, <3>2, <3>3, Clamp
  <2> QED
    BY <2>1, <2>2
<1>3. Acted \in Planned .. Ceiling
  <2> DEFINE e == (Ceiling - Floor) * step
             d == e \div MaxSteps
             r == Floor + d
  <2>1. Acted = Min({Ceiling, Max({Planned, r})})
    BY DEF Acted
  <2>2. e \in Int
    BY <1>1 DEF Floor, Ceiling
  <2> HIDE DEF e
  <2>3. d \in Int
    BY <1>1, <2>2, DivInt
  <2> HIDE DEF d
  <2>4. r \in Int
    BY <1>1, <2>3
  <2> HIDE DEF r
  <2>5. Planned \in Int /\ Planned <= Ceiling
    BY <1>1, <1>2
  <2> QED
    BY <1>1, <2>1, <2>4, <2>5, Clamp
<1> QED
  BY <1>2, <1>3

LEMMA ProgressTyped ==
  ASSUME TypeOK, ReportProgress
  PROVE  emitted' \in Floor .. Ceiling /\ progress' \in 0 .. 100
<1>1. Planned \in Floor .. Ceiling /\ Acted \in Floor .. Ceiling
  BY CallbackRange DEF TypeOK, Floor, Ceiling
<1> QED
  BY <1>1, AgentAssumption DEF ReportProgress, TypeOK, Floor, Ceiling

\* Every step keeps the types and the order of the targets.
LEMMA PlaceStep == PlaceInv /\ [Next]_vars => PlaceInv'
<1> SUFFICES ASSUME PlaceInv, [Next]_vars PROVE PlaceInv'
  OBVIOUS
<1> USE AgentAssumption DEF vars, job, agent, results, Targets, Working, PlaceInv, TypeOK
<1>1. CASE MarkRunning
  BY <1>1 DEF MarkRunning
<1>2. CASE FirstCheck
  BY <1>2 DEF FirstCheck
<1>3. CASE BeginTarget
  <2>1. progress' \in 0 .. 100
    BY <1>3 DEF BeginTarget
  <2>2. stage = "between" /\ target \in Targets /\ target + 1 \in 1 .. NTargets + 1
    BY <1>3 DEF BeginTarget
  <2>3. jobRow' = jobRow /\ recorded' = recorded /\ flag' = flag
    BY <1>3 DEF BeginTarget
  <2>4. CASE /\ stage' = "agent"
             /\ step' = 1 /\ interrupted' = FALSE /\ calls' = 0 /\ emitted' = Floor
             /\ UNCHANGED <<outcome, target, failed>>
    <3>1. /\ 1 \in 1 .. MaxSteps + 1 /\ 0 \in 0 .. MaxRetries
          /\ Floor \in Floor .. Ceiling
      BY DEF Floor, Ceiling
    <3>2. interrupted' \in BOOLEAN
      BY <2>4
    <3> QED
      BY <2>1, <2>2, <2>3, <2>4, <3>1, <3>2
  <2>5. CASE /\ failed' = failed \cup {target} /\ target' = target + 1
             /\ UNCHANGED <<outcome, stage, agent>>
    <3>1. failed' \subseteq Targets
      BY <2>2, <2>5
    <3> QED
      BY <2>1, <2>2, <2>3, <2>5, <3>1
  <2>6. CASE /\ stage' = "ending" /\ outcome' = "failed"
             /\ UNCHANGED <<target, agent, failed>>
    BY <2>1, <2>2, <2>3, <2>6
  <2> QED
    BY <1>3, <2>4, <2>5, <2>6 DEF BeginTarget
<1>4. CASE AgentStep
  <2>1. Working /\ step <= MaxSteps /\ step' = step + 1 /\ interrupted' = flag
    BY <1>4 DEF AgentStep, AfterCallback
  <2>2. target <= NTargets
    BY <2>1
  <2>3. emitted' \in Floor .. Ceiling /\ progress' \in 0 .. 100
    BY <1>4, ProgressTyped DEF AgentStep
  <2>4. recorded' \subseteq Targets
    BY <1>4, <2>2 DEF AgentStep
  <2>5. UNCHANGED <<jobRow, outcome, flag>>
    BY <1>4 DEF AgentStep
  <2>6. calls' \in 0 .. MaxRetries
    BY <1>4 DEF AgentStep, MayReject
  <2>7. \/ stage' = "agent" /\ target' = target /\ failed' = failed
        \/ stage' = "between" /\ target' = target + 1 /\ failed' \in {failed, failed \cup {target}}
    BY <1>4 DEF AgentStep, RunsNextStep, Answers, Fails
  <2>8. step' \in 1 .. MaxSteps + 1 /\ target' \in 1 .. NTargets + 1
    BY <2>1, <2>2, <2>7
  <2>9. failed' \subseteq Targets
    <3>1. target \in Targets
      BY <2>2
    <3> QED
      BY <2>7, <3>1
  <2>10. stage' \in {"agent", "between"} /\ (stage' = "agent" => target' <= NTargets)
    BY <2>2, <2>7
  <2> QED
    BY <2>1, <2>3, <2>4, <2>5, <2>6, <2>8, <2>9, <2>10
<1>5. CASE AgentInterrupted
  BY <1>5 DEF AgentInterrupted, Fails
<1>6. CASE AnswerAtLimit
  BY <1>6 DEF AnswerAtLimit, Answers
<1>7. CASE EndTargets
  BY <1>7 DEF EndTargets, TriedAll, Verdict
<1>8. CASE Return
  <2>1. /\ stage' = "over" /\ stage = "ending" /\ outcome # "none" /\ 0 \in 0 .. 100
        /\ jobRow' = outcome /\ progress' = 0
        /\ UNCHANGED <<outcome, target, agent, results>>
    BY <1>8 DEF Return
  <2>2. flag' \in BOOLEAN
    BY <1>8 DEF Return
  <2> QED
    BY <2>1, <2>2
<1>9. CASE CancelRunning
  BY <1>9 DEF CancelRunning
<1>10. CASE Restart
  <2>1. /\ stage' = "lost" /\ 0 \in 0 .. 100 /\ progress' = 0 /\ jobRow' \in {"failed", jobRow}
        /\ UNCHANGED <<outcome, target, agent, results>>
    BY <1>10 DEF Restart
  <2>2. flag' \in BOOLEAN
    BY <1>10 DEF Restart
  <2> QED
    BY <2>1, <2>2
<1>11. CASE UNCHANGED vars
  BY <1>11
<1>12. CASE BeginSearch
  BY <1>12 DEF BeginSearch
<1>13. CASE EndSearch
  <2>1. stage = "searching" /\ stage' = "searched" /\ target \in Targets
    BY <1>13 DEF EndSearch
  <2>2. jobRow' \in {"completed", "failed"} /\ progress' \in 0 .. 100
    BY <1>13 DEF EndSearch
  <2>3. recorded' \subseteq Targets
    BY <1>13, <2>1 DEF EndSearch
  <2> QED
    BY <1>13, <2>1, <2>2, <2>3 DEF EndSearch
<1> QED
  BY <1>1, <1>2, <1>3, <1>4, <1>5, <1>6, <1>7, <1>8, <1>9, <1>10, <1>11, <1>12,
     <1>13 DEF Next, Task

\* Completion is decided once, by Verdict, and nothing changes it later.
LEMMA VerdictStep == IInv /\ [Next]_vars => VerdictInv'
<1> SUFFICES ASSUME IInv, [Next]_vars PROVE VerdictInv'
  OBVIOUS
<1> USE AgentAssumption DEF vars, job, agent, results, Targets, Working, IInv, PlaceInv, TypeOK, VerdictInv
<1>1. CASE MarkRunning
  BY <1>1 DEF MarkRunning
<1>2. CASE FirstCheck
  BY <1>2 DEF FirstCheck
<1>3. CASE BeginTarget
  BY <1>3 DEF BeginTarget
<1>4. CASE AgentStep
  BY <1>4 DEF AgentStep, AfterCallback, RunsNextStep, MayReject, Answers, Fails
<1>5. CASE AgentInterrupted
  BY <1>5 DEF AgentInterrupted, Fails
<1>6. CASE AnswerAtLimit
  BY <1>6 DEF AnswerAtLimit, Answers
<1>7. CASE EndTargets
  <2>1. /\ stage = "between" /\ target > NTargets /\ stage' = "ending" /\ outcome' = Verdict
        /\ UNCHANGED <<jobRow, target, failed, recorded>>
    BY <1>7 DEF EndTargets, TriedAll
  <2>2. target' = NTargets + 1
    BY <2>1
  <2>3. stage' # "over"
    BY <2>1
  <2>4. Verdict = "completed" => (failed # {} => NTargets > 1 /\ recorded # {})
    BY DEF Verdict
  <2> QED
    BY <2>1, <2>2, <2>3, <2>4
<1>8. CASE Return
  BY <1>8 DEF Return
<1>9. CASE CancelRunning
  BY <1>9 DEF CancelRunning
<1>10. CASE Restart
  BY <1>10 DEF Restart
<1>11. CASE UNCHANGED vars
  BY <1>11
<1>12. CASE BeginSearch
  BY <1>12 DEF BeginSearch
<1>13. CASE EndSearch
  BY <1>13 DEF EndSearch
<1> QED
  BY <1>1, <1>2, <1>3, <1>4, <1>5, <1>6, <1>7, <1>8, <1>9, <1>10, <1>11, <1>12,
     <1>13 DEF Next, Task

\* The first state satisfies every part of the invariant.
LEMMA InvInit == Init => IInv
<1> SUFFICES ASSUME Init PROVE IInv
  OBVIOUS
<1> USE AgentAssumption DEF Init, Targets, Floor, Ceiling
<1>1. TypeOK /\ ~Working
  <2>1. /\ 1 \in 1 .. NTargets + 1 /\ 1 \in 1 .. MaxSteps + 1
        /\ 0 \in 0 .. MaxRetries /\ Floor \in Floor .. Ceiling /\ 0 \in 0 .. 100
    OBVIOUS
  <2>2. interrupted \in BOOLEAN /\ flag \in BOOLEAN
    OBVIOUS
  <2> QED
    BY <2>1, <2>2 DEF TypeOK, Working
<1> QED
  BY <1>1 DEF IInv, PlaceInv, VerdictInv

\* Task, cancels and restarts preserve it.
LEMMA InvStep == IInv /\ [Next]_vars => IInv'
  BY PlaceStep, VerdictStep DEF IInv

\* The inductive invariant holds in every reachable state.
THEOREM InvariantHolds == Spec => []IInv
  BY InvInit, InvStep, PTL DEF Spec

\* Every variable keeps its type: steps, retries and progress stay in their
\* bounds for any number of targets.
THEOREM TypeCorrect == Spec => []TypeOK
<1>1. IInv => TypeOK
  BY DEF IInv, PlaceInv
<1> QED
  BY <1>1, InvariantHolds, PTL

\* A completed row stands for targets that were all tried, and hides a failure
\* only among several targets with artifacts.
THEOREM CompletedRowHasWork == Spec => []CompletedHasWork
<1>1. IInv => CompletedHasWork
  BY DEF IInv, PlaceInv, VerdictInv, CompletedHasWork
<1> QED
  BY <1>1, InvariantHolds, PTL

\* The steps left to the agents do not grow.
LEMMA LeftStep ==
  ASSUME NEW t \in Targets, NEW n \in 1 .. MaxSteps, IInv, StepsLeft(t, n), [Next]_vars
  PROVE  StepsLeft(t, n)'
<1> USE AgentAssumption DEF vars, job, agent, results, Targets, Working, IInv, PlaceInv, TypeOK, StepsLeft
<1>1. CASE MarkRunning
  BY <1>1 DEF MarkRunning
<1>2. CASE FirstCheck
  BY <1>2 DEF FirstCheck
<1>3. CASE BeginTarget
  BY <1>3 DEF BeginTarget
<1>4. CASE AgentStep
  BY <1>4 DEF AgentStep, AfterCallback, RunsNextStep, MayReject, Answers, Fails
<1>5. CASE AgentInterrupted
  BY <1>5 DEF AgentInterrupted, Fails
<1>6. CASE AnswerAtLimit
  BY <1>6 DEF AnswerAtLimit, Answers
<1>7. CASE EndTargets
  BY <1>7 DEF EndTargets, TriedAll, Verdict
<1>8. CASE Return
  BY <1>8 DEF Return
<1>9. CASE CancelRunning
  BY <1>9 DEF CancelRunning
<1>10. CASE Restart
  BY <1>10 DEF Restart
<1>11. CASE UNCHANGED vars
  BY <1>11
<1>12. CASE BeginSearch
  BY <1>12 DEF BeginSearch
<1>13. CASE EndSearch
  BY <1>13 DEF EndSearch
<1> QED
  BY <1>1, <1>2, <1>3, <1>4, <1>5, <1>6, <1>7, <1>8, <1>9, <1>10, <1>11, <1>12,
     <1>13 DEF Next, Task

\* CancelStopsAgent: a cancel flag leaves the running agent its current step,
\* and every later target its first one.
THEOREM CancelBoundsAgent == Spec => CancelStopsAgent
<1> SUFFICES ASSUME NEW t \in Targets, NEW n \in 1 .. MaxSteps PROVE Spec => StopsAgent(t, n)
  BY DEF CancelStopsAgent
<1>1. IInv /\ CancelledIn(t, n) => StepsLeft(t, n)
  BY AgentAssumption DEF Working, IInv, PlaceInv, TypeOK, CancelledIn, StepsLeft, Targets
<1>2. IInv /\ StepsLeft(t, n) /\ [Next]_vars => StepsLeft(t, n)'
  BY LeftStep
<1>3. StepsLeft(t, n) => StepBound(t, n)
  BY DEF StepsLeft, StepBound
<1> QED
  BY <1>1, <1>2, <1>3, InvariantHolds, PTL DEF Spec, StopsAgent
=============================================================================

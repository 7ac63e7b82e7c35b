----------------------------- MODULE AnalysisTask -----------------------------
(***************************************************************************)
(* run_analysis_task: for each target column one run of the agent, with its *)
(* preflight, its steps, the callbacks after every step (persist, progress, *)
(* cancellation) and the relevance check of its final answer; then the      *)
(* verdict over all targets and the status write.                           *)
(*                                                                          *)
(* The agent loop itself is smolagents': it refuses the next step once      *)
(* interrupt() was called, and answers by itself after max_steps.  A step    *)
(* may call the inverse optimisation tool, whose worker task writes its own  *)
(* status on the analysis' row.  Cancel requests are those that find the    *)
(* row running, and every status write arrives; JobLifecycle has the rest.  *)
(***************************************************************************)
EXTENDS Integers, FiniteSets, FiniteSetsExt

CONSTANTS
  NTargets,         \* target columns that are analysed one after the other
  MaxSteps,         \* settings.agent_max_steps
  MaxRetries,       \* max_retries of the relevance check
  PlanningInterval, \* settings.agent_planning_interval
  ToolProgress,     \* progress values a tool may report by itself
  RecordMayFail     \* may the INSERT of an artifact fail (it is only logged)?

ASSUME AgentAssumption ==
  /\ NTargets \in Nat \ {0} /\ MaxSteps \in Nat \ {0}
  /\ MaxRetries \in Nat /\ PlanningInterval \in Nat \ {0}
  /\ ToolProgress \subseteq 0 .. 100
  /\ RecordMayFail \in BOOLEAN

Targets == 1 .. NTargets
Floor == 15
Ceiling == 85

VARIABLES
  jobRow,      \* committed job_runs.status
  stage,       \* where the task is
  outcome,     \* what the task set out to report
  target,      \* the target column being analysed
  step,        \* the agent's step_number
  interrupted, \* the agent's interrupt_switch
  calls,       \* rejected answers, of state["calls"] of the relevance check
  emitted,     \* _last_emitted of the progress callback
  progress,    \* the job's entry in the progress store, 0 without one
  failed,      \* targets whose run came back with an error_code
  recorded,    \* targets whose run recorded an artifact
  flag         \* the job is in _cancel_flags

\* The agent of one target is at work: "searching" is the nested inverse
\* optimisation of the step it is in, "searched" the rest of that step.
Working == stage \in {"agent", "searching", "searched"}

job == <<jobRow, outcome>>
agent == <<step, interrupted, calls, emitted>>
results == <<failed, recorded>>
vars == <<job, stage, target, agent, progress, results, flag>>

TypeOK ==
  /\ jobRow \in {"pending", "running", "completed", "failed", "cancelled"}
  /\ stage \in {"entry", "opening", "between", "agent", "searching", "searched",
                "ending", "over", "lost"}
  /\ outcome \in {"none", "completed", "failed", "cancelled"}
  /\ target \in 1 .. NTargets + 1 /\ step \in 1 .. MaxSteps + 1
  /\ interrupted \in BOOLEAN /\ calls \in 0 .. MaxRetries
  /\ emitted \in Floor .. Ceiling /\ progress \in 0 .. 100
  /\ failed \subseteq Targets /\ recorded \subseteq Targets
  /\ flag \in BOOLEAN

Init ==
  /\ jobRow = "pending" /\ stage = "entry" /\ outcome = "none"
  /\ target = 1 /\ step = 1 /\ interrupted = FALSE /\ calls = 0
  /\ emitted = Floor /\ progress = 0
  /\ failed = {} /\ recorded = {} /\ flag = FALSE

-----------------------------------------------------------------------------
MarkRunning ==
  /\ stage = "entry"
  /\ jobRow' = "running" /\ progress' = 5
  /\ stage' = "opening"
  /\ UNCHANGED <<outcome, target, agent, results, flag>>

\* The task's only token.check().
FirstCheck ==
  /\ stage = "opening"
  /\ IF flag THEN stage' = "ending" /\ outcome' = "cancelled"
             ELSE stage' = "between" /\ UNCHANGED outcome
  /\ UNCHANGED <<jobRow, target, agent, progress, results, flag>>

\* The context and the preflight of one target.  A missing session or an unmet
\* precondition is an error of this target; another exception ends the task.
BeginTarget ==
  /\ stage = "between" /\ target <= NTargets
  /\ progress' = IF NTargets > 1 THEN 20 ELSE progress
  /\ \/ /\ stage' = "agent"
        /\ step' = 1 /\ interrupted' = FALSE /\ calls' = 0 /\ emitted' = Floor
        /\ UNCHANGED <<outcome, target, failed>>
     \/ /\ failed' = failed \cup {target} /\ target' = target + 1
        /\ UNCHANGED <<outcome, stage, agent>>
     \/ /\ stage' = "ending" /\ outcome' = "failed"
        /\ UNCHANGED <<target, agent, failed>>
  /\ UNCHANGED <<jobRow, recorded, flag>>

\* What the progress callback makes of a planning step and of an action step.
Planned ==
  IF (step - 1) % PlanningInterval # 0 THEN emitted
  ELSE Min({Ceiling, Max({emitted, Floor + 5 * (1 + (step - 1) \div PlanningInterval)})})

Acted ==
  Min({Ceiling, Max({Planned, Floor + ((Ceiling - Floor) * step) \div MaxSteps})})

ReportProgress ==
  /\ emitted' = Acted
  /\ \E shown \in ToolProgress \cup {IF Planned > emitted THEN Planned ELSE progress} :
       progress' = IF Acted > Planned THEN Acted ELSE shown

\* Mutant: the callback never interrupts the agent.
NotInterrupted == FALSE

\* CancellationStepCallback
AfterCallback == flag

RunsNextStep == stage' = "agent" /\ UNCHANGED <<target, failed>>

Answers == stage' = "between" /\ target' = target + 1 /\ UNCHANGED failed

Fails == stage' = "between" /\ target' = target + 1 /\ failed' = failed \cup {target}

\* Mutant: the relevance check forgets to count.
RejectsAlways == target \in recorded'

\* make_relevance_check: after max_retries, and without artifacts, it passes.
MayReject == calls < MaxRetries /\ target \in recorded'

\* The step's code calls the inverse optimisation tool with a champion at hand:
\* the worker task it runs first writes "running" on the analysis' own row.
\* Bound: one such call in a step.
BeginSearch ==
  /\ stage = "agent" /\ ~interrupted /\ step <= MaxSteps
  /\ stage' = "searching" /\ jobRow' = "running"
  /\ UNCHANGED <<outcome, target, agent, progress, results, flag>>

\* It writes how the search ended, whichever target this is; a failed search is
\* an error of the tool, which the agent sees.
EndSearch ==
  /\ stage = "searching"
  /\ stage' = "searched" /\ jobRow' \in {"completed", "failed"}
  /\ progress' \in {progress} \cup ToolProgress
  /\ recorded' \in {recorded, recorded \cup {target}}
  /\ jobRow' = "failed" => recorded' = recorded
  /\ UNCHANGED <<outcome, target, agent, failed, flag>>

\* One step of the agent and its callbacks.  A step whose code could be parsed
\* is recorded as a report; without parsed code there is no answer.  An answer
\* may be rejected while retries are left and the run has an artifact.
AgentStep ==
  /\ stage \in {"agent", "searched"} /\ ~interrupted /\ step <= MaxSteps
  /\ step' = step + 1 /\ interrupted' = AfterCallback
  /\ ReportProgress
  /\ recorded' \in {recorded, recorded \cup {target}}
  /\ \/ RunsNextStep /\ UNCHANGED calls
     \/ MayReject /\ calls' = calls + 1 /\ RunsNextStep
     \/ /\ RecordMayFail \/ target \in recorded'
        /\ Answers /\ UNCHANGED calls
     \/ Fails /\ UNCHANGED calls
  /\ UNCHANGED <<job, flag>>

\* agent.run raises at the next step: AGENT_RUN_ERROR.
AgentInterrupted ==
  /\ stage = "agent" /\ interrupted /\ step <= MaxSteps
  /\ Fails
  /\ UNCHANGED <<job, agent, progress, recorded, flag>>

\* After max_steps the model is asked for an answer, interrupted or not.
AnswerAtLimit ==
  /\ stage = "agent" /\ step = MaxSteps + 1
  /\ Answers
  /\ UNCHANGED <<job, agent, progress, recorded, flag>>

\* Mutant: errors are dropped whenever there are several targets.
VerdictLenient ==
  IF failed = {} \/ NTargets > 1 THEN "completed" ELSE "failed"

\* Several targets: an error counts only when no target recorded anything.
Verdict ==
  IF failed = {} \/ (NTargets > 1 /\ recorded # {}) THEN "completed" ELSE "failed"

\* Mutant: the loop runs once more than there are targets.
TriedTooMany == target > NTargets + 1

TriedAll == target > NTargets

EndTargets ==
  /\ stage = "between" /\ TriedAll
  /\ stage' = "ending" /\ outcome' = Verdict
  /\ UNCHANGED <<jobRow, target, agent, progress, results, flag>>

\* The status write, clear_progress, and clear_cancellation of the
\* InterruptedError handler.
Return ==
  /\ stage = "ending"
  /\ jobRow' = outcome /\ progress' = 0
  /\ stage' = "over"
  /\ flag' = IF outcome = "cancelled" THEN FALSE ELSE flag
  /\ UNCHANGED <<outcome, target, agent, results>>

CancelRunning ==
  /\ jobRow = "running"
  /\ flag' = TRUE
  /\ UNCHANGED <<job, stage, target, agent, progress, results>>

\* The process dies; the next one fails the row if it looks active.
Restart ==
  /\ stage \notin {"over", "lost"}
  /\ stage' = "lost" /\ flag' = FALSE /\ progress' = 0
  /\ jobRow' = IF jobRow \in {"pending", "running"} THEN "failed" ELSE jobRow
  /\ UNCHANGED <<outcome, target, agent, results>>

Task ==
  \/ MarkRunning \/ FirstCheck \/ BeginTarget \/ BeginSearch \/ EndSearch
  \/ AgentStep \/ AgentInterrupted \/ AnswerAtLimit \/ EndTargets \/ Return

Next == Task \/ CancelRunning \/ Restart

Spec == Init /\ [][Next]_vars

\* The thread runs; every agent step returns (the HTTP client has a timeout).
FairSpec == Spec /\ WF_vars(Task)

-----------------------------------------------------------------------------
(* Properties                                                               *)

\* An analysis that reports its own completion has done the work: every target
\* was tried, and if one failed there were several and some run left an artifact
\* to show.  Before its end a completed row is only that of a nested search.
CompletedHasWork ==
  jobRow = "completed" /\ stage = "over" =>
    target = NTargets + 1 /\ (failed # {} => NTargets > 1 /\ recorded # {})

\* The job says completed only after its pipeline has completed, as the data
\* flow of the repository's README has it: no agent is still at work when clients
\* read that the job is completed.
CompletedAfterPipeline == jobRow = "completed" => ~Working

\* The cancel flag is up while target t's agent is in its step n.
CancelledIn(t, n) == flag /\ Working /\ target = t /\ step = n

StepBound(t, n) ==
  /\ target = t => step <= n + 1
  /\ target > t /\ Working => step <= 2

StopsAgent(t, n) == [](CancelledIn(t, n) => []StepBound(t, n))

\* A cancel flag raised while the agent works lets it end the step it is in,
\* and every later target its first step, and no more.
CancelStopsAgent == \A t \in Targets, n \in 1 .. MaxSteps : StopsAgent(t, n)

\* An analysis that has started comes to an end within its steps and retries.
AnalysisEnds == jobRow = "running" ~> stage \in {"over", "lost"}
=============================================================================

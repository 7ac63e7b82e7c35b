--------------------------- MODULE InverseTaskProofs ---------------------------
(* Theorems about InverseTask for any models, grids, limits and patience.   *)
EXTENDS InverseTask, TLAPS

(***************************************************************************)
(* The inductive invariant.  TaskInv: the request is one the worker can be  *)
(* given, and the best point is one of the grid.  SearchInv: until the      *)
(* report there is no success and no reason but those the callback gives.   *)
(* ReportInv: the report is that of the best point.  StoreInv: the ids are  *)
(* returned after the commit, and the commit comes after the file.          *)
(***************************************************************************)
Unreported == {"queued", "loading", "searching", "analysing", "stopped"}

TaskInv ==
  /\ \E r \in Request : Possible(r) /\ job = Arguments(r)
  /\ best \in Grid

SearchInv ==
  /\ stage \in {"queued", "loading", "searching", "analysing"} => ~success
  /\ stage \in Unreported => result.reason = "none"

ReportInv == ReportedIsBest

StoreInv ==
  /\ store \in [file : BOOLEAN, stored : BOOLEAN, named : BOOLEAN]
  /\ stage \in Unreported \cup {"saving", "committing"} => ~store.stored /\ ~store.named
  /\ stage = "committing" => store.file
  /\ NamedIsStored

Inv == TaskInv /\ SearchInv /\ ReportInv /\ StoreInv

-----------------------------------------------------------------------------
(* The optimum                                                              *)

\* Without Stage 1 the row that is reported is the row that was scored.
LEMMA OptimalIsCandidate ==
  ASSUME NEW x, ~job.hier
  PROVE  OptimalRow(x) = Composed(CandidateRow(x))
<1>1. BaseRow = [x |-> BaseX, b |-> BaseB, y |-> 0]
  BY DEF BaseRow
<1>2. CandidateRow(x) = [BaseRow EXCEPT !.x = x, !.y = 0]
  BY DEF CandidateRow
<1>3. [BaseRow EXCEPT !.x = x, !.y = 0] = [BaseRow EXCEPT !.x = x]
  <2>1. [BaseRow EXCEPT !.x = x] = [x |-> x, b |-> BaseB, y |-> 0]
    BY <1>1
  <2>2. [[BaseRow EXCEPT !.x = x] EXCEPT !.y = 0] = [x |-> x, b |-> BaseB, y |-> 0]
    BY <2>1
  <2> QED
    BY <2>1, <2>2
<1>4. CandidateRow(x) = [BaseRow EXCEPT !.x = x]
  BY <1>2, <1>3
<1> QED
  BY <1>4 DEF OptimalRow

LEMMA ComposedSum ==
  ASSUME NEW x \in Grid, job.composed
  PROVE  Composed(CandidateRow(x)).x + Composed(CandidateRow(x)).b = Total
<1>1. x \in Int /\ Total \in Int
  BY InverseAssumption
<1> QED
  BY <1>1 DEF Composed, CandidateRow, BaseRow

\* The score of a row that can be predicted is its prediction and its charge.
LEMMA ScoreOfRow ==
  ASSUME NEW x, job.predicts
  PROVE  Objective(x) = Sign * PredictRow(Composed(CandidateRow(x))) + Charge(Composed(CandidateRow(x)))
  BY DEF Objective

-----------------------------------------------------------------------------
(* Every step keeps Inv                                                     *)

LEMMA InvInit == Init => Inv
  BY InverseAssumption
     DEF Init, Inv, TaskInv, SearchInv, ReportInv, ReportedIsBest, StoreInv, NamedIsStored, Unreported

LEMMA InvStep == Inv /\ [Next]_vars => Inv'
<1> SUFFICES ASSUME Inv, [Next]_vars PROVE Inv'
  OBVIOUS
<1> USE DEF Inv, TaskInv, SearchInv, ReportInv, StoreInv, NamedIsStored, Unreported, search, output
<1>0. ASSUME UNCHANGED <<job, best, result>> PROVE ReportedIsBest'
  BY <1>0 DEF ReportedIsBest, Composed, CandidateRow, BaseRow, Violation, PredictRow, Sign, Charge, Objective
<1>1. CASE RequestCancel \/ TimeExpires
  BY <1>0, <1>1 DEF RequestCancel, TimeExpires
<1>2. CASE MarkRunning \/ LoadPlain \/ LoadConstrained \/ LimitIsNoNumber
  BY <1>0, <1>2 DEF MarkRunning, LoadPlain, LoadConstrained, LimitIsNoNumber
<1>3. CASE PlainGeneration \/ Generation
  <2>1. Evolve /\ UNCHANGED <<job, result, store>> /\ best' \in Grid
    BY <1>3 DEF PlainGeneration, Generation, Evolve
  <2>2. stage = "searching" /\ stage' \in {"searching", "stopped"} /\ (stage' = "searching" => ~success')
    BY <1>3, <2>1 DEF PlainGeneration, Generation, Evolve, GoesOn
  <2>3. ReportedIsBest'
    BY <2>1, <2>2 DEF ReportedIsBest
  <2> QED
    BY <2>1, <2>2, <2>3
<1>4. CASE ReportConstrained
  <2>1. PICK x \in Polished :
          /\ best' = x
          /\ result' = [reason |-> IF success THEN "scipy_converged" ELSE reason, row |-> OptimalRow(x),
                        y1 |-> IF job.hier THEN Stage1(OptimalRow(x).x, OptimalRow(x).b) ELSE 0,
                        prediction |-> IF job.predicts THEN PredictRow(OptimalRow(x)) ELSE NoPrediction,
                        valid |-> Violation(OptimalRow(x)) = 0]
    BY <1>4 DEF ReportConstrained
  <2>2. x \in Grid /\ UNCHANGED <<job, store>> /\ stage = "stopped" /\ stage' = "saving"
    BY <1>4 DEF ReportConstrained, Polished
  <2>3. ReportedIsBest'
    <3> DEFINE r == Composed(CandidateRow(x))
    <3>1. job' = job /\ best' = x
      BY <2>1, <2>2
    <3>2. ASSUME ~job.hier
          PROVE  /\ result'.row = r
                 /\ job.composed => r.x + r.b = Total
                 /\ result'.valid <=> (Violation(r) = 0)
                 /\ job.predicts => /\ result'.prediction = PredictRow(r)
                                    /\ Sign * result'.prediction + Charge(r) = Objective(x)
      <4>1. OptimalRow(x) = r
        BY <3>2, OptimalIsCandidate
      <4>2. result'.row = r /\ (result'.valid <=> (Violation(r) = 0))
        BY <2>1, <4>1
      <4>3. job.predicts => result'.prediction = PredictRow(r)
        BY <2>1, <4>1
      <4> QED
        BY <2>2, <4>2, <4>3, ComposedSum, ScoreOfRow
    <3> QED
      BY <3>1, <3>2 DEF ReportedIsBest, Composed, CandidateRow, BaseRow, Violation, PredictRow, Sign,
                        Charge, Objective
  <2> QED
    BY <2>1, <2>2, <2>3
<1>5. CASE ReportPlain
  <2>1. UNCHANGED <<job, store>> /\ stage' \in {"failing", "saving"} /\ best' \in Grid
        /\ result'.reason = "none"
    BY <1>5 DEF ReportPlain, Polished
  <2> QED
    BY <1>5, <2>1 DEF ReportPlain, ReportedIsBest
<1>6. CASE AnalyseTarget \/ TrainBcm
  <2>1. CASE AnalyseTarget
    BY <1>0, <2>1 DEF AnalyseTarget
  <2>2. CASE TrainBcm
    <3>1. /\ UNCHANGED <<job, best, success, result>>
          /\ ~store.stored /\ ~store.named
          /\ stage' \in {"failing", "settling"} /\ store' \in {store, [store EXCEPT !.file = TRUE]}
      BY <2>2 DEF TrainBcm
    <3>2. StoreInv'
      BY <3>1
    <3> QED
      BY <1>0, <3>1, <3>2
  <2> QED
    BY <1>6, <2>1, <2>2
<1>7. CASE WriteReport \/ CommitReport
  <2>1. UNCHANGED <<job, best, success, result>> /\ stage' \in {"committing", "settling"}
    BY <1>7 DEF WriteReport, CommitReport
  <2>2. CASE WriteReport
    <3>1. ~store.stored /\ ~store.named
      BY <2>2 DEF WriteReport
    <3>2. \/ stage' = "committing" /\ store' = [store EXCEPT !.file = TRUE]
          \/ stage' = "settling" /\ store' = store
      BY <2>2 DEF WriteReport
    <3>3. StoreInv'
      BY <3>1, <3>2
    <3> QED
      BY <1>0, <2>1, <3>3
  <2>3. CASE CommitReport
    <3>1. store.file /\ stage' = "settling"
      BY <2>3 DEF CommitReport
    <3>2. PICK ok \in BOOLEAN : store' = [store EXCEPT !.stored = ok, !.named = ok]
      BY <2>3 DEF CommitReport
    <3>3. StoreInv'
      BY <3>1, <3>2
    <3> QED
      BY <1>0, <2>1, <3>3
  <2> QED
    BY <1>7, <2>2, <2>3
<1>8. CASE Complete \/ Fail \/ HostEnds
  BY <1>0, <1>8 DEF Complete, Fail, HostEnds
<1>9. CASE UNCHANGED vars
  BY <1>0, <1>9 DEF vars
<1> QED
  BY <1>1, <1>2, <1>3, <1>4, <1>5, <1>6, <1>7, <1>8, <1>9 DEF Next, Work

-----------------------------------------------------------------------------
(* What follows                                                             *)

\* For every model without Stage 1, every composition and constraint: the
\* optimum that run_constrained_inverse_optimize_task reports is the row its
\* objective scored, with its prediction and its validity.
THEOREM ReportIsBest == Spec => []ReportedIsBest
<1>1. Inv => ReportedIsBest
  BY DEF Inv, ReportInv
<1> QED
  BY <1>1, InvInit, InvStep, PTL DEF Spec

\* A task names an artifact in its result only after file and row are there.
THEOREM NamedAfterStored == Spec => []NamedIsStored
<1>1. Inv => NamedIsStored
  BY DEF Inv, StoreInv
<1> QED
  BY <1>1, InvInit, InvStep, PTL DEF Spec

\* Cancel and clock end a search with the generation in which they come, and a
\* constrained one says so.
THEOREM SearchHearsStop == Spec => StopEndsSearch
<1>1. Inv /\ [Next]_vars =>
        [stage = "searching" /\ (flag \/ TimeUp) =>
           \/ stage' = "searching" /\ UNCHANGED search
           \/ /\ stage' # "searching"
              /\ stage' = "stopped" /\ job.task = "constrained" =>
                   reason' \in {"time_limit", "cancelled"} /\ ~success']_vars
  <2> SUFFICES ASSUME Inv, Next, stage = "searching", flag \/ TimeUp
               PROVE  \/ stage' = "searching" /\ UNCHANGED search
                      \/ /\ stage' # "searching"
                         /\ stage' = "stopped" /\ job.task = "constrained" =>
                              reason' \in {"time_limit", "cancelled"} /\ ~success'
    OBVIOUS
  <2>1. ~success
    BY DEF Inv, SearchInv
  <2>2. CASE PlainGeneration
    BY <2>2 DEF PlainGeneration, Evolve
  <2>3. CASE Generation
    BY <2>1, <2>3 DEF Generation, Evolve
  <2>4. CASE LimitIsNoNumber
    BY <2>4 DEF LimitIsNoNumber
  <2>5. CASE RequestCancel \/ TimeExpires
    BY <2>5 DEF RequestCancel, TimeExpires
  <2> QED
    BY <2>2, <2>3, <2>4, <2>5
       DEF Next, Work, MarkRunning, LoadPlain, LoadConstrained, ReportConstrained, ReportPlain,
           AnalyseTarget, TrainBcm, WriteReport, CommitReport, Complete, Fail, HostEnds
<1> QED
  BY <1>1, InvInit, InvStep, PTL DEF Spec, StopEndsSearch

-----------------------------------------------------------------------------
(***************************************************************************)
(* Why a search stopped.  A plateau is read off two entries of the history, *)
(* Patience apart; that they are equal and not only no better needs that    *)
(* the whole history never gets worse.                                      *)
(***************************************************************************)
Sorted(h) == \A i, j \in DOMAIN h : i <= j => Better(h[j], h[i])

HistoryInv == history \in Seq(Int) /\ Len(history) <= Patience + 1 /\ Sorted(history)

Plateau == Len(history) = Patience + 1 /\ history[1] = history[Patience + 1]

\* What the callback has noted, for the task that notes it.
NotedInv ==
  job.task = "constrained" =>
    /\ job.limit \in {"none", "seconds"}
    /\ stage \in {"queued", "loading", "searching"} => reason \in {"max_iterations", "max_seconds"}
    /\ reason = "max_iterations" => job.limit = "none"
    /\ reason = "max_seconds" => job.limit = "seconds"
    /\ reason = "time_limit" => job.limit = "seconds" /\ expired
    /\ reason = "cancelled" => flag
    /\ reason = "converged" => Plateau
    /\ stage = "stopped" /\ ~success =>
         /\ reason \notin {"max_seconds", "none", "scipy_converged"}
         /\ reason = "max_iterations" => gen = MaxIter

ReasonInv == HistoryInv /\ NotedInv /\ ReasonIsTrue

LEMMA BetterIsOrder ==
  /\ \A u \in Int : Better(u, u)
  /\ \A u, v, w \in Int : Better(u, v) /\ Better(v, w) => Better(u, w)
  /\ \A u, v \in Int : Better(u, v) \/ Better(v, u)
BY DEF Better

LEMMA PredictionIsInteger ==
  ASSUME NEW x \in Grid
  PROVE  PredictRow(CandidateRow(x)) \in Int
<1> DEFINE y == IF job.hier THEN Stage1(x, BaseB) ELSE 0
<1>1. BaseB \in Balances
  BY DEF Balances
<1>2. y \in Stage1Values
  BY <1>1 DEF Stage1Values
<1>3. CandidateRow(x).x = x /\ CandidateRow(x).b = BaseB /\ CandidateRow(x).y = y
  BY DEF CandidateRow, BaseRow
<1> HIDE DEF y
<1> QED
  BY <1>1, <1>2, <1>3, InverseAssumption DEF PredictRow

\* One more generation, and the first of them dropped.
LEMMA AppendedKeeps ==
  ASSUME HistoryInv, NEW x \in Grid
  PROVE  Appended(x) \in Seq(Int) /\ Len(Appended(x)) <= Patience + 1 /\ Sorted(Appended(x))
<1> DEFINE n == Len(history)
           value == PredictRow(CandidateRow(x))
           top == IF history = <<>> \/ Better(value, history[n]) THEN value ELSE history[n]
           longer == Append(history, top)
<1>1. history \in Seq(Int) /\ n \in Nat /\ DOMAIN history = 1 .. n /\ n <= Patience + 1
      /\ Patience \in Nat
  BY InverseAssumption DEF HistoryInv
<1>2. value \in Int
  BY PredictionIsInteger
<1>3. history # <<>> => n \in 1 .. n /\ history[n] \in Int
  BY <1>1
<1>4. top \in Int /\ (history # <<>> => Better(top, history[n]))
  <2> HIDE DEF value, n
  <2> QED
    BY <1>2, <1>3, BetterIsOrder
<1> HIDE DEF top
<1>5. /\ longer \in Seq(Int) /\ Len(longer) = n + 1 /\ longer[n + 1] = top
      /\ \A i \in 1 .. n : longer[i] = history[i]
  BY <1>1, <1>4
<1>6. Sorted(longer)
  <2> SUFFICES ASSUME NEW i \in 1 .. n + 1, NEW j \in 1 .. n + 1, i <= j
               PROVE  Better(longer[j], longer[i])
    BY <1>5 DEF Sorted
  <2>1. CASE j \in 1 .. n
    <3>1. i \in 1 .. n
      BY <2>1, <1>1
    <3> QED
      BY <2>1, <3>1, <1>1, <1>5 DEF HistoryInv, Sorted
  <2>2. CASE j = n + 1 /\ i \in 1 .. n
    <3>1. history # <<>> /\ n \in 1 .. n /\ history[i] \in Int /\ history[n] \in Int /\ i <= n
      BY <2>2, <1>1
    <3>2. Better(history[n], history[i])
      BY <2>2, <3>1, <1>1 DEF HistoryInv, Sorted
    <3>3. Better(top, history[i])
      BY <3>1, <3>2, <1>4, BetterIsOrder
    <3> QED
      BY <2>2, <3>3, <1>5
  <2>3. CASE j = n + 1 /\ i = n + 1
    BY <2>3, <1>4, <1>5, BetterIsOrder
  <2> QED
    BY <2>1, <2>2, <2>3, <1>1
<1> HIDE DEF longer
<1>7. CASE n + 1 > Patience + 1
  <2>1. /\ Tail(longer) \in Seq(Int) /\ Len(Tail(longer)) = n
        /\ \A i \in 1 .. n : Tail(longer)[i] = longer[i + 1]
    BY <1>1, <1>5
  <2>2. Sorted(Tail(longer))
    <3>1. ASSUME NEW i \in 1 .. n, NEW j \in 1 .. n, i <= j
          PROVE  Better(longer[j + 1], longer[i + 1])
      <4>1. i + 1 \in DOMAIN longer /\ j + 1 \in DOMAIN longer /\ i + 1 <= j + 1
        BY <1>1, <1>5, <3>1
      <4> QED
        BY <4>1, <1>6 DEF Sorted
    <3>2. DOMAIN Tail(longer) = 1 .. n
      BY <2>1
    <3> QED
      BY <2>1, <3>1, <3>2 DEF Sorted
  <2>3. Appended(x) \in {history, Tail(longer)}
    BY <1>5, <1>7, <1>1 DEF Appended, longer, top
  <2> QED
    BY <2>1, <2>2, <2>3, <1>1 DEF HistoryInv
<1>8. CASE ~(n + 1 > Patience + 1)
  <2>1. Appended(x) \in {history, longer}
    BY <1>5, <1>8, <1>1 DEF Appended, longer, top
  <2>2. Len(longer) <= Patience + 1
    BY <1>1, <1>5, <1>8
  <2> QED
    BY <2>1, <2>2, <1>5, <1>6 DEF HistoryInv
<1> QED
  BY <1>7, <1>8

\* _has_converged looks at two entries and means all between them.
LEMMA ConvergedIsPlateau ==
  ASSUME HistoryInv, HasConverged(history)
  PROVE  Plateau
<1>1. /\ Len(history) \in Nat /\ DOMAIN history = 1 .. Len(history)
      /\ Patience \in Nat \ {0} /\ Len(history) <= Patience + 1 /\ Len(history) > Patience
  <2>1. history \in Seq(Int) /\ Len(history) <= Patience + 1
    BY DEF HistoryInv
  <2>2. Len(history) > Patience
    BY DEF HasConverged
  <2> QED
    BY <2>1, <2>2, InverseAssumption
<1>2. Len(history) = Patience + 1 /\ (Patience + 1) - Patience = 1
      /\ 1 \in DOMAIN history /\ Patience + 1 \in DOMAIN history /\ 1 <= Patience + 1
  <2>1. \A n, m \in Nat : n <= m + 1 /\ n > m => n = m + 1 /\ (m + 1) - m = 1 /\ 1 \in 1 .. n /\ m + 1 \in 1 .. n
                                                 /\ 1 <= m + 1
    OBVIOUS
  <2> QED
    BY <1>1, <2>1, Zenon
<1>3. history[1] \in Int /\ history[Patience + 1] \in Int
  BY <1>2 DEF HistoryInv
<1>4. Better(history[Patience + 1], history[1])
  BY <1>2 DEF HistoryInv, Sorted
<1>5. IF job.direction = "maximize" THEN history[Patience + 1] - history[1] <= 0
      ELSE history[1] - history[Patience + 1] <= 0
  BY <1>2 DEF HasConverged
<1>6. history[1] = history[Patience + 1]
  BY <1>3, <1>4, <1>5 DEF Better
<1> QED
  BY <1>2, <1>6 DEF Plateau

LEMMA ReasonInit == Init => ReasonInv
<1> SUFFICES ASSUME Init PROVE ReasonInv
  OBVIOUS
<1>1. HistoryInv
  BY InverseAssumption DEF Init, HistoryInv, Sorted
<1>2. ReasonIsTrue
  BY DEF Init, ReasonIsTrue
<1>3. PICK r \in Request : Possible(r) /\ job = Arguments(r)
  BY DEF Init
<1>4. job.task = "constrained" => job.limit \in {"none", "seconds"}
  BY <1>3 DEF Arguments, AgentArguments, PlainArguments, ConstrainedArguments, Request
<1>5. NotedInv
  BY <1>4 DEF Init, NotedInv
<1> QED
  BY <1>1, <1>2, <1>5 DEF ReasonInv

LEMMA ReasonStep == Inv /\ ReasonInv /\ [Next]_vars => ReasonInv'
<1> SUFFICES ASSUME Inv, ReasonInv, [Next]_vars PROVE ReasonInv'
  OBVIOUS
<1> USE DEF ReasonInv, search, output
<1>1. ASSUME UNCHANGED <<job, history>> PROVE HistoryInv'
  BY <1>1 DEF HistoryInv, Sorted, Better
<1>2. ASSUME UNCHANGED <<job, search, result>>, flag => flag', expired => expired',
             stage' = "stopped" => stage = "stopped",
             stage' \in {"queued", "loading", "searching"} => stage \in {"queued", "loading", "searching"}
      PROVE  ReasonInv'
  <2>1. HistoryInv'
    BY <1>1, <1>2
  <2>2. NotedInv' /\ ReasonIsTrue'
    BY <1>2 DEF NotedInv, ReasonIsTrue, Plateau
  <2> QED
    BY <2>1, <2>2
<1>3. CASE RequestCancel \/ TimeExpires \/ MarkRunning \/ LoadPlain \/ LoadConstrained \/ LimitIsNoNumber
  BY <1>2, <1>3 DEF RequestCancel, TimeExpires, MarkRunning, LoadPlain, LoadConstrained, LimitIsNoNumber
<1>4. CASE TrainBcm \/ WriteReport \/ CommitReport \/ Complete \/ Fail \/ HostEnds
  BY <1>2, <1>4 DEF TrainBcm, WriteReport, CommitReport, Complete, Fail, HostEnds
<1>5. CASE UNCHANGED vars
  BY <1>2, <1>5 DEF vars
<1>6. CASE AnalyseTarget
  <2>1. job.task = "null" /\ UNCHANGED <<job, history, result>> /\ result.reason = "none"
    BY <1>6 DEF AnalyseTarget, Inv, SearchInv, Unreported
  <2> QED
    BY <2>1, <1>1 DEF NotedInv, ReasonIsTrue
<1>7. CASE PlainGeneration \/ Generation
  <2>1. Evolve /\ UNCHANGED <<job, flag, expired, result>> /\ stage = "searching"
    BY <1>7 DEF PlainGeneration, Generation, Evolve
  <2>2. result.reason = "none" /\ ~success
    BY <2>1 DEF Inv, SearchInv, Unreported
  <2>3. HistoryInv'
    <3>1. best' \in Grid /\ history' = Appended(best') /\ job' = job
      BY <2>1 DEF Evolve
    <3>2. Appended(best') \in Seq(Int) /\ Len(Appended(best')) <= Patience + 1 /\ Sorted(Appended(best'))
      BY <3>1, AppendedKeeps
    <3>3. Sorted(history)' <=> Sorted(history')
      BY <3>1 DEF Sorted, Better
    <3> QED
      BY <3>1, <3>2, <3>3 DEF HistoryInv
  <2>4. ReasonIsTrue'
    BY <2>1, <2>2 DEF ReasonIsTrue
  <2>5. NotedInv'
    <3>1. CASE job.task # "constrained"
      BY <3>1, <2>1 DEF NotedInv
    <3>2. CASE job.task = "constrained"
      <4>1. Generation /\ job.limit \in {"none", "seconds"} /\ reason \in {"max_iterations", "max_seconds"}
            /\ (reason = "max_iterations" => job.limit = "none")
        BY <3>2, <1>7, <2>1 DEF NotedInv, PlainGeneration
      <4>2. CASE TimeUp /\ reason' = "time_limit" /\ stage' = "stopped"
        BY <4>1, <4>2, <2>1 DEF NotedInv, TimeUp
      <4>3. CASE flag /\ reason' = "cancelled" /\ stage' = "stopped"
        BY <4>1, <4>3, <2>1 DEF NotedInv
      <4>4. CASE HasConverged(history') /\ reason' = "converged" /\ stage' = "stopped"
        <5>1. HasConverged(history)' /\ HistoryInv'
          BY <4>4, <2>1, <2>3 DEF HasConverged
        <5>2. Plateau'
          <6>1. (HistoryInv /\ HasConverged(history) => Plateau)'
            BY ConvergedIsPlateau, PTL
          <6> QED
            BY <5>1, <6>1
        <5> QED
          BY <4>1, <4>4, <5>2, <2>1 DEF NotedInv
      <4>5. CASE GoesOn /\ UNCHANGED reason
        <5>1. \/ success' = TRUE /\ stage' = "stopped"
              \/ job.limit = "none" /\ gen' = MaxIter /\ stage' = "stopped"
              \/ stage' = stage
          BY <4>5 DEF GoesOn
        <5>2. reason' = "max_seconds" => job.limit = "seconds"
          BY <3>2, <4>5 DEF NotedInv
        <5> QED
          BY <4>1, <4>5, <5>1, <5>2, <2>1 DEF NotedInv
      <4> QED
        BY <4>1, <4>2, <4>3, <4>4, <4>5 DEF Generation
    <3> QED
      BY <3>1, <3>2
  <2> QED
    BY <2>3, <2>4, <2>5
<1>8. CASE ReportConstrained
  <2>1. /\ job.task = "constrained" /\ stage = "stopped" /\ stage' = "saving"
        /\ UNCHANGED <<job, flag, expired, history, gen, reason, success>>
        /\ result'.reason = IF success THEN "scipy_converged" ELSE reason
    BY <1>8 DEF ReportConstrained
  <2>2. NotedInv'
    BY <2>1 DEF NotedInv, Plateau
  <2>3. ReasonIsTrue'
    BY <2>1 DEF NotedInv, ReasonIsTrue, Plateau
  <2> QED
    BY <2>1, <2>2, <2>3, <1>1
<1>9. CASE ReportPlain
  <2>1. job.task = "plain" /\ UNCHANGED <<job, history>> /\ result'.reason = "none"
    <3>1. result.reason = "none"
      BY <1>9 DEF ReportPlain, Inv, SearchInv, Unreported
    <3> QED
      BY <1>9, <3>1 DEF ReportPlain
  <2> QED
    BY <2>1, <1>1 DEF NotedInv, ReasonIsTrue
<1> QED
  BY <1>3, <1>4, <1>5, <1>6, <1>7, <1>8, <1>9 DEF Next, Work

\* The reason run_constrained_inverse_optimize_task reports is what stopped the
\* search, for any predictions, limits, patience and moment of a cancel.
THEOREM ReasonHolds == Spec => []ReasonIsTrue
<1>1. Init => Inv /\ ReasonInv
  BY InvInit, ReasonInit
<1>2. Inv /\ ReasonInv /\ [Next]_vars => Inv' /\ ReasonInv'
  BY InvStep, ReasonStep
<1>3. ReasonInv => ReasonIsTrue
  BY DEF ReasonInv
<1> QED
  BY <1>1, <1>2, <1>3, PTL DEF Spec
=============================================================================

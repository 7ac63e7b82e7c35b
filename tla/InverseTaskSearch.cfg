\* Every request of the endpoints and of the agent, with cancels, time limits
\* and failing writes.
SPECIFICATION FairSpec
CONSTANTS
  Grid <- Points
  BaseX = 1
  BaseB = 1
  Total = 1
  MaxPart = 1
  Predict <- Model
  Stage1 <- FirstStage
  Excess <- Missed
  Penalty = 2
  Patience = 2
  MaxIter = 4
  NTargets = 2
  NoPrediction = NoPrediction
INVARIANTS ReasonIsTrue ReportedIsBest NamedIsStored
PROPERTIES StopEndsSearch InverseEnds
CHECK_DEADLOCK FALSE

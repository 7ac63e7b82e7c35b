\* Two targets, cancels, failing records and restarts.
SPECIFICATION FairSpec
CONSTANTS
  NTargets = 2
  MaxSteps = 3
  MaxRetries = 2
  PlanningInterval = 2
  ToolProgress = {30}
  RecordMayFail = TRUE
INVARIANTS TypeOK CompletedHasWork
PROPERTIES CancelStopsAgent AnalysisEnds
CHECK_DEADLOCK FALSE

\* The same analysis: is it over when its row says completed?
SPECIFICATION Spec
CONSTANTS
  NTargets = 2
  MaxSteps = 2
  MaxRetries = 1
  PlanningInterval = 2
  ToolProgress = {30}
  RecordMayFail = TRUE
INVARIANTS CompletedAfterPipeline
CHECK_DEADLOCK FALSE

\* Three targets, other writers, cancels, failures and restarts, on frames of
\* three rows and four columns.
SPECIFICATION ASpec
CONSTANTS
  NTargets = 3
  OtherWriters = TRUE
  Features <- InOrder
  Frames <- ThreeRows
  Numeric = {"a", "b", "c"}
  Missing = "missing"
INVARIANTS TypeOK StepIsAtomic CompletedIsVisible PlotsAreSupported ReportTellsGroups
PROPERTY CancelDiscards

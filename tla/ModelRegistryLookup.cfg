\* Trainings of every kind, a user who moves the flag, a wizard that asks.
SPECIFICATION Spec
CONSTANTS
  Targets = {Y, Z}
  Y = Y
  Z = Z
  Datasets <- Spellings
  Registered = {"./data/a"}
  Artifacts = {"s"}
  FileOf <- SourceFile
  Normal <- File
  KindsTrained = {"baseline", "agent", "tree", "hierarchical"}
  Scores = {1, 2}
  MaxTrainings = 2
  MaxModels = 2
  NoTarget = NoTarget
  NoPath = NoPath
  NoSource = NoSource
INVARIANTS PromiseKept EndpointsAgree BranchHasChampion
PROPERTIES LookupFindsBest
SYMMETRY Exchange
CHECK_DEADLOCK FALSE

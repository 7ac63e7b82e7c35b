\* Kills and restarts, fair handlers and workers; an analysis that may nest a
\* search and a task of an unguarded endpoint.
SPECIFICATION FairSpec
CONSTANTS
  a = a
  b = b
  c = c
  s1 = s1
  NoJob = NoJob
  Job = {a, b}
  Session = {s1}
  SessionOf <- SameSession
  RouteOf <- MixedRoutes
  Cooperative = {}
  Nesting = {a}
  MaxWorkers = 1
  MaxProcess = 2
  BusyTimeouts = FALSE
  Lingering = FALSE
INVARIANTS TypeOK ActiveRowHasOwner RestartLeavesNoOrphan
PROPERTY AcceptedJobEnds
CHECK_DEADLOCK FALSE

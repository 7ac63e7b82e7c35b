\* Graceful stops whose workers go on beside the next server, lost status writes;
\* a task that hears its flag, and an analysis that may nest a search.
SPECIFICATION Spec
CONSTANTS
  a = a
  b = b
  c = c
  s1 = s1
  NoJob = NoJob
  Job = {a, b}
  Session = {s1}
  SessionOf <- SameSession
  RouteOf <- AllChecked
  Cooperative = {a}
  Nesting = {b}
  MaxWorkers = 1
  MaxProcess = 2
  BusyTimeouts = TRUE
  Lingering = TRUE
PROPERTIES WithdrawnNeverRuns OnlyOwnTaskReopens ImplementsContract EarlyCancelPreventsCompletion
CHECK_DEADLOCK FALSE

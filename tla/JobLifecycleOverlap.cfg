\* Two requests of one session pass check_no_active_job together.
SPECIFICATION Spec
CONSTANTS
  a = a
  b = b
  c = c
  s1 = s1
  NoJob = NoJob
  Job = {a, b}
  Session = {s1}
  SessionOf <- SameSession
  RouteOf <- AllChecked
  Cooperative = {a}
  Nesting = {}
  MaxWorkers = 1
  MaxProcess = 1
  BusyTimeouts = FALSE
  Lingering = FALSE
INVARIANT OneActivePerSession
CHECK_DEADLOCK FALSE

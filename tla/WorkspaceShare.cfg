\* Two requests and one run of the agent; a client names a data set when its
\* upload is answered, before the commit.
SPECIFICATION Spec
CONSTANTS
  d1 = d1
  d2 = d2
  r1 = r1
  r2 = r2
  a1 = a1
  a2 = a2
  Datasets = {d1, d2}
  Requests = {r1, r2}
  Artifacts = {a1, a2}
  MaxRuns = 1
  NoDataset = NoDataset
  NoArtifact = NoArtifact
  NoOne = NoOne
INVARIANTS PointerHasRow RowHasFile ReportedIsStored
SYMMETRY Exchange
CHECK_DEADLOCK FALSE

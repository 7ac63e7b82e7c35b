\* Every frame of three rows, a column of numbers, one of dates and one of texts.
SPECIFICATION SSpec
CONSTANTS
  r1 = r1
  r2 = r2
  r3 = r3
  Rows = {r1, r2, r3}
  Columns <- InOrder
  NumericColumns = {"x"}
  TextColumns = {"g"}
  Values <- Domain
  NoValue = "missing"
  TargetChoices <- NoneOrOne
  Limits = {1, 2}
  MinGroup = 1
  MinRows = 2
  MinColumns = 1
  LowCardinality = 3
  MaxGroups = 2
  MaxPlotRows = 2
  MaxStrata = 2
INVARIANTS GroupsAreComplete BestIsKept
SYMMETRY Exchange
CHECK_DEADLOCK FALSE

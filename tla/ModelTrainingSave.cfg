\* Every request with its cancels, failing fits and failing writes.
SPECIFICATION Spec
CONSTANTS
  Frame <- Columns
  Numeric <- NumericColumns
  Constant <- ConstantIn
  Identifier <- IdentifierIn
  Scarce <- ScarceIn
  ByLength <- Order
  Targets <- AskedTargets
  Intermediates <- AskedY1
  Selections <- AskedFeatures
  Mentions <- Mentioned
  NoColumn = "none"
INVARIANTS SavedOrError StagesShareColumns
CHECK_DEADLOCK FALSE

\* Two rows and a result; every write arrives, or any may be lost.
SPECIFICATION FairSpec
CONSTANTS
  Score <- TwoScores
  NaN = NaN
  NTrials = 3
INVARIANTS TypeOK JobCompletesLast RowsAgreeAtEnd CompletedRunHasResult
PROPERTIES NoTrialAfterCancel OptimizationEnds

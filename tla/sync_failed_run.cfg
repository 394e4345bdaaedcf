CONSTANTS
  Event <- Events3
  Second <- SecondSpread
  Rank <- Rank3
  InitialLookback = 4
  Overlap = 3
  WindowSeconds = 3
  MaxConcurrency = 1
  MaxRecords = 1
  MaxNow = 4
  MaxFailures = 1
  FailurePhases <- BetweenBatches
SPECIFICATION Spec
INVARIANTS NoLateLoss

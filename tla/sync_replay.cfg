CONSTANTS
  Event <- Events3
  Second <- SecondSpread
  Rank <- Rank3
  InitialLookback = 2
  Overlap = 1
  WindowSeconds = 3
  MaxConcurrency = 1
  MaxRecords = 0
  MaxNow = 3
  MaxFailures = 1
  FailurePhases <- BeforeWrite
SPECIFICATION Spec
INVARIANTS ReplayDeliversThePlan

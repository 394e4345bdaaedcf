CONSTANTS
  Event <- Events3
  Second <- SecondSpread
  Rank <- Rank3
  InitialLookback = 3
  Overlap = 1
  WindowSeconds = 1
  MaxConcurrency = 1
  MaxRecords = 1
  MaxNow = 2
  MaxFailures = 0
  FailurePhases <- NoPhase
SPECIFICATION Spec
PROPERTIES StopMeansCaughtUp

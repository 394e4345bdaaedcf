CONSTANTS
  Event <- Events3
  Second <- SecondFull
  Rank <- Rank3
  InitialLookback = 3
  Overlap = 0
  WindowSeconds = 3
  MaxConcurrency = 1
  MaxRecords = 1
  MaxNow = 2
  MaxFailures = 0
  FailurePhases <- NoPhase
SPECIFICATION FairSpec
PROPERTIES RunEnds

CONSTANTS
  Event <- Events4
  Second <- Second4
  Rank <- Rank4
  InitialLookback = 4
  Overlap = 2
  WindowSeconds = 1
  MaxConcurrency = 3
  MaxRecords = 2
  MaxNow = 3
  MaxFailures = 0
  FailurePhases <- NoPhase
SPECIFICATION FairSpec
INVARIANTS NoLateLoss SeenIsWritten
PROPERTIES StopMeansCaughtUp RunEnds

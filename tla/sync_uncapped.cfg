CONSTANTS
  Event <- Events3
  Second <- SecondFull
  Rank <- Rank3
  InitialLookback = 2
  Overlap = 2
  WindowSeconds = 1
  MaxConcurrency = 2
  MaxRecords = 0
  MaxNow = 3
  MaxFailures = 1
  FailurePhases <- AnyPhase
SPECIFICATION FairSpec
INVARIANTS TypeOK NoLateLoss ReplayMissesNothing NoFutureRows
PROPERTIES CursorNeverRegresses EventuallyDelivered

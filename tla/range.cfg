CONSTANTS
  Event <- Events5
  Second <- Second5
  PageSize = 5
  MaxPerCall = 2
  MaxSecond = 5
SPECIFICATION Spec
INVARIANTS TypeOK PendingTilesTheRest CompleteUnlessSaturated
PROPERTIES ImplementsWindowScan FetchEnds

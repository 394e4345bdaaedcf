SPECIFICATION Spec
CONSTANTS
  Table <- Tables
  Namespace <- Namespaces
  Offer <- Offers
  MaxChanges = 2
  Ask <- Asked
  Requests <- AgentRequests
  SourceRows <- Rows2
  TableFields <- Fields
  BroughtFields <- Brought
  MaxRows = 2
  MaxDeployments = 1
INVARIANTS TypeOK RegisterFallsBack MetadataOncePerTable WalkFindsAll AnswersAreWhole RaisesForACause HealthIsTrue
CHECK_DEADLOCK FALSE

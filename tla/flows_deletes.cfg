CONSTANTS
  Key <- Keys
  Partition <- Partitions
  MaxPageSize = 1
  MaxTime = 5
  MaxFailures = 1
  Connectors <- PartitionedDeletes
SPECIFICATION Spec
INVARIANT OnlyRealChanges

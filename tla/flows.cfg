CONSTANTS
  Key <- Keys
  Partition <- Partitions
  MaxPageSize = 1
  MaxTime = 5
  MaxFailures = 1
  Connectors <- AllButPartitionedDeletes
SPECIFICATION Spec
INVARIANTS TypeOK NothingMissed OnlyRealChanges AppendedOnce SnapshotIsComplete
PROPERTY Converges

SPECIFICATION Spec
CONSTANTS
  Tree <- Partition
  Block <- BlockIn
  Genesis <- RootOf
  Parent <- ParentIn
  Irr <- IrrIn
  HashOrder <- PartitionOrder
  Valid <- BlockIn
  Own = {}
  MaxCrashes = 0
  MaxRestarts = 0
CHECK_DEADLOCK FALSE
INVARIANT
  NoAssertionFails

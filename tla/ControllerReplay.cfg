SPECIFICATION Spec
CONSTANTS
  Tree <- Forks
  Block <- BlockIn
  Genesis <- RootOf
  Parent <- ParentIn
  Irr <- IrrIn
  HashOrder <- ForksOrder
  Valid <- ForksValid
  Own <- ForksOwn
  MaxCrashes = 1
  MaxRestarts = 0
CHECK_DEADLOCK FALSE
INVARIANT
  ReplayStarts

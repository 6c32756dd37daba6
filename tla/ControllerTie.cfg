SPECIFICATION Spec
CONSTANTS
  Tree <- Forks
  Block <- BlockIn
  Genesis <- RootOf
  Parent <- ParentIn
  Irr <- IrrIn
  HashOrder <- ForksOrder
  Valid <- ForksValid
  Own <- ForksOwn
  MaxCrashes = 0
  MaxRestarts = 2
CHECK_DEADLOCK FALSE
INVARIANT
  ReversibleMatchesHead

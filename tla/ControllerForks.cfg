SPECIFICATION FairSpec
CONSTANTS
  Tree <- Forks
  Block <- BlockIn
  Genesis <- RootOf
  Parent <- ParentIn
  Irr <- IrrIn
  HashOrder <- ForksOrder
  Valid <- ForksValid
  Own <- ForksOwn
  MaxCrashes = 2
  MaxRestarts = 1
CHECK_DEADLOCK FALSE
INVARIANTS
  TypeOK
  StateMatchesHead
  DurableChain
  HeadIsBest
  BlocksByNumber
  OldestIsCurrent
  NoAssertionFails
PROPERTY
  Converges

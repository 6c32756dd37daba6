SPECIFICATION Spec
CONSTANTS
  eosio = eosio
  alice = alice
  bob = bob
  carol = carol
  dan = dan
  SystemAccount = eosio
  Producer <- RangesProducers
  Schedules <- Ranges
  MaxBlock = 8
  MaxTracked = 2
  MaxConfirmed = 7
  Word = 1000
SYMMETRY RangesSymmetry
CHECK_DEADLOCK FALSE
INVARIANTS
  TypeOK
  ConfirmationsAreDistinct
  
  IrreversibleBehindProposed
  SomebodyProduces

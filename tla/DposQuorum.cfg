SPECIFICATION PluginSpec
CONSTANTS
  eosio = eosio
  alice = alice
  bob = bob
  carol = carol
  dan = dan
  SystemAccount = eosio
  Producer <- FourProducers
  Schedules <- Quorums
  MaxBlock = 10
  MaxTracked = 4
  MaxConfirmed = 16
  Word = 1000
SYMMETRY QuorumSymmetry
CHECK_DEADLOCK FALSE
INVARIANTS
  ConfirmationsAreDistinct
  IrreversibleHasQuorum

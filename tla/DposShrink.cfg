SPECIFICATION EagerSpec
CONSTANTS
  eosio = eosio
  alice = alice
  bob = bob
  carol = carol
  dan = dan
  SystemAccount = eosio
  Producer <- FourProducers
  Schedules <- Shrink
  MaxBlock = 13
  MaxTracked = 12
  MaxConfirmed = 16
  Word = 1000
CHECK_DEADLOCK FALSE
INVARIANT CommittedBlockBecomesHead

SPECIFICATION PluginSpec
CONSTANTS
  eosio = eosio
  alice = alice
  bob = bob
  carol = carol
  dan = dan
  SystemAccount = eosio
  Producer <- RotationProducers
  Schedules <- Rotation
  MaxBlock = 11
  MaxTracked = 3
  MaxConfirmed = 16
  Word = 1000
CHECK_DEADLOCK FALSE
INVARIANTS
  ConfirmersAreRemembered
  ProposedVersionFits
PROPERTY ScheduleChangesWhenIrreversible

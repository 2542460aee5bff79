SPECIFICATION FairSpec
CONSTANTS
  Adapters = {"memory", "rpc"}
  InitialBreath = 4
  InitialBankroll = 4
  MaxBreath = 5
  Stake = 2
  Pnls <- MCPnls
  Pending = Pending
  ChainAttempts = 2
  NumBets = 2
  MaxTicks = 4
  MaxCrashes = 2
INVARIANTS
  DuplicatesNeedCrashes
  ChargedAtMostOnce
  DeathClosesBets
  BankrollReconciles
  TicksNeverReused
PROPERTIES
  DyingEnds
CHECK_DEADLOCK FALSE

SPECIFICATION Spec
CONSTANTS
  Adapters = {"memory"}
  InitialBreath = 3
  InitialBankroll = 4
  MaxBreath = 5
  Stake = 2
  Pnls <- MCPnls
  Pending = Pending
  ChainAttempts = 2
  NumBets = 2
  MaxTicks = 3
  MaxCrashes = 1
PROPERTY
  TombstonedNeverDecides
CHECK_DEADLOCK FALSE

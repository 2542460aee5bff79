SPECIFICATION Spec
CONSTANTS
  Adapters = {"rpc"}
  InitialBreath = 4
  InitialBankroll = 4
  MaxBreath = 5
  Stake = 2
  Pnls <- MCPnls
  Pending = Pending
  ChainAttempts = 2
  NumBets = 2
  MaxTicks = 3
  MaxCrashes = 0
INVARIANT
  KillAtZeroBreath
CHECK_DEADLOCK FALSE

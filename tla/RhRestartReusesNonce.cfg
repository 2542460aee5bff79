SPECIFICATION Spec
CONSTANTS
  Agent = agent
  None = None
  InitialBreath = 4
  MaxBreath = 5
  Amounts <- MCAmounts
  Attempts = 2
  NumBets = 2
  MaxRestarts = 1
INVARIANT
  SignerNotLockedOut
CHECK_DEADLOCK FALSE

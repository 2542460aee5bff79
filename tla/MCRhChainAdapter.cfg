SPECIFICATION Spec
CONSTANTS
  Agent = agent
  None = None
  InitialBreath = 4
  MaxBreath = 5
  Amounts <- MCAmounts
  Attempts = 2
  NumBets = 3
  MaxRestarts = 1
INVARIANTS
  ChargesAccounted
  RefusalsBounded
PROPERTIES
  UpdateEnds
CHECK_DEADLOCK FALSE

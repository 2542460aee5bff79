SPECIFICATION Spec
CONSTANTS
  Accounts = {operator, agent}
  Operator = operator
  Signers = {s1}
  Manager = pm
  None = None
  Nonces = {n1}
  Amounts <- MCAmounts
  UintMax = 2
  Cycles <- MCCycles
  MinCycles = 2
  Retries = 2
INVARIANT
  AcceptedIsEnabled
CHECK_DEADLOCK FALSE

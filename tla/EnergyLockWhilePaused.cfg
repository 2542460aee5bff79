SPECIFICATION LedgerSpec
CONSTANTS
  Accounts = {deployer}
  Signers = {s1}
  Managers = {m1}
  None = None
  Nonces = {n1}
  Amounts <- MCAmounts
  UintMax = 3
INVARIANT
  OperationalAfterLock
CHECK_DEADLOCK FALSE

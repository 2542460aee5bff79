SPECIFICATION LedgerSpec
CONSTANTS
  Accounts = {deployer, agent}
  Signers = {s1, s2}
  Managers = {m1}
  None = None
  Nonces = {n1, n2}
  Amounts <- MCAmounts
  UintMax = 3
INVARIANTS
  BreathWithinCap
  AttestationAppliedOnce
PROPERTIES
  LockFreezesAdmin
CHECK_DEADLOCK FALSE

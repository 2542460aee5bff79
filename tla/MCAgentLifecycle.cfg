SPECIFICATION Spec
CONSTANTS
  Accounts = {eoa, vault}
  Receivers = {eoa}
  None = None
  Logs = {ourLog, foreignLog}
  OwnLogs = {ourLog}
  Nfts = {ourNft, foreignNft}
  OwnNfts = {ourNft}
  Decisions = {d1}
  Epitaphs = {w1, w2}
  BreathValues <- MCBreathValues
  UintMax = 10000
  MaxDecisions = 2
INVARIANTS
  CounterMatchesLog
PROPERTIES
  ImplementsMortalLife

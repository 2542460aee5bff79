\* The clock of a tick reads past the next stop.
SPECIFICATION Spec
CONSTANTS
  Markets = {1, 2, 3, 4}
  Timings <- MCTimings
  Designs <- MCDesigns
  Win = 1
  Loss = 1
  LossMultiplier = 2
  InitialBreath = 2
  InitialBankroll = 2
  TitheEvery = 2
  TitheAmount = 2
  TitheBreath = 1
  TributeMin = 1
  Cut = 3
  MaxSeasons = 2
  MaxLives = 2
INVARIANTS
  ReadsStayWithinStop
CHECK_DEADLOCK FALSE

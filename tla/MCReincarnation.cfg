\* Two seasons of up to two lives, then the verdict.
SPECIFICATION Spec
CONSTANTS
  Markets = {1, 2, 3, 4}
  Timings <- MCTimings
  Designs <- MCDesigns
  Win = 1
  Loss = 1
  LossMultiplier = 2
  InitialBreath = 2
  InitialBankroll = 2
  TitheEvery = 2
  TitheAmount = 2
  TitheBreath = 1
  TributeMin = 1
  Cut = 3
  MaxSeasons = 2
  MaxLives = 2
INVARIANTS
  LivingHaveBreath
  EveryMarketOnce
  SurvivorsAreDrained
  NoLookahead
  LessonsKept
  HoldoutUnseen
CHECK_DEADLOCK FALSE

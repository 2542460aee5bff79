SPECIFICATION Spec
CONSTANTS
  Modes <- MCReincarnating
  MaxLives = 2
  MaxConfigs = 1
  MaxLessons = 1
  MaxStops = 1
INVARIANT
  ResetBetweenLives
CHECK_DEADLOCK FALSE

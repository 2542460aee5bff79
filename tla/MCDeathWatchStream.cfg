SPECIFICATION StreamSpec
CONSTANTS
  Thresholds <- MCThresholds
  Levels <- MCLevels
  Takeover = 10
  MaxFrames = 2
  MaxRestarts = 1
INVARIANTS
  TapeTellsTheSide
  HeardInOrder
  NeverBlind
PROPERTIES
  AlwaysCatchesUp
CHECK_DEADLOCK FALSE

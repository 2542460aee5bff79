SPECIFICATION StreamSpec
CONSTANTS
  Thresholds <- MCThresholds
  Levels <- MCLevels
  Takeover = 10
  MaxFrames = 2
  MaxRestarts = 0
INVARIANTS
  TakeoverShown
CHECK_DEADLOCK FALSE

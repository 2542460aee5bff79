SPECIFICATION StreamSpec
CONSTANTS
  Thresholds <- MCThresholds
  Levels <- MCLevels
  Takeover = 10
  MaxFrames = 2
  MaxRestarts = 1
PROPERTIES
  RestartTolerated
CHECK_DEADLOCK FALSE

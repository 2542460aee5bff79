SPECIFICATION Spec
CONSTANTS
  Modes <- MCModes
  MaxLives = 3
  MaxConfigs = 2
  MaxLessons = 2
  MaxStops = 2
INVARIANTS
  PromotionLands
  LessonsKept
PROPERTIES
  ImplementsLineage
CHECK_DEADLOCK FALSE

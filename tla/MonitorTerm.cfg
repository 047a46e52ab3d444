SPECIFICATION MonFairSpec
CONSTANTS
  Window = 1
  Limit = 2
  Pause = 2
PROPERTY TermEnds
CHECK_DEADLOCK FALSE

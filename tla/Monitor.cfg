SPECIFICATION MonFairSpec
CONSTANTS
  Window = 3
  Limit = 2
  Pause = 4
INVARIANTS
  NoOrphan
  RespawnRate
PROPERTIES
  HeededTermEnds
  SignalTakesEffect
CHECK_DEADLOCK FALSE

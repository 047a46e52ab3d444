SPECIFICATION FairSpec
CONSTANTS
  Dispatchers = {d1, d2}
  Writers = {w1, w2}
  MaxFamilies = 2
  HighOption = 2
  LowOption = 1
  Unset = Unset
INVARIANTS
  LengthIsExact
  QueueBounded
  OnceAndInOrder
PROPERTIES
  EveryQueuedIsHandled
  StopTerminates
  ImplementsLossyQueue

SPECIFICATION FairSpec
CONSTANTS
  a1 = a1
  a2 = a2
  b = b
  NoFunc = NoFunc
  Threads = {t1, t2}
  Funcs = {a1, b}
  Initial = {a1}
  Removable = {a1, b}
  NameOf <- MCNameOf
  GroupOf <- MCGroupOf
  Interval <- ShortIntervals
  MaxReadInterval = 2
  Late = 2
  MayFail = FALSE
PROPERTIES
  EveryFunctionIsCalled
  RemovedIsFreed
  OnlyIdleBlocksStop

\* As DaemonFlush.cfg.
SPECIFICATION Spec
CONSTANTS
  Plugins = {"a", "n", "t"}
  Rank <- MCRank
  Has <- MCHas
  SameName = {"a"}
  Threaded = {"t"}
  Spawning = {"a", "t"}
  Detached = {"d"}
  Unregistering = {}
  None = None
  MaxQueue = 1
  MaxFlush = 1
INVARIANT
  FailedIsUnloaded
CHECK_DEADLOCK FALSE

\* One SIGUSR1, a write queue of at most one family.
SPECIFICATION Spec
CONSTANTS
  Plugins = {"a", "n", "t"}
  Rank <- MCRank
  Has <- MCHas
  SameName = {"a"}
  Threaded = {"t"}
  Spawning = {"a", "t"}
  Detached = {"d"}
  Unregistering = {"a"}
  None = None
  MaxQueue = 1
  MaxFlush = 1
INVARIANTS
  CallbacksWithinLife
  FreedIsReadOnlyBy
PROPERTY
  TermEnds
\* The daemon ends.
CHECK_DEADLOCK FALSE

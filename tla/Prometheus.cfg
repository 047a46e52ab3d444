CONSTANTS
  f1 = f1
  m1 = m1
  Writers = {w1, w2}
  Clients = {c1}
  Families = {f1}
  Metrics = {m1, m2}
  FamilyOf <- MCFamilyOf
  Labelled <- MCLabelled
  Routings <- MCRoutings
SPECIFICATION FairSpec
INVARIANTS CachedIsExported NoGhost LeakOnlyIfLate
PROPERTIES EndsUnlessLeaked
CHECK_DEADLOCK FALSE

CONSTANTS
  f1 = f1
  m1 = m1
  Writers = {w1}
  Clients = {c1}
  Families = {f1}
  Metrics = {m1}
  FamilyOf <- MCFamilyOf
  Labelled <- MCLabelled
  Routings <- MCAllRouted
SPECIFICATION FairSpec
PROPERTY EveryRequestAnswered
CHECK_DEADLOCK FALSE

CONSTANTS
  f1 = f1
  m1 = m1
  Writers = {w1}
  Clients = {c1}
  Families = {f1}
  Metrics = {m1, m2}
  FamilyOf <- MCFamilyOf
  Labelled <- MCLabelled
  Routings <- MCAllRouted
SPECIFICATION Spec
INVARIANT ExpiredIsGone
CHECK_DEADLOCK FALSE

SPECIFICATION Spec
CONSTANTS
  Dispatchers = {d1, d2}
  Writers = {w1, w2}
  MaxFamilies = 3
  HighOption = 4
  LowOption = 1
  Unset = Unset
INVARIANT DropProbabilityGrows

SPECIFICATION Spec
CONSTANTS
  Values = {v1, v2}
  Steps = {2}
  NaN = NaN
INVARIANTS
  NewestFirst

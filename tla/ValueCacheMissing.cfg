\* Every expired value is told about: not those with labels.
SPECIFICATION Spec
CONSTANTS
  n1 = n1
  c1 = c1
  NoName = NoName
  Writers = {w1, w2}
  Names = {n1, n2}
  Labelled <- MCLabelled
  Callbacks = {c1, c2}
  Interested <- MCInterested
  MissingNum = 1
  MaxTime = 1
  Lifetime <- MCLifetime
PROPERTY EachValueIsTold

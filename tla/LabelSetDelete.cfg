SPECIFICATION LabelSpec
CONSTANTS
  LabelNames = {1, 2, 3}
  BadNames = {}
  LabelValues = {v1}
  NoValue = NoValue
  Garbled = Garbled
  MaxLabels = 4
INVARIANT LabelsAreMeant
CHECK_DEADLOCK FALSE

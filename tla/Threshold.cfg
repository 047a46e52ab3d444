CONSTANTS
  Writers = {w1, w2}
  Rates = {2, 3}
  NaN = NaN
  Configs <- MCConfigs
SPECIFICATION FairSpec
INVARIANTS HitsBounded QuietMeansTold
PROPERTIES Settles RecoveryIsReported

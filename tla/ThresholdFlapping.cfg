CONSTANTS
  Writers = {w1}
  Rates = {2, 3}
  NaN = NaN
  Configs <- MCInverted
SPECIFICATION FairSpec
PROPERTY Settles

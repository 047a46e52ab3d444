SPECIFICATION DistSpec
CONSTANTS
  NumBuckets = 2
  Gauges = {0, 1}
  Infinity = 99
  Percents = {50}
  Wrap = 16
  MaxUpdates = 2
  NoDistribution = NoDistribution
INVARIANT IncreaseNotAboveTotal

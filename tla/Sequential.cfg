\* What the callers serialise: the heap of the read functions, the AVL tree,
\* label sets, distributions, latency counters, counters and filter chains.
SPECIFICATION SeqSpec
CONSTANTS
  \* the heap
  Items = {1, 2, 3, 4, 5, 6, 7}
  Key <- MCKey
  Grow = 2
  Slack = 4
  Word = 64
  Memory = 8
  NoItem = 0
  \* the tree: up to four levels
  Keys = {1, 2, 3, 4, 5, 6, 7, 8}
  ValueOf <- MCValueOf
  OK = OK
  EEXIST = EEXIST
  ENOENT = ENOENT
  EOF = EOF
  \* labels
  LabelNames = {1, 2, 3, 4, 5}
  BadNames = {3}
  LabelValues = {v1, v2}
  NoValue = NoValue
  Garbled = Garbled
  MaxLabels = 4
  \* distributions: five buckets, so that the tree is not complete
  NumBuckets = 5
  Gauges = {0, 1, 3, 4, 7}
  Infinity = 99
  Percents = {0, 1, 33, 50, 67, 99, 100}
  Wrap = 16
  MaxUpdates = 3
  NoDistribution = NoDistribution
  \* latencies: bins of width 2 to 16
  NumBins = 4
  DefaultWidth = 2
  ReduceThreshold = 4
  Latencies = {1, 2, 3, 4, 5, 7, 8, 9, 16, 17, 31, 33}
  LatencyPercents = {1, 25, 50, 67, 99}
  Widths = {1, 2, 4, 8, 16, 32}
  MaxLatencies = 4
  \* counters of 2 and of 4 bits
  Low = 4
  High = 16
  Steps = {1, 2}
  Unknown = Unknown
  \* filter chains: up to four blocks, three chain names; a stack of three
  \* activations is one per chain
  Blocks <- MCBlocks
  MaxBlocks = 4
  PreCache = "pre"
  PostCache = "post"
  StackSize = 3
INVARIANTS
  VerifyTree
  LabelsUnlessGarbled
  DistributionIsExact
  HistogramIsExact
  DifferenceIsExact
  FollowsConfiguration
PROPERTIES
  ImplementsPriorityQueue
  ImplementsFiniteMap
\* The daemon ends when the configuration is refused or the stack overflows,
\* and a garbled label set is not used any more.
CHECK_DEADLOCK FALSE

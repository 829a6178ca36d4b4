SPECIFICATION Spec
CONSTANTS
  num_nodes = 7
  Workers = {w1, w2}
  Graphs <- HeavyGraphs
  Deltas = {10}
  kDistInf = 50
  kMaxBin = 60
  kBinSizeThreshold = 1000
  kChunk = 1
CHECK_DEADLOCK FALSE
INVARIANT FrontierFits

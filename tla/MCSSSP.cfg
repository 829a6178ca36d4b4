SPECIFICATION FairSpec
CONSTANTS
  num_nodes = 5
  Workers = {w1, w2}
  Graphs <- AllGraphs
  Deltas = {2, 3}
  kDistInf = 50
  kMaxBin = 60
  kBinSizeThreshold = 2
  kChunk = 1
CHECK_DEADLOCK FALSE
INVARIANTS
  NoTenseEdgeForgotten
  LowerBinsAreSettled
PROPERTIES
  ImplementsShortestPaths
  Terminates

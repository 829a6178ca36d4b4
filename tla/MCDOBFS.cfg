SPECIFICATION FairSpec
CONSTANTS
  num_nodes = 7
  NumThreads = 2
  Graphs <- AllGraphs
  Alphas = {1, 4}
  Betas = {2}
  MaxBuIters = {0, 1}
  kChunk = 2
  kBitsPerWord = 2
  local_size = 2
  Garbage = garbage
CHECK_DEADLOCK FALSE
INVARIANTS
  NoVertexQueuedTwice
  RegionsReportExactly
  StaleFrontIsHarmless
  ResultVerifies
PROPERTIES
  ImplementsLevelQueue
  ImplementsLevelBFS
  Terminates

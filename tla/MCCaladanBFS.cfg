SPECIFICATION BfsSpec
CONSTANTS
  nthreads = 3
  Tasks <- Regions
  NoTask = null
  num_nodes = 4
  Graphs <- SomeGraphs
  Alphas = {1, 4}
  Betas = {2}
  MaxBuIters = {0}
  kChunk = 2
  kBitsPerWord = 2
  local_size = 1
  Garbage = garbage
CHECK_DEADLOCK FALSE
PROPERTIES
  ImplementsForkJoin
  Terminates

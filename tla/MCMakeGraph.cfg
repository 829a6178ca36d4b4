SPECIFICATION MGSpec
CONSTANTS
  Workers = {w1, w2}
  GenWorkers = {w1, w2}
  Requests <- MCRequests
  block_size = 2
  Garbage = 99
  gen_block_size = 3
  kRandSeed = 27491095
  rng_max = 300
  Random <- RandomNumber
  Shuffle <- Swap
CHECK_DEADLOCK FALSE
INVARIANTS
  ResultIsGraph
  SearchedListsArePartitioned
  ListIsReproducible
  CountIsExact
  FilesKeepTheGraph

SPECIFICATION FairSpec
CONSTANTS
  num_nodes = 5
  Workers = {w1, w2}
  Graphs <- AllGraphs
  num_iters = 2
  Picks <- AllPicks
  kChunk = 1
  local_size = 1
  kScale = 12
  Garbage = garbage
CHECK_DEADLOCK FALSE
INVARIANTS
  PathsAreExact
  ResultVerifies
PROPERTY Terminates

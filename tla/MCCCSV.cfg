SPECIFICATION FairSpec
CONSTANTS
  num_nodes = 4
  Workers = {w1, w2}
  Graphs <- AllGraphs
CHECK_DEADLOCK FALSE
INVARIANTS
  StoppingIsSound
  ResultVerifies
PROPERTY Terminates

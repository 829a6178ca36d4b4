SPECIFICATION Spec
CONSTANTS
  Workers = {w1, w2, w3}
  num_nodes = 3
  Graphs <- AllGraphs
  Unit = 7680000
  Epsilons = {100000, 800000, 3000000}
  MaxIters = 3
SYMMETRY Symmetry
CHECK_DEADLOCK FALSE
INVARIANTS
  ConvergedVerifies
  IterationIsOneSweep

SPECIFICATION FairSpec
CONSTANTS
  num_nodes = 5
  Workers = {w1, w2}
  Graphs <- AllGraphs
  neighbor_rounds = 2
  kChunk = 1
CHECK_DEADLOCK FALSE
INVARIANTS
  LabelsDescend
  LabelsStayInComponent
  RoundsLink
  ResultVerifies
PROPERTIES
  ImplementsComponents
  Terminates

SPECIFICATION FairSpec
CONSTANTS
  Workers = {w1, w2, w3}
  Main = main
  Tasks = {f, g}
  NoTask = null
  Unstartable = {}
CHECK_DEADLOCK FALSE
INVARIANTS
  CallsCurrentTask
  ShutdownSeenByAll
PROPERTIES
  ImplementsForkJoin
  CallsComplete

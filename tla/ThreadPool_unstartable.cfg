SPECIFICATION FairSpec
CONSTANTS
  Workers = {w1, w2}
  Main = main
  Tasks = {f, g}
  NoTask = null
  Unstartable = {w2}
CHECK_DEADLOCK FALSE
PROPERTY RunCompletes

\* a task of the last pass that adds another one
CONSTANTS
  i1 = i1
  i2 = i2
  d1 = d1
  d2 = d2
  NoTask = NoTask
  Task = {i1, i2}
  Delay <- MCDelay
  Parent <- ParentOfI
  Mode = "ALL"
  MaxTime = 0
  MaxStarts = 1
SPECIFICATION FairSpec
PROPERTIES StopReturns
CHECK_DEADLOCK FALSE

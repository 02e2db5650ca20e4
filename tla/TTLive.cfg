\* a thread, started twice, that runs what is ready when it stops
CONSTANTS
  i1 = i1
  i2 = i2
  d1 = d1
  d2 = d2
  NoTask = NoTask
  Task = {i1, d1, d2}
  Delay <- MCDelay
  Parent <- NoParent
  Mode = "SHOULD"
  MaxTime = 1
  MaxStarts = 2
SPECIFICATION FairSpec
PROPERTIES TasksRun StopReturns
CHECK_DEADLOCK FALSE

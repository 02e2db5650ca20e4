\* a task that adds another one, a thread started twice that drops what it has
CONSTANTS
  i1 = i1
  i2 = i2
  d1 = d1
  d2 = d2
  NoTask = NoTask
  Task = {i1, i2, d1}
  Delay <- MCDelay
  Parent <- ParentOfI
  Mode = "ASAP"
  MaxTime = 1
  MaxStarts = 2
SPECIFICATION Spec
INVARIANTS AsapRunsNothingLate
CHECK_DEADLOCK FALSE

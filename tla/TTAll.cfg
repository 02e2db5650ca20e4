\* two immediate and two deferred tasks, a thread that stops with DO_ALL_DONE
CONSTANTS
  i1 = i1
  i2 = i2
  d1 = d1
  d2 = d2
  NoTask = NoTask
  Task = {i1, i2, d1, d2}
  Delay <- MCDelay
  Parent <- NoParent
  Mode = "ALL"
  MaxTime = 2
  MaxStarts = 1
SPECIFICATION Spec
INVARIANTS UndoneCount ImmediateInOrder DeferredInOrder StopKeepsPromise
PROPERTIES NoEarlyRun ImplementsQueue
CHECK_DEADLOCK FALSE

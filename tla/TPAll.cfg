\* three workers, a task that waits for another one and adds a third
CONSTANTS
  t1 = t1
  t2 = t2
  t3 = t3
  NoTask = NoTask
  Workers = 3
  Task = {t1, t2, t3}
  Parent <- OneChild
  Awaits <- OneAwaited
SPECIFICATION FairSpec
INVARIANTS EachTaskOnce UndoneCount AtMostOneLate
PROPERTIES TasksRun
CHECK_DEADLOCK FALSE

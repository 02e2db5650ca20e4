\* the destructor and the waiting workers
CONSTANTS
  t1 = t1
  t2 = t2
  t3 = t3
  NoTask = NoTask
  Workers = 2
  Task = {t1}
  Parent <- NoParent
  Awaits <- NoneAwaited
SPECIFICATION FairSpec
PROPERTIES DestructorReturns
CHECK_DEADLOCK FALSE

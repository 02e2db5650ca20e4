\* one caller and an index that wraps; or two callers and a task that add, while the counters are summed
CONSTANTS
  t1 = t1
  t2 = t2
  t3 = t3
  t4 = t4
  c1 = c1
  c2 = c2
  NoTask = NoTask
  N = 3
  Modulus = 3
  Strategies = {"round_robin", "random", "idle", "index"}
  Caller = {c1, c2}
  Task = {t1, t2, t3, t4}
  Adders <- OneOrMixed
  Index <- Indexes
  Summing <- OnlyMixed
SPECIFICATION FairSpec
INVARIANTS RoundRobinEven
PROPERTIES IdleChoice KindInOrder SumWithin EveryTaskRuns
CHECK_DEADLOCK FALSE

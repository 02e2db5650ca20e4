\* two or three of everything that shares state
CONSTANTS
  w1 = w1
  w2 = w2
  w3 = w3
  n1 = n1
  n2 = n2
  n3 = n3
  Waiter = {w1, w2, w3}
  Timed = {w2, w3}
  Notifier = {n1, n2, n3}
  NeedCount = 2
  a1 = a1
  a2 = a2
  b1 = b1
  c1 = c1
  FlProcess = {"A", "B", "C"}
  FlObject = {a1, a2, b1, c1}
  FlProcessOf <- ProcessOf
  FlNobody = FlNobody
  OnceThread = {"o1", "o2", "o3"}
  OnceNobody = "nobody"
  DmThread = {"d1", "d2"}
  DmMutex = {"a", "b"}
  DmNobody = "nobody"
  DmMaxDepth = 2
  DmLimit = 0
  CdTags <- Tags
  CdCall = {"k1", "k2", "k3", "k4", "k5"}
  CdKind <- KindOf
  CdTagOf <- TagOf
  CdThreadOf <- CallerOf
  CdMaxDumps = 1
  CdMaxFaults = 1
  DnProcess = {"p", "q", "r"}
  DnNobody = "nobody"
  DnFails = {"exist", "kill", "write"}
SPECIFICATION MCFairSpec
INVARIANTS OnceExactly DmTruthful CdCountsKept CdDumpsKept FlExclusive DnOneDaemon
PROPERTIES DmDeadlockReported CallsReturn
CHECK_DEADLOCK FALSE

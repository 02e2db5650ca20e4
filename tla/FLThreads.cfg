\* two threads of one process, each with an object of its own
CONSTANTS
  a1 = a1
  a2 = a2
  b1 = b1
  c1 = c1
  FlProcess = {"A"}
  FlObject = {a1, a2}
  FlProcessOf <- ProcessOf
  FlNobody = FlNobody
SPECIFICATION FlSpec
INVARIANTS FlExcludesThreads
CHECK_DEADLOCK FALSE

\* two threads wait for one notification
CONSTANTS
  w1 = w1
  w2 = w2
  w3 = w3
  n1 = n1
  n2 = n2
  n3 = n3
  Waiter = {w1, w2}
  Timed = {}
  Notifier = {n1}
  NeedCount = 1
SPECIFICATION FairSpec
PROPERTIES EveryWaiterReturns
CHECK_DEADLOCK FALSE

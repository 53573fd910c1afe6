CONSTANTS
  t1 = t1
  t2 = t2
  w1 = w1
  Threads <- MCThreads
  Waiters <- MCWaiters
  CanFail = TRUE
SPECIFICATION Spec
CHECK_DEADLOCK FALSE
INVARIANT TypeOK
INVARIANT WaitMeansDone
PROPERTY WaitReturns

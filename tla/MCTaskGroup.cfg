SPECIFICATION FairSpec
CONSTANTS
  t1 = t1
  t2 = t2
  t3 = t3
  k1 = k1
  k2 = k2
  NoTask = NoTask
  Tasks = {t1, t2, t3}
  CancellableTasks = {t1}
  Callbacks = {k1}
INVARIANTS GroupTypeOK CallbacksRunOnce ClosedOnceAtTheEnd GroupAccounting WaitReturnsAll

PROPERTIES FailureEndsGroup
CHECK_DEADLOCK FALSE

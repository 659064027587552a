SPECIFICATION CallSpec
CONSTANTS
  t1 = t1
  t2 = t2
  t3 = t3
  NoTask = NoTask
  Tasks = {t1, t2, t3}
  CancellableTasks = {}
  Callbacks = {}
  Fns <- MCFns
INVARIANT FailureHasACause

CHECK_DEADLOCK FALSE

SPECIFICATION Spec
CONSTANTS
  p1 = p1
  p2 = p2
  p3 = p3
  g1 = g1
  g2 = g2
  g3 = g3
  j1 = j1
  NoItem = NoItem
  PutCalls = {p1, p2, p3}
  GetCalls = {g1, g2}
  JoinCalls = {j1}
  NowaitCalls = {p3, g2}
  CancellableCalls = {g1}
  MaxSize = 1
INVARIANTS TypeOK NoLostWakeup Accounting DeliveredOnce JoinWaitsForAll
PROPERTIES ImplementsFifo
CHECK_DEADLOCK FALSE

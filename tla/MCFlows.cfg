SPECIFICATION Spec
CONSTANTS
  QueueSize = 2
  ResponseSize = 2
  MaxRequests = 3
  MaxStream = 1
  MaxCalls = 3
  MaxCallbacks = 2
  Known = {1, 2}
  LongRunning = {2}
  Executions = {"c1", "c2"}
  MaxRetries = 1
  Nothing = Nothing
  PartKinds = {"text", "call", "result", "number"}
  MaxTurns = 2
  MaxChunks = 2
  CallIds = {"c1", "c2"}
  MaxEvents = 3
INVARIANTS
  FlowsTypeOK
  DeliversInOrder
  ExecutionSound
PROPERTIES
  CloseEndsSender
  CallerHears
CHECK_DEADLOCK FALSE

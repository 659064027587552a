SPECIFICATION FairSpec
CONSTANTS
  a1 = a1
  a2 = a2
  SubAgents <- MCSubAgents
  Kinds = {"sequential", "loop", "parallel"}
  MaxIterations = 4
  MaxEvents = 2
INVARIANTS TypeOK NothingLost LoopBound
PROPERTIES NoLeak
CHECK_DEADLOCK FALSE

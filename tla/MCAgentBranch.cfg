SPECIFICATION FairSpec
CONSTANTS
  a1 = a1
  a2 = a2
  SubAgents <- MCSubAgents
  Kinds = {"parallel"}
  MaxIterations = 4
  MaxEvents = 2
INVARIANT BranchIsolation
CHECK_DEADLOCK FALSE

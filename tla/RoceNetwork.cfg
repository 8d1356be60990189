SPECIFICATION FairSpec
CONSTANTS
  MaxSize = 3
  High = 2
  Low = 1
  FlowSize = 2
  Ports = {1, 2, 3}
  Origin = 1
  Target = 2
  Loads <- MCLoads
INVARIANTS QueuesServe NoneLeftSilenced
PROPERTY FlowFinishes
CHECK_DEADLOCK FALSE

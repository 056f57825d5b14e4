CONSTANTS
  Capacity = 4
  NFiles = 2
  NumThreads = 2
  Plans <- FaultPlans
  Faults = {"output", "input", "codec", "write", "flush", "stop"}

SPECIFICATION Spec

INVARIANTS TypeOK EachFileOnce CentralIsSound CompleteAtExit
PROPERTIES ReportsAreFinal ImplementsPacking

CHECK_DEADLOCK FALSE

CONSTANTS
  Capacity = 2
  NFiles = 2
  NumThreads = 2
  Plans <- BigPlans
  Faults = {}

SPECIFICATION FairSpec

PROPERTIES FullTasksAreStreamed

CHECK_DEADLOCK FALSE

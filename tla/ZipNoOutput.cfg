CONSTANTS
  Capacity = 2
  NFiles = 2
  NumThreads = 2
  Plans <- LzmaPlans
  Faults = {"output"}

SPECIFICATION FairSpec

PROPERTIES EventuallyExits

CHECK_DEADLOCK FALSE

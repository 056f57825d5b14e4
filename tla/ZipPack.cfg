CONSTANTS
  Capacity = 2
  NFiles = 3
  NumThreads = 2
  Plans <- FittingPlans
  Faults = {"input"}

SPECIFICATION FairSpec

INVARIANTS ThreadLimit NoGaps NeverAborts ReaderSeesAllOrNothing
PROPERTIES EventuallyExits ImplementsFairPacking

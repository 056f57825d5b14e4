SPECIFICATION FairSpec
CONSTANTS
  dirName = dirName
  a1 = a1
  a2 = a2
  a3 = a3
  top = top
  Name <- Names
  NoName = top
  Archives <- DistinctNames
  MaxRuns = 2
  NumThreads = 2
  Programs = {"parunzip", "parzip-gtk"}
  Faults = {"write", "chmod", "kill"}
INVARIANTS TypeOK ThreadLimit EachEntryOnce QuietWhenFinished NoPartialFiles ResultIsTruth NoLeftovers RerunCompletes
PROPERTIES TargetsKept EventuallyExits ImplementsUnpacking

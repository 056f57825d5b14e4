SPECIFICATION Spec
CONSTANTS
  dirName = dirName
  a1 = a1
  a2 = a2
  a3 = a3
  top = top
  Name <- Names
  NoName = top
  Archives <- Twins
  MaxRuns = 1
  NumThreads = 2
  Programs = {"parunzip"}
  Faults = {}
PROPERTIES TargetsKept

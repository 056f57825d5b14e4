SPECIFICATION Spec
CONSTANTS
  dirName = dirName
  a1 = a1
  a2 = a2
  a3 = a3
  top = top
  Name <- Names
  NoName = top
  Archives <- OneFile
  MaxRuns = 1
  NumThreads = 1
  Programs = {"parunzip"}
  Faults = {"flush"}
INVARIANTS NoPartialFiles

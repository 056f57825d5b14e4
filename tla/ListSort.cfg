CONSTANTS
  Trees <- LetteredTrees
  Arguments <- LetteredArguments
  Destinations <- MCDestinations
  Editable <- MCEditable
  TooSmall = 2
  DirSize = 5
  NumThreads = 2
SPECIFICATION Spec
INVARIANT SortIsSound

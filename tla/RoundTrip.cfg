CONSTANTS
  Trees <- MCTrees
  Arguments <- MCArguments
  Destinations <- MCDestinations
  Editable <- MCEditable
  TooSmall = 2
  DirSize = 5
  NumThreads = 2
SPECIFICATION Spec
INVARIANTS TypeOK TreeSurvives NothingElse LossIsReported OpensWhatWasPacked ListingMatchesTree ListingIsNatural

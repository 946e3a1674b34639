SPECIFICATION FairSpec
CONSTANTS
  Size = 4
  Start = 0
  End = 3
  Cluster = 3
  Divided = 2
  MaxSkip = 1
  Retries = 1
  Off = {}
  Reverse = FALSE
  DontMark = TRUE
  Reports = TRUE
  OldLog = TRUE
INVARIANTS DataFollowsLog NoGoodSectorGivenUp NothingForgotten
PROPERTIES NeverBack RetryReadsAll RunEnds

SPECIFICATION SessionsSpec
CONSTANTS
  Size = 3
  Start = 0
  End = 3
  Cluster = 2
  Divided = 1
  MaxSkip = 1
  Retries = 0
  Off = {2, 6, 34}
  Reverse = FALSE
  DontMark = FALSE
  Reports = FALSE
  OldLog = FALSE
INVARIANT NothingForgotten

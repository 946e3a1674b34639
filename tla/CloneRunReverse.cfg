SPECIFICATION Spec
CONSTANTS
  Size = 3
  Start = 0
  End = 3
  Cluster = 3
  Divided = 2
  MaxSkip = 1
  Retries = 1
  Off = {6, 34}
  Reverse = TRUE
  DontMark = TRUE
  Reports = TRUE
  OldLog = FALSE
INVARIANT DataFollowsLog

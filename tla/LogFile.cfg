CONSTANTS
  MaxChanges = 4
  Copies = TRUE
  Faults = TRUE
  Interrupts = TRUE
  Kills = TRUE
SPECIFICATION FairSpec
INVARIANTS
  NothingSavedIsLost
  MainIsWhole
  ExitKeepsAllButOne
PROPERTIES
  ImplementsSavedLog
  CloningIsSaved
CHECK_DEADLOCK FALSE

CONSTANTS
  Size = 5
  LoadedLines = 3
  MaxRequests = 3
SPECIFICATION FairSpec
INVARIANTS
  StaysGapless
  MarksAreRequests
  PiecesAreOfTheDomain
PROPERTY
  AddingEnds
CHECK_DEADLOCK FALSE

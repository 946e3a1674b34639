CONSTANTS
  Size = 4
  Kinds = {"NONTRIED", "FINISHED"}
  Skips = {0}
SPECIFICATION FairSpec
INVARIANTS
  LogCoversSource
PROPERTIES
  
  RefusedOnlyOnce
  MergingEnds
  ImplementsSectorMap

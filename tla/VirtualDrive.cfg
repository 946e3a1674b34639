SPECIFICATION FairSpec
CONSTANTS
    Size = 2
    Cluster = 2
    Modes = {1, 3, 5}
    ReturnZeros = FALSE
    Reconnects = TRUE
INVARIANTS RightUntilAbandoned ErrorIsReal NoRequestLost
PROPERTY TransferEnds

SPECIFICATION Spec
CONSTANTS
    Size = 2
    Cluster = 2
    Modes = {1}
    ReturnZeros = FALSE
    Reconnects = FALSE
INVARIANT DataIsOfTheSector

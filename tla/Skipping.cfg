SPECIFICATION Spec
CONSTANTS
    Size = 240
    Cluster = 2
    MinSkip = 6
    MaxSkips = {20, 44}
    Fasts = {TRUE, FALSE}
    Edges = {10, 101, 230}
    LastNumber = 7
    MaxRatio = 4
    MaxRetard = 31
    MaxStops = 1
INVARIANTS HeadsAreRuns SizesBounded OutsideIsRead
PROPERTY TurnsProgress

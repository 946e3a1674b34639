SPECIFICATION FairSpec
CONSTANTS
    Blocks = {b1}
    Processes = {p1, p2}
    Limit = 2
    MaxTicket = 2
INVARIANTS TypeOK OneAtATime IdleIsAligned
PROPERTY CallsReturn

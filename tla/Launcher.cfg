SPECIFICATION FairSpec
CONSTANTS
    a1 = a1
    a2 = a2
    g1 = g1
    g2 = g2
    NoServer = NoServer
    Addresses = {a1, a2}
    Goroutines = {g1}
    Retries = 0
    Checks = 1
    MaxDepth = 1
    MaxNotices = 1
    MaxControls = 1
PROPERTIES
    TransientEnds
    BusyEnds
INVARIANTS TypeOK ShownIsCurrent
CHECK_DEADLOCK FALSE

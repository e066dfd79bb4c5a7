SPECIFICATION FairSpec
CONSTANTS
    m1 = m1
    m2 = m2
    h1 = h1
    h2 = h2
    NoMAC = NoMAC
    MACs <- OneMAC
    Spellings <- OneSpelling
    Normalize <- OneNormalize
    Handlers = {h1, h2}
    AdminOps = {"start"}
    Durations = {1}
    MaxId = 1
    MaxToken = 1
    MaxTime = 2
    MaxCrash = 1

INVARIANT AckedHolds
PROPERTY ExpiryEnforced

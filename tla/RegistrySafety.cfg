SPECIFICATION Spec
CONSTANTS
    m1 = m1
    m2 = m2
    h1 = h1
    h2 = h2
    NoMAC = NoMAC
    MACs <- MCMACs
    Spellings <- MCSpellings
    Normalize <- MCNormalize
    Handlers = {h1, h2}
    AdminOps = {"lock", "unlock"}
    Durations = {1}
    MaxId = 2
    MaxToken = 3
    MaxTime = 0
    MaxCrash = 1
SYMMETRY HandlerSymmetry
INVARIANTS
    TypeOK
    OneClientPerMAC
    IndexesAgree
    IssuedDurable
    IssuedAccepted
    AckedHolds
PROPERTY EnrolmentRefined

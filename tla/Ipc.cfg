SPECIFICATION FairSpec
CONSTANTS
    Clients = {c1, c2}
    Sockets = {s1, s2}
    MaxTries = 1
    MaxKills = 2
    None = None
INVARIANTS
    TypeOK
    AnswerTells
PROPERTIES
    ServesAgain
    ClientEnds
CHECK_DEADLOCK FALSE

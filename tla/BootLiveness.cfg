SPECIFICATION FairSpec
CONSTANTS
    c1 = c1  c2 = c2  w1 = w1  w2 = w2
    Nothing = Nothing
    Clients = {c1, c2}
    Enabled = {c1, c2}
    Managed = {}
    Workers = {w1, w2}
    nbd_nbds = 1
    MaxFaults = 0
PROPERTY RequestEnds

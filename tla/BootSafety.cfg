SPECIFICATION Spec
CONSTANTS
    c1 = c1  c2 = c2  w1 = w1  w2 = w2
    Nothing = Nothing
    Clients = {c1, c2}
    Enabled = {c1, c2}
    Managed = {c1}
    Workers = {w1}
    nbd_nbds = 2
    MaxFaults = 2
INVARIANTS TypeOK OwnDisk GoldenHasOnlyEdits
PROPERTIES CleanBoot

SPECIFICATION StatusFairSpec
CONSTANTS
    w1 = w1
    w2 = w2
    ip1 = ip1
    ip2 = ip2
    Workers = {w1, w2}
    IPs = {ip1, ip2}
    Stations = {ip1}
    Shortened <- MCShortened
    ttl = 1
    lock_ttl = 1
    max_age = 2
    MaxRun = 1
    MaxKills = 1
    DiskFull = TRUE
    Nothing = Nothing
INVARIANT OnlineIsRecent
PROPERTY Replaced

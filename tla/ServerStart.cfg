SPECIFICATION FairSpec
CONSTANTS
    c1 = c1  c2 = c2  s1 = s1  s2 = s2
    None = None
    Missing = Missing
    Bad = Bad
    Env = Env
    Procs = {c1, s1}
    Services = {s1}
    Settings <- MCSettings
    MaxStarts = 2
    MaxKills = 1
    MaxEdits = 1
INVARIANTS HttpNeedsPXE TokenShown StoppedIsQuiet
PROPERTIES StartEnds StopEnds
CHECK_DEADLOCK FALSE

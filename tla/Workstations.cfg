SPECIFICATION Spec
CONSTANTS
    h1 = h1  h2 = h2  b1 = b1  b2 = b2  w1 = w1  w2 = w2
    None = None
    Missing = Missing
    Truncated = Truncated
    Garbled = Garbled
    Hosts = {h1, h2}
    Images = {1}
    Workers = {w1}
    Browsers = {b1}
    MaxSlots = 2
    Installed <- Files
    Default <- CfgLua
    MaxKills = 1
INVARIANTS TidsAreSlots OfferIsFree MarkedInSuper AtRest
PROPERTY OneSlotPerSave
CHECK_DEADLOCK FALSE

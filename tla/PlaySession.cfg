SPECIFICATION Spec
CONSTANTS
    Items = {i1, i2}
    Addons = {a1}
    Kinds = {"torrent", "plain", "expiring"}
    None = None
    MaxClicks = 3
    MaxStreams = 3
INVARIANTS TypeOK CacheHoldsLastingLinks NothingLost
CHECK_DEADLOCK FALSE

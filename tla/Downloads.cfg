SPECIFICATION Spec
CONSTANTS
    Keys = {k1, k2}
    Profiles = {p1, p2}
    MaxIds = 2
INVARIANTS TypeOK TransfersMatchRows OneDownloadPerTitle PartsCanBeResumed
PROPERTY TransfersEnd
CHECK_DEADLOCK FALSE

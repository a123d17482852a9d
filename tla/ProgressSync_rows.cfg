SPECIFICATION Spec
CONSTANTS
    Keys = {k1}
    Profiles = {p1}
    MaxStamp = 2
    MaxClock = 2
    MaxEvent = 1
    MaxPages = 3
    PageSize = 1
    DeltaLimit = 2
INVARIANT TypeOK
PROPERTIES RepliesNeverAge ImplementsSerialRpc
CHECK_DEADLOCK FALSE

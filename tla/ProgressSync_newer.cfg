SPECIFICATION Spec
CONSTANTS
    Keys = {k1}
    Profiles = {p1}
    MaxStamp = 2
    MaxClock = 2
    MaxEvent = 1
    MaxPages = 2
    PageSize = 1
    DeltaLimit = 1
PROPERTIES SuccessKeepsNewerMarks
CHECK_DEADLOCK FALSE

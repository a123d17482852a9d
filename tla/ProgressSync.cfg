SPECIFICATION Spec
CONSTANTS
    Keys = {k1}
    Profiles = {p1, p2}
    MaxStamp = 1
    MaxClock = 1
    MaxEvent = 0
    MaxPages = 1
    PageSize = 1
    DeltaLimit = 0
INVARIANT SerialSlot
PROPERTY MarksLeaveByAck
CHECK_DEADLOCK FALSE

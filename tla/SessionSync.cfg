SPECIFICATION SessionSpec
CONSTANTS
    Accounts = {a1, a2}
    Nobody = Nobody
    MaxPosted = 2
    Keys = {k1}
    Profiles = {p1, p2}
    MaxStamp = 1
    MaxClock = 0
    MaxEvent = 0
    MaxPages = 1
    PageSize = 1
    DeltaLimit = 1
INVARIANTS AuthTypeOK PermissionIsSession HeldIsStored
PROPERTIES RestartKeepsSession
SYMMETRY Symmetry
CHECK_DEADLOCK FALSE

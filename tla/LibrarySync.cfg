SPECIFICATION Spec
CONSTANTS
    Keys = {k1}
    Profiles = {p1, p2}
    MaxOpen = 2
    MaxPages = 2
INVARIANTS TypeOK PendingCoherent
PROPERTIES PendingWins SlotComesFree
CHECK_DEADLOCK FALSE

SPECIFICATION Spec
CONSTANTS
    Keys = {k1, k2}
    Profiles = {p1}
    MaxOpen = 2
    MaxPages = 2
PROPERTIES ClearsOnlyAcknowledged
CHECK_DEADLOCK FALSE

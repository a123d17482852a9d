SPECIFICATION Spec
CONSTANTS
    Items = {i1, i2}
    Addons = {a1}
    Kinds = {"torrent", "plain"}
    None = None
    MaxClicks = 2
    MaxStreams = 2
INVARIANT SessionPlaysItsItem
CHECK_DEADLOCK FALSE

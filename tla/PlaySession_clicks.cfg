SPECIFICATION Spec
CONSTANTS
    Items = {i1}
    Addons = {a1, a2}
    Kinds = {"torrent", "plain"}
    None = None
    MaxClicks = 2
    MaxStreams = 3
PROPERTY ClicksAreAnswered
CHECK_DEADLOCK FALSE

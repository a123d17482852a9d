SPECIFICATION Spec
CONSTANTS
    Profiles = {p1, p2}
    None = None
    Users = {a1}
    Urls = {u1}
    MaxRows = 1
    Ids = {c1, c2}
    Sources = {s1}
    MaxLoads = 2
    MaxEdits = 1
    CatalogValues = {v1, v2}
    Providers = {k1}
    Values = {v1}
    Shelves = {h1, h2}
    kMaxInFlight = 1
    MaxOpen = 2
    kMaxProfiles = 2
    MaxCalls = 2
    MaxAsked = 2
    Items = {i1, i2}
    kLast = 2
    kMaxStopAttempts = 2
    MaxSends = 2
    MaxStreams = 4
    kMetadataDeadlineAttempts = 1
    MaxFetches = 1
    MaxPluginCalls = 2
    MaxElements = 3
    MaxCompounds = 2
    Shows = {w1, w2}
    kFetchConcurrency = 1
    MaxMeta = 2
    Tags = {t1, t2}
INVARIANTS TypeOK InstalledIsShown ItemsOfOneFolder KeysReturnToTheirOwner LoadingGoesOn FileFollowsManager FlowsKeepToThemselves OneAnswerPerCall LastWordIsKept StreamsAreAnswered ShownIsStored ListsStayApart SelectIsCss HandsOverWhatWasAsked
PROPERTIES MovesAreAnnounced ReceivedIsSentBack OffStaysOff
CHECK_DEADLOCK FALSE

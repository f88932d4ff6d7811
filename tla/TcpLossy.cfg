SPECIFICATION Spec
CONSTANTS
    Segments <- TwoSegments
    SynLens = {0}
    Lossy = TRUE
    Windows = {2}
    AckSlack = 1
    RemoteStart = 0
    LocalStart = 5
    MaxDown = 1
    Mss = 2
    Rooms = {0, 2, 4}
    Proxy = TRUE
    WriteOk = {TRUE, FALSE}
    InitTimeout = 1
    IdleTimeout = 2
    CloseTimeout = 1
    KeepTimeout = 1
    MaxAge = 3
    MaxSessions = 2
    Loads = {0, 2}
INVARIANTS
    ReadyHasSocket
    AcksOnlyForwarded
    QueueSorted
    HeadNotStale
PROPERTIES
    ConnectedFirst
    NeverBackwards

SPECIFICATION FairSpec
CONSTANTS
    Segments <- TwoSegments
    SynLens = {0}
    Lossy = FALSE
    Windows = {1}
    AckSlack = 0
    RemoteStart = 0
    LocalStart = 5
    MaxDown = 1
    Mss = 2
    Rooms = {0, 4}
    Proxy = FALSE
    WriteOk = {TRUE}
    InitTimeout = 0
    IdleTimeout = 0
    CloseTimeout = 0
    KeepTimeout = 0
    MaxAge = 1
    MaxSessions = 2
    Loads = {0}
PROPERTIES
    ShutIsRemoved
    QueueDrains

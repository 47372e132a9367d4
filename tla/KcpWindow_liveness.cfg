SPECIFICATION FairSpec
CONSTANTS
    SendWindow = 1
    RecvWindow = 2
    InFlight = 1
    RemoteNext0 = 1
    AckLimit = 1
    MaxNumber = 3
    MaxNet = 1
PROPERTIES
    SegmentsArrive
    WindowDrains

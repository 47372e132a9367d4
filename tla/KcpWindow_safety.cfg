\* Windows of two segments slide over three numbers, three segments in flight.
SPECIFICATION Spec
CONSTANTS
    SendWindow = 1
    RecvWindow = 2
    InFlight = 2
    RemoteNext0 = 1
    AckLimit = 2
    MaxNumber = 3
    MaxNet = 2
INVARIANTS
    TypeOK
    NoPrematureRelease
    AckOwed
PROPERTIES
    WindowsAdvance

SPECIFICATION FairSpec
CONSTANTS
    MaxPosts = 3
    MaxQueues = 2
    ChanCap = 1
    MaxPackets = 1
    MaxGets = 1
    Pieces <- MCPieces
    Workloads <- MCWorkloads
INVARIANTS InOrder NothingLost ReaderWoken
PROPERTIES Delivery Released ForwardEnds
CHECK_DEADLOCK FALSE

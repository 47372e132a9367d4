\* The application, the socket's reader and the ping updater; two segments.
SPECIFICATION FairSpec
CONSTANTS
    WindowSize = 1
    Flushers = {}
INVARIANTS
    TypeOK
    LocalCloseKeepsData
    PeerTold
    TerminatedReleases
PROPERTY ClosingReleases

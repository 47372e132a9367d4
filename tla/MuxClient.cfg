SPECIFICATION FairSpec
CONSTANTS
    MaxSessions = 2
    MaxConcurrency = 0
INVARIANTS ManagerSound DownlinkShut
PROPERTIES Teardown Reaped
CHECK_DEADLOCK FALSE

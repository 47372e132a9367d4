SPECIFICATION FairSpec
CONSTANT MaxSessions = 2
INVARIANTS ManagerSound LinkUsable UpstreamShut NoConflict
PROPERTY LoopProgress
CHECK_DEADLOCK FALSE

\* Three sessions in succession under one id.  Once the listener has closed and
\* every session has ended there is nothing left to do.
SPECIFICATION ListenerFairSpec
CONSTANTS
    Ids = {i1}
    MaxConns = 3
INVARIANT ClosedUnlisted
PROPERTY CloseEmpties
CHECK_DEADLOCK FALSE

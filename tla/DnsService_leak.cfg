SPECIFICATION Spec
CONSTANTS
    MaxClients = 1
    MaxLookups = 2
    Families = {4}
    Ttls = {1}
    MaxNow = 1
    ExpiredTtl = 1
    Workloads <- MCOneClient
INVARIANT NoLeak
CHECK_DEADLOCK FALSE

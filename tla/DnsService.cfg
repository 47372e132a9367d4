SPECIFICATION FairSpec
CONSTANTS
    MaxClients = 2
    MaxLookups = 2
    Families = {4, 6}
    Ttls = {1}
    MaxNow = 3
    ExpiredTtl = 1
    Workloads <- MCWorkloads
INVARIANTS OneLeader Verdict
PROPERTIES CacheAnswers CleanupSafe LookupsReturn
CHECK_DEADLOCK FALSE

\* Is the pool's count the number of open stores?
SPECIFICATION Spec
CONSTANTS
    Stores = {s1}
    Confs <- MCPooled
    DefaultCacheTimeout = 2
    StartTime = 2
    MaxTime = 4
    MaxVersions = 2
    MaxCalls = 2
INVARIANT PoolCountsOpenStores
CHECK_DEADLOCK FALSE

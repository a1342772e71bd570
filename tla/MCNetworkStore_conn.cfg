\* Two store objects, made by copy() and destroyed in any order, every kind
\* of configuration, four open() calls.
SPECIFICATION Spec
CONSTANTS
    Stores = {s1, s2}
    Confs <- MCConfs
    DefaultCacheTimeout = 2
    StartTime = 2
    MaxTime = 4
    MaxVersions = 2
    MaxCalls = 4
SYMMETRY StoreSymmetry
INVARIANT TypeOK
INVARIANT OpenStoresHoldConnections
INVARIANT ClosedStoresHoldNoConnection
CHECK_DEADLOCK FALSE

\* Do two threads agree on the store of a category?
SPECIFICATION Spec
CONSTANTS
    Threads = {t1, t2}
    Categories = {c1}
    MaxMsgs = 2
    MaxFaults = 0
PROPERTY OneStorePerCategory
CHECK_DEADLOCK FALSE

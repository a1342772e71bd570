\* Is every context freed once?
SPECIFICATION Spec
CONSTANTS
    Servers = {"redis1:6379"}
    Lens = {1}
    triggerPath = TRUE
    MaxMsgs = 1
    MaxCalls = 2
INVARIANT NoContextFreedTwice
CHECK_DEADLOCK FALSE

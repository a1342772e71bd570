\* Batches of up to four messages of one or two bytes, two calls of the owner.
SPECIFICATION Spec
CONSTANTS
    Servers = {"redis1:6379"}
    Lens = {1, 2}
    triggerPath = TRUE
    MaxMsgs = 4
    MaxCalls = 2
INVARIANT TypeOK
INVARIANT PushedInOrder
CHECK_DEADLOCK FALSE

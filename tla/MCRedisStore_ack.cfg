\* Is a batch that handleMessages acknowledged on the server?
SPECIFICATION Spec
CONSTANTS
    Servers = {"redis1:6379"}
    Lens = {1}
    triggerPath = TRUE
    MaxMsgs = 2
    MaxCalls = 0
INVARIANT AcknowledgedIsPushed
CHECK_DEADLOCK FALSE

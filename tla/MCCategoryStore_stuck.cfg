\* Is a category served again after the open of its child failed once?
\* A model of type network, two categories, two messages, one failure, no
\* close; the caller offers its batch again and again.
SPECIFICATION FairSpec
CONSTANTS
    Confs <- MCNetwork
    Categories = {c1, c2}
    MaxMsgs = 2
    MaxFaults = 1
    MaxCalls = 0
PROPERTY EventuallyHandled
CHECK_DEADLOCK FALSE

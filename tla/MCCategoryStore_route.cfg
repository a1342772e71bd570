\* Every kind of configuration, those the store cannot use included; two
\* categories, three messages, two failures of children, one close.
SPECIFICATION Spec
CONSTANTS
    Confs <- MCAnyConf
    Categories = {c1, c2}
    MaxMsgs = 3
    MaxFaults = 2
    MaxCalls = 1
INVARIANT TypeOK
INVARIANT RoutedOnce
PROPERTY ChildrenAreKept
PROPERTY ImplementsContract
CHECK_DEADLOCK FALSE

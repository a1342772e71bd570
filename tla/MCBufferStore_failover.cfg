\* A store that replays its buffer, two files at a time, and one that does
\* not, with a secondary that can be read (file) and one that cannot
\* (thriftfile); a retry interval of 1 to 3, 4 messages, two failures of the stores,
\* and two of open, close and restart.  The timer, the clock and the caller
\* are fair.
SPECIFICATION FairSpec
CONSTANTS
    bufferSendRate = 2
    avgRetryInterval = 2
    retryIntervalRange = 1
    ReplayBuffer = {TRUE, FALSE}
    Secondaries = {"file", "thriftfile"}
    MaxMsgs = 4
    MaxFaults = 2
    MaxCalls = 2
INVARIANT TypeOK
INVARIANT ForwardedInOrder
PROPERTY ImplementsContract
PROPERTY BacklogDrains

\* A store configured to rotate by size (max_size 2) and by age (a period
\* of 3), with statistics, or at minute 1 of every hour of 2 minutes, or at
\* 00:01 of every day of 2 hours, or by size only (file names without a
\* date), under writes, rotations and opens that fail, close, reopen and
\* restart, from the first day to hour 1 of the second.  The timer is fair.
SPECIFICATION FairSpec
CONSTANTS
    Confs <- MCConfs
    MinutesPerHour = 2
    HoursPerDay = 2
    ZeroOnParseFail = TRUE
    TimeBits = 24
    MaxMsgs = 3
    MsgLen <- MCMsgLen
    MaxTime = 6
    StartTimes = {0, 1}
    MaxFaults = 1
    MaxCalls = 2
INVARIANT TypeOK
INVARIANT WrittenOnceInOrder
INVARIANT CountersMatchFile
INVARIANT NotDueAfterCheck
PROPERTY RotationOpensFreshFile
PROPERTY StatsDescribeClosedFile
PROPERTY OversizeEventuallyRotates
PROPERTY ImplementsContract
CHECK_DEADLOCK FALSE

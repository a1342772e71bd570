\* Hourly rotation with one failure of the transport: is the rotation that
\* failed still due afterwards?
SPECIFICATION Spec
CONSTANTS
    Confs <- MCPlainHourly
    MinutesPerHour = 2
    HoursPerDay = 2
    ZeroOnParseFail = FALSE
    TimeBits = 24
    MaxMsgs = 1
    MsgLen <- MCMsgLen
    MaxTime = 7
    StartTimes = {0}
    MaxFaults = 1
    MaxCalls = 1
PROPERTY DueUntilRotated
CHECK_DEADLOCK FALSE

\* Two threads, two categories, five messages (more than threads times
\* categories, so that the bound on the stores made can be passed), one
\* disturbance: a call of a child that fails, in a worker, the timer or the
\* owner, or a close by the owner.
SPECIFICATION Spec
CONSTANTS
    Threads = {t1, t2}
    Categories = {c1, c2}
    MaxMsgs = 5
    MaxFaults = 1
SYMMETRY Symmetry
INVARIANT TypeOK
INVARIANT TakenOnce
CHECK_DEADLOCK FALSE

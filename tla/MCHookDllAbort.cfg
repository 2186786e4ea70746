\* No hook fails; a thread calls GetSystemTime while install is at work.
SPECIFICATION Spec
CONSTANTS
    t1 = t1
    t2 = t2
    Threads = {t1}
    Deltas <- TwoDeltas
    Failing = {}
    Sign = 2
    MaxClock = 1
INVARIANT NoAbort
CHECK_DEADLOCK FALSE

\* Two of the five hooks may fail; three deltas, a clock that ticks twice.
\* Threads share nothing they write but aborted, so one meets all that install
\* and the controller can do to it.
SPECIFICATION Spec
CONSTANTS
    t1 = t1
    t2 = t2
    Threads = {t1}
    Deltas <- FarDeltas
    Failing <- SomeFail
    Sign = 2
    MaxClock = 2
INVARIANTS TypeOK HookedTimeInForce UnwrittenBefore1601 AbortOnlyEarly
PROPERTY BestEffort
CHECK_DEADLOCK FALSE

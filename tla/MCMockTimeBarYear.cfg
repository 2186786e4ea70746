\* A year of 24 ticks, with both clock changes.
SPECIFICATION Spec
CONSTANTS
    Forward = 6
    Back = 16
    Saving = 4
    Second = 2
    MaxTime = 24
    MaxDelta = 28
INVARIANT TypeOK
PROPERTIES AppliedShown NowRestores NowRefusedInFold

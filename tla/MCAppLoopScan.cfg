\* Two processes, and a log that holds just what a scan of both writes.
SPECIFICATION Spec
CONSTANTS
    p1 = p1
    p2 = p2
    every = every
    first = first
    broken = broken
    Pids = {p1, p2}
    Rules = {every, first, broken}
    Malformed = {broken}
    Edited = {every, first}
    Matching <- Matches12
    LogCap = 4
INVARIANTS TypeOK ScanReported NoneOverlooked EntryListed
PROPERTIES WantedInjected DeadPruned

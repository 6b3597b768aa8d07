CONSTANTS
    r1 = r1
    a = a
    b = b
    m = m
    n = n
    none = none
    NoSha = none
    Jobs <- Mixed
    Concurrency = 1
    DedupeWindow = 3
    MaxPending = 1
    MaxArrivals = 3
    Waiters = {}
    Faults <- FaultNames
    MaxFaults = 2
    MaxBusy = 1
SPECIFICATION EitherSpec
INVARIANTS
    ClaimedOnce
    OwnCleanOutput
    LostRunsHaveACause
PROPERTY RunsFinish
CHECK_DEADLOCK FALSE

CONSTANTS
    r1 = r1
    r2 = r2
    r3 = r3
    a = a
    b = b
    c = c
    none = none
    k1 = k1
    k2 = k2
    k3 = k3
    small = small
    large = large
    huge = huge
    NoSha = none
    Jobs <- MCJobs
    Concurrency = 2
    DedupeWindow = 3
    MaxPending = 2
    MaxArrivals = 7
    Waiters = {w1}
    RepositoryIds = {r1, r2, r3}
    Times = {0, 1, 2, 3}
    Window = 2
    Repositories = {r1, r2}
    CacheKeys = {k1, k2, k3}
    Values = {small, large, huge}
    Size <- MCSize
    MaxBytes = 3
    MaxPerRepository = 2
    MaxUses = 5
    MaxRepositories = 2
    MaxPermissions = 5
    HeaderBytes = 2
    Base = 3
    MaxFrameBytes = 3
    MaxStreamBytes = 6
SPECIFICATION ProcessSpec
INVARIANTS
    QueueInv
    CacheIsCounted
    OnePerWindow
    FrameIsTheStream
PROPERTIES
    DroppedOnlyForSuccessor
    CacheOnlyForgets
\* The bounds on uses and permissions, and the end of a stream, end a behaviour.
CHECK_DEADLOCK FALSE

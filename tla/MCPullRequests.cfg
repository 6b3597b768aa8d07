CONSTANTS
    a = a
    b = b
    c = c
    x = x
    r1 = r1
    r2 = r2
    r3 = r3
    r4 = r4
    s1 = s1
    s2 = s2
    e1 = e1
    e2 = e2
    NoWriter = NoWriter
    NoSha = NoSha
    Repo = r1
    Requests <- OneRequest
    History <- Forward
    Relevant <- MCRelevant
    MaxDeliveries = 2
    Jobs <- MCJobs
    Concurrency = 1
    DedupeWindow = 3
    MaxPending = 1
    MaxArrivals = 5
    Waiters = {}
    Lanes = {1, 2}
    Candidates <- MCCandidates
    JobFor <- MCJobFor
    Resources = {"core", "search"}
    Limit = 20
    Remainders = {1, 2, 3}
    RetryAfters = {0, 60, 61}
    MaxWait = 60
    MaxRetries = 2
    MaxResponses = 5
    Scans = {s1, s2}
    HeadOfScan <- MCHeadOfScan
    Edits = {e1, e2}
    Maintainers = {e1, e2}
    Listed = 2
    MaxRemarks = 1
    MayFail = TRUE
SPECIFICATION PullRequestsSpec
INVARIANTS
    CurrentHeadIsKept
    DuplicatesLoseNothing
    EachCandidateOnce
    WarnedOncePerDip
    OneComment
PROPERTIES
    CurrentHeadIsAnalysed
    GivenUpIsFinal
    HandlerLeaves
    OnlyScansMoveOn
    WritersFinish
CHECK_DEADLOCK FALSE

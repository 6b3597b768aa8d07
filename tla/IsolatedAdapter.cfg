SPECIFICATION FairSpec
CONSTANTS
    MaxDeps = 3
    Concurrency = 2
    Capabilities = {"graph", "usage", "notes"}
    StageTime = 1
    UsageTime = 2
    Grace = 1
    MaxUsages = 2
INVARIANTS
    UsageIsAccountedFor
    LateStagesCostNothing
PROPERTY EveryRunSettlesOnce
\* A settled run whose thread is gone has no step left.
CHECK_DEADLOCK FALSE

SPECIFICATION Spec
CONSTANTS
    MaxDeps = 2
    Concurrency = 1
    Capabilities = {"graph", "usage", "notes"}
    StageTime = 1
    UsageTime = 2
    Grace = 1
    MaxUsages = 1
PROPERTIES
    ReportedFactsAreKept
\* A settled run whose thread is gone has no step left.
CHECK_DEADLOCK FALSE

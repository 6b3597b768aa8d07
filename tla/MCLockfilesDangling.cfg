CONSTANTS
    None = None
    Pending = Pending
    Failed = Failed
    HugeNumber = 1000
    MaxMatchStates = 1000
    IgnoredSegments <- MCIgnoredSegments
    GlobCharacters = {"[", "]"}
    MaxYarnManifests = 2
    BadScopes <- MCBadScopes
    ScopeOf <- MCScopeOf
    MaxLinks = 8
    MaxVisits = 100
SPECIFICATION SpecDangling
INVARIANT NeverThrows
CHECK_DEADLOCK FALSE

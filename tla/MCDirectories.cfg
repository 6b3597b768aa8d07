CONSTANTS
    None = None
    Malformed = Malformed
    i1 = i1
    i2 = i2
    Listed = i1
    Files <- MCFiles
    Link = link
    Outside = outside
    NoFile = nothing
    Sizes = {1, 2, 3}
    MaxBytes = 2
    HeadBytes = 2
    MaxDisturbances = 3
    Manifest = "package.json"
    Targets = "ghostdeps.targets.json"
    Sources = {"index.ts"}
    Order <- MCOrder
    InitialTrees <- MCInitialTrees
    Candidates = 2
    Recurring = FALSE
    MaxChanges = 2
    EditTargets = {"package.json", "package-lock.json"}
    OtherFiles = {"a.ts", "b.ts"}
    Late = {"b.ts"}
    MaxWrites = 2
    MaxWritten = 2
    Removable <- MCRemovable
    Uses <- MCUses
    Streams <- SomeStreams
    Block = 2
    MaxPax = 2
    MaxArchive = 11
    MaxEntries = 3
    MaxFile = 3
    MaxTotal = 4
    MaxDepth = 3
    Fold <- MCFold
    Trees <- SomeTrees
    Limits <- SomeLimits
    Configs <- SomeConfigs
    Overrides <- SomeOverrides
    UnsafeNames = {5}
    ExcludedNames = {4}
    GeneratedNames = {4}
    LockfileNames = {3}
SPECIFICATION DirectoriesSpec
INVARIANTS
    ArchiveOrNothing
    WholeAndInOrder
    ScanAccountsForAll
    ServedIsWhatWasChecked
    CheckedIsOfOneTree
PROPERTY FindingIsOfTheSnapshot
\* An extraction, a scan, a read and a preview end.
CHECK_DEADLOCK FALSE

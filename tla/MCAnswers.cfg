CONSTANTS
  None = None
  Pending = Pending
  Failed = Failed
  ZeroSha = ZeroSha
  PageSize = 2
  MaxNotes = 2
  MaxAnnotations = 2
  MaxForkAnnotations = 1
  SummaryLimit = 6
  MaxFilePages = 2
  NonShippedFiles = {}
  SingleEcosystem = {}
  TypesTarget <- SomeTypesTarget
  DefaultAllowlist <- SomeDefaultAllowlist
  HasPrefix <- SomeHasPrefix
  Normal <- SomeNormal
  Clusters <- SomeClusters
  NonShippedDirs <- SomeNonShippedDirs
  TypeStripping <- SomeTypeStripping
  KnownRules <- SomeKnownRules
  KnownEcosystems <- SomeKnownEcosystems
  Analyses <- SomeAnalyses
  Posts <- SomePosts
  CommandLines <- SomeCommandLines
  EcosystemOrder <- SomeEcosystems
  NameOrder <- SomeNames
  LooseName <- SomeLooseName
  ImpactBudget = 5
  MaxMetadataPackages = 9
  RegistrySpecs = {"^1", "^2"}
  Removals <- SomeRemovals
SPECIFICATION Spec
INVARIANTS
  NoChangeIsMissed
  GraphsAreTheInstalls
  AliasesAreTypeScripts
  RemovalBreaksNothing
  DerivedFactsAreTrue
  AbsenceIsProved
  SuccessIsMeant
\* A behaviour makes one call.
CHECK_DEADLOCK FALSE

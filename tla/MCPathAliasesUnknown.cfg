CONSTANTS
  None = None
  Pending = Pending
  MaxExtendsDepth = 2
  MaxExtendsBases = 2
  MaxPathEntries = 3
  MaxTargets = 2
  MaxManifests = 3
  MaxLenient = 1
  MaxConditionDepth = 2
INIT Init
NEXT Next
CHECK_DEADLOCK FALSE
INVARIANTS UnknownBasesOnlyAddUsage

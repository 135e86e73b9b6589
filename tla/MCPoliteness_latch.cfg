SPECIFICATION Spec
CONSTANTS
  api = api
  cdn = cdn
  fetcher = fetcher
  tipper = tipper
  drainer = drainer
  EgressHosts <- MCApi
  ApiHost = api
  NoHost = NoHost
  Jobs = {fetcher, tipper}
  JobKind <- MCKind
  Threshold = 2
  TransientThreshold = 2
  BackoffCap = 3
  MaxOutages = 4
  MaxTally = 8
  MaxRetries = 1
  MaxReads = 1
  ForbiddenBudget = 3
  MaxUnlatches = 0
  MaxFaults = 1
INVARIANTS TypeOK LatchedAtThreshold RefusalStreakBounded RefusalsPerRunBounded
CHECK_DEADLOCK FALSE

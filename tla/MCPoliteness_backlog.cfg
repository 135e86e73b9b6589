SPECIFICATION Spec
CONSTANTS
  api = api
  cdn = cdn
  fetcher = fetcher
  tipper = tipper
  drainer = drainer
  EgressHosts <- MCApi
  ApiHost = api
  NoHost = NoHost
  Jobs = {fetcher, drainer}
  JobKind <- MCKind
  Threshold = 2
  TransientThreshold = 2
  BackoffCap = 2
  MaxOutages = 3
  MaxTally = 8
  MaxRetries = 1
  MaxReads = 1
  ForbiddenBudget = 8
  MaxUnlatches = 0
  MaxFaults = 0
INVARIANT RefusalStreakBounded
CHECK_DEADLOCK FALSE

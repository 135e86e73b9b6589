SPECIFICATION FairSpec
CONSTANTS
  api = api
  cdn = cdn
  fetcher = fetcher
  tipper = tipper
  drainer = drainer
  EgressHosts <- MCHosts
  ApiHost = api
  NoHost = NoHost
  Jobs = {fetcher, drainer}
  JobKind <- MCKind
  Threshold = 2
  TransientThreshold = 2
  BackoffCap = 1
  MaxOutages = 2
  MaxTally = 2
  MaxRetries = 0
  MaxReads = 1
  ForbiddenBudget = 1
  MaxUnlatches = 1
  MaxFaults = 0
INVARIANTS ClosedGateHolds
PROPERTY NotRetired
CHECK_DEADLOCK FALSE

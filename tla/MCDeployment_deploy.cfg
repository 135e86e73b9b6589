SPECIFICATION FairSpec
CONSTANTS
  first = first
  second = second
  edited = edited
  Pods = {fetcher, collector}
  Checkers = {fetcher}
  NoPod = NoPod
  NoRelease = NoRelease
  Files = {1, 2}
  Releases = {first, second, edited}
  Ships <- MCShips
  Unrecorded = Unrecorded
  MaxDeploys = 1
  MaxFaults = 1
  Fetchers = {fetcher}
  Collectors = {collector}
  Blobs = {picture, video, flow}
  Prefixes = {picture, video}
  NoBlob = NoBlob
  Limit = 1
INVARIANTS DeploymentTypeOK BootstrapAlone AppliedOnce InOrder JobHasItsSchema IndexResolves
PROPERTIES SchemaCatchesUp OnlyExpiredGo PrefixesAgeOut
CHECK_DEADLOCK FALSE

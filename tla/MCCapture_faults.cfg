SPECIFICATION Spec
CONSTANTS
  png = png
  webp = webp
  jpeg = jpeg
  lost = lost
  Artifacts = {png, webp, jpeg}
  Fetchers = {f1}
  NoFetcher = NoFetcher
  NoArtifact = NoArtifact
  Batch = 3
  FlushEvery = 2
  Rank <- MCRank
  BytesHold <- MCBytes
  ApiHold <- MCApi
  HasMeta = {webp}
  Barren = {jpeg}
  Gone = {}
  Digest <- MCDigest
  MaxFaults = 2
INVARIANTS TypeOK DoneIsDurable RecordsResolve CleanExitHoldsNoLease
PROPERTIES ConcludedIsFinal KeepsContract
CHECK_DEADLOCK FALSE

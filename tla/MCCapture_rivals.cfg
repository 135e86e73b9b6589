SPECIFICATION FairSpec
CONSTANTS
  png = png
  webp = webp
  jpeg = jpeg
  lost = lost
  Artifacts = {png, webp}
  Fetchers = {f1, f2}
  NoFetcher = NoFetcher
  NoArtifact = NoArtifact
  Batch = 1
  FlushEvery = 1
  Rank <- MCRank
  BytesHold <- MCBytes
  ApiHold <- MCApi
  HasMeta = {}
  Barren = {jpeg}
  Gone = {}
  Digest <- MCDigest
  MaxFaults = 1
INVARIANTS IInv
CHECK_DEADLOCK FALSE
PROPERTY Drained

SPECIFICATION Spec
CONSTANTS
  png = png
  webp = webp
  jpeg = jpeg
  lost = lost
  Artifacts = {png, lost}
  Fetchers = {f1}
  NoFetcher = NoFetcher
  NoArtifact = NoArtifact
  Batch = 2
  FlushEvery = 2
  Rank <- MCRank
  BytesHold <- MCBytes
  ApiHold <- MCApi
  HasMeta = {webp}
  Barren = {jpeg}
  Gone = {lost}
  Digest <- MCDigest
  MaxFaults = 2
INVARIANT GoneOnlyIfGone
CHECK_DEADLOCK FALSE

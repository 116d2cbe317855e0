SPECIFICATION Spec
CONSTANTS
  p = p
  q = q
  m0 = m0
  n0 = n0
  m1 = m1
  m2 = m2
  Paths <- MCPaths
  Manifests <- MCSigned
  Content <- MCContent
  Generation <- MCGeneration
  NoManifest = NoManifest
  MaxInstalls = 3
INVARIANTS ReleasesAreWhole GamesKeepTheirRelease CheckpointsAreGood NoOlderGeneration

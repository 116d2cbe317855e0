SPECIFICATION FairSpec
CONSTANTS
  a = a
  b = b
  x = x
  y = y
  z = z
  r = r
  s = s
  Runs = {r, s}
  Jobs <- MCCrossedJobs
  Hosts = {a, b}
  Objects = {x, y, z}
  RunOf <- MCCrossedRuns
  ObjectOf <- MCCrossedObjects
  SourcesOf <- MCCrossedSources
  Rank <- MCRank
  GlobalLimit = 3
  RunLimit = 3
  HostLimit = 1
  RunHostLimit = 1
  Nobody = Nobody
PROPERTIES StopsAreObeyed EveryRunEnds

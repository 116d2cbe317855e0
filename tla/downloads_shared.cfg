SPECIFICATION FairSpec
CONSTANTS
  a = a
  b = b
  x = x
  y = y
  z = z
  r = r
  s = s
  Runs = {r}
  Jobs <- MCSharedJobs
  Hosts = {a, b}
  Objects = {x, y, z}
  RunOf <- MCSharedRuns
  ObjectOf <- MCSharedObjects
  SourcesOf <- MCSharedSources
  Rank <- MCRank
  GlobalLimit = 6
  RunLimit = 6
  HostLimit = 3
  RunHostLimit = 3
  Nobody = Nobody
CHECK_DEADLOCK FALSE
PROPERTIES EveryRunEnds

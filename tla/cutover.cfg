SPECIFICATION Spec
CONSTANTS
  r1 = r1
  r2 = r2
  r3 = r3
  m1 = m1
  m2 = m2
  p1 = p1
  p2 = p2
  p3 = p3
  None = None
  Releases <- Releases3
  Runs <- Runs2
  Publishers <- Publishers3
  Starts <- MCStarts
SYMMETRY Symmetric
CHECK_DEADLOCK FALSE
INVARIANTS RouteHoldsTheHead PublishedInOrder
PROPERTIES RollbackRestores ReplacesTheHeadItRead ConflictsAreReal

SPECIFICATION Spec
CONSTANTS
  b1 = b1
  b2 = b2
  o1 = o1
  o2 = o2
  w1 = w1
  w2 = w2
  NoOne = NoOne
  None = None
  Rollbacks <- Rollbacks1
  Orders <- Orders2
  Workers <- Workers2
  MaxAttempts = 2
  MaxContent = 2
  MaxLeases = 3
  MaxRetries = 1
SYMMETRY Symmetric
CHECK_DEADLOCK FALSE
INVARIANTS RollbackReplacedItsHead RetriesKeepTheRelease

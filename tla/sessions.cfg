SPECIFICATION Spec
CONSTANTS
  s1 = s1
  s2 = s2
  s3 = s3
  t1 = t1
  t2 = t2
  t3 = t3
  d1 = d1
  d2 = d2
  p1 = p1
  p2 = p2
  p3 = p3
  Sessions = {s1, s2}
  Tokens = {t1, t2, t3}
  Devices = {d1, d2}
  Requests = {p1, p2}
  NoSession = NoSession
  NoToken = NoToken
  NoDevice = NoDevice
  MaxSessions = 1
  MaxEpoch = 3
SYMMETRY MCSymmetry
INVARIANTS TokensFollow DevicesFollow
PROPERTIES ImplementsTokenFamilies

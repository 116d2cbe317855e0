SPECIFICATION LiveSpec
CONSTANTS
  e1 = e1
  e2 = e2
  s1 = s1
  s2 = s2
  d1 = d1
  d2 = d2
  w1 = w1
  w2 = w2
  package = package
  Events = {e1, e2}
  OutboxEvents = {e1}
  Keys = {package}
  KeyOf <- MCKeyOf
  Subs = {s1}
  Drainers = {d1}
  Workers = {w1, w2}
  Request = Request
  NoOne = NoOne
  NoEvent = NoEvent
  NoSub = NoSub
  OutboxAttempts = 2
  MaxAttempts = 2
  ClaimLimit = 1
  MaxFaults = 1
CHECK_DEADLOCK FALSE
INVARIANTS KeptInOrder OneCallAtATime DeliveredIsLogged
PROPERTIES LapsedClaimSettlesNothing OverStaysOver EveryOutboxEventEnds EveryDeliveryEnds

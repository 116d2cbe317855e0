SPECIFICATION Spec
CONSTANTS
  r1 = r1
  r2 = r2
  j1 = j1
  j2 = j2
  w1 = w1
  w2 = w2
  alice = alice
  Releases = {r1, r2}
  Jobs = {j1, j2}
  Actors = {alice}
  ActorOf <- MCActorOf
  Workers = {w1, w2}
  NoRelease = NoRelease
  NoJob = NoJob
  NoOne = NoOne
  MaxVersion = 1
  MaxEpoch = 1
  MaxFence = 1
SYMMETRY MCSymmetry
INVARIANTS OneWinnerPerRevision
PROPERTIES ImplementsReleaseChannel

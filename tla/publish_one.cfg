SPECIFICATION Spec
CONSTANTS
  r1 = r1
  r2 = r2
  j1 = j1
  j2 = j2
  w1 = w1
  w2 = w2
  alice = alice
  Releases = {r1}
  Jobs = {j1}
  Actors = {alice}
  ActorOf <- MCActorOf
  Workers = {w1, w2}
  NoRelease = NoRelease
  NoJob = NoJob
  NoOne = NoOne
  MaxVersion = 2
  MaxEpoch = 2
  MaxFence = 2
SYMMETRY MCSymmetry
INVARIANTS PublishedAsRequested
PROPERTIES OnlyLateJobsEscape ImplementsFencedTasks

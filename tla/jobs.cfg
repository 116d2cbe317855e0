SPECIFICATION LiveSpec
CONSTANTS
  j1 = j1
  j2 = j2
  pub = pub
  op = op
  p1 = p1
  p2 = p2
  alice = alice
  Jobs <- MCJobs
  Keys <- MCKeys
  Payloads = {p1, p2}
  Actors = {alice}
  ActorOf <- MCActorOf
  PublishKeys = {pub}
  NoKey = NoKey
  NoJob = NoJob
  NoPayload = NoPayload
  MaxAttempts = 2
  RetryGrant = 1
  AttemptBound = 2
  LeaseTTL = 1
  Delays = {0, 1}
  BatchLimit = 1
INVARIANTS RowsAgree SuccessIsRecorded OneJobPerKey
PROPERTIES OnlyRevocationOrphans ImplementsFencedTasks EveryJobEnds

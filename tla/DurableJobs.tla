---- MODULE DurableJobs ----
(***************************************************************************)
(* The durable job table of the API (repository/durable.go and             *)
(* repository/operations.go over PostgreSQL): jobs, their attempts, the    *)
(* idempotency records, and the cascade of database triggers that revokes  *)
(* a user's work.                                                          *)
(*                                                                         *)
(* Each Go function is one SQL transaction that locks the job's row before *)
(* it reads it, so each is one action.  The caller is not modelled: Fail,  *)
(* Terminate, Complete and Publish may be called at any time with any      *)
(* token that was ever handed out.  That is every worker that is slow,     *)
(* crashes, is restarted or repeats a call.                                *)
(*                                                                         *)
(* PostgreSQL's clock is the only clock the leases use, and the code only  *)
(* compares times with "now": a time is kept as the number of ticks left   *)
(* until it, 0 when it has passed.                                         *)
(*                                                                         *)
(* A row has one field the table has not, a history: the token of the call *)
(* that settled its last lease, 0 if none did.                             *)
(***************************************************************************)
EXTENDS Naturals, Sequences, FiniteSets

CONSTANTS
  Jobs,         \* job ids
  Keys,         \* idempotency keys, each with its scope (kind, actor)
  Payloads,     \* what a caller asks for; equal payloads have equal digests
  Actors,       \* users
  ActorOf,      \* the user in the scope of a key
  PublishKeys,  \* the keys whose kind is "publish"; the rest are operations
  NoKey, NoJob, NoPayload,
  MaxAttempts,  \* max_attempts of a new job (8 in the code)
  RetryGrant,   \* attempts an operator's retry adds (8 in the code)
  AttemptBound, \* bound of the model on max_attempts
  LeaseTTL,     \* ticks a job lease lasts
  Delays,       \* ticks a job may have to wait: retryAfter, and API clock skew
  BatchLimit    \* jobs one LeaseDurableJobs call may take

ASSUME ConstantsAssumption ==
  /\ ActorOf \in [Keys -> Actors]
  /\ PublishKeys \subseteq Keys
  /\ NoKey \notin Keys /\ NoJob \notin Jobs /\ NoPayload \notin Payloads
  /\ MaxAttempts \in Nat \ {0} /\ RetryGrant \in Nat \ {0} /\ AttemptBound \in Nat
  /\ LeaseTTL \in Nat \ {0} /\ BatchLimit \in Nat \ {0}
  /\ Delays \subseteq Nat

VARIABLES
  job,       \* durable_jobs: a row for each id, "absent" until it is inserted
  attempts,  \* durable_job_attempts: the status of attempts 1, 2, ... of a job
  idem,      \* idempotency_records: payload digest and the jobId of response
  cascade,   \* how far the revocation triggers of each user have got
  marked,    \* attempt rows they have updated and not yet committed
  doomed     \* job rows they have updated and not yet committed

jobVars == <<job, attempts, idem>>
cascadeVars == <<cascade, marked, doomed>>
vars == <<job, attempts, idem, cascade, marked, doomed>>

Terminal == {"succeeded", "failed", "dead", "revoked"}
Statuses == {"absent", "pending", "running"} \cup Terminal
AttemptStatuses == {"running", "succeeded", "failed", "dead", "revoked"}

JobRow == [status: Statuses, key: Keys \cup {NoKey}, payload: Payloads \cup {NoPayload},
           token: Nat, fence: Nat, lease: Nat, attempt: Nat, max: Nat, wait: Nat, by: Nat]
AbsentRow == [status |-> "absent", key |-> NoKey, payload |-> NoPayload, token |-> 0,
              fence |-> 0, lease |-> 0, attempt |-> 0, max |-> 0, wait |-> 0, by |-> 0]
IdemRecord == [payload: Payloads \cup {NoPayload}, job: Jobs \cup {NoJob}]
NoRecord == [payload |-> NoPayload, job |-> NoJob]

Init == /\ job = [j \in Jobs |-> AbsentRow]
        /\ attempts = [j \in Jobs |-> <<>>]
        /\ idem = [k \in Keys |-> NoRecord]
        /\ cascade = [a \in Actors |-> "idle"]
        /\ marked = {} /\ doomed = {}

----------------------------------------------------------------------------
(* Rows *)

(* status = 'running' AND lease_expires_at <= clock_timestamp() *)
Expired(j) == job[j].status = "running" /\ job[j].lease = 0

(* Mutant: the caller's token is not compared with the row's. *)
HoldsAnyToken(j, t) == job[j].status = "running" /\ job[j].lease > 0

(* The guard of every call that settles an attempt. *)
Holds(j, t) == job[j].status = "running" /\ job[j].token = t /\ job[j].lease > 0

(* An update of the row would wait for the trigger's transaction. *)
RowFree(j) == j \notin doomed
AttemptFree(j) == <<j, job[j].attempt>> \notin marked

(* finishJobAttempt0213: WHERE attempt = n AND status = 'running' *)
CloseAttempt(log, n, outcome) ==
  [i \in DOMAIN log |-> IF i = n /\ log[i] = "running" THEN outcome ELSE log[i]]

(* The lease is taken off the row: owner, token and expiry are cleared. *)
Unleased(row, status) == [row EXCEPT !.status = status, !.token = 0, !.lease = 0]

(* A token is 24 random bytes and never repeats within a job; it is named  *)
(* here by the number of the attempt row it is issued with.                *)
Leased(row, token) ==
  [row EXCEPT !.status = "running", !.token = token, !.fence = row.fence + 1,
              !.lease = LeaseTTL, !.attempt = row.attempt + 1, !.by = 0]

(* Mutant: the abandoned attempt is left as it is. *)
RecoveredOpen(j, outcome) == attempts[j]

(* The attempt that an expired worker left open is closed. *)
Recovered(j, outcome) ==
  IF Expired(j) THEN CloseAttempt(attempts[j], job[j].attempt, outcome) ELSE attempts[j]

----------------------------------------------------------------------------
(* Enqueue, lease *)

(* Mutant: a record that lost its job is taken for no record. *)
EnqueueAnswerAnew(k, p) ==
  CASE idem[k].job = NoJob -> "created"
    [] idem[k].job # NoJob /\ idem[k].payload # p -> "conflict"
    [] OTHER -> "replayed"

(* What EnqueueDurableJob answers: a new job, the recorded one, a conflict. *)
EnqueueAnswer(k, p) ==
  CASE idem[k].payload = NoPayload -> "created"
    [] idem[k].payload # NoPayload /\ (idem[k].payload # p \/ idem[k].job = NoJob) -> "conflict"
    [] OTHER -> "replayed"

(* available_at is the API host's clock: ahead of PostgreSQL's by the skew. *)
EnqueueDurableJob(k, p, skew) ==
  /\ EnqueueAnswer(k, p) = "created"
  /\ \E j \in Jobs :
       /\ job[j].status = "absent"
       /\ job' = [job EXCEPT ![j] = [AbsentRow EXCEPT !.status = "pending", !.key = k,
                                       !.payload = p, !.max = MaxAttempts, !.wait = skew]]
       /\ idem' = [idem EXCEPT ![k] = [payload |-> p, job |-> j]]
  /\ UNCHANGED <<attempts, cascadeVars>>

(* leaseDurableJobTx0213 gets past its early returns. *)
Leasable(j) ==
  /\ job[j].status = "pending" \/ Expired(j)
  /\ job[j].wait = 0
  /\ RowFree(j) /\ (Expired(j) => AttemptFree(j))

(* LeaseDurableJob, the lease is granted. *)
LeaseDurableJob(j) ==
  /\ Leasable(j) /\ job[j].attempt < job[j].max
  /\ job' = [job EXCEPT ![j] = Leased(@, Len(attempts[j]) + 1)]
  /\ attempts' = [attempts EXCEPT ![j] = Append(Recovered(j, "failed"), "running")]
  /\ UNCHANGED <<idem, cascadeVars>>

(* LeaseDurableJob, the attempts are used up: the job is dead, committed. *)
ExhaustDurableJob(j) ==
  /\ Leasable(j) /\ job[j].attempt >= job[j].max
  /\ job' = [job EXCEPT ![j] = Unleased(@, "dead")]
  /\ attempts' = [attempts EXCEPT ![j] = Recovered(j, "failed")]
  /\ UNCHANGED <<idem, cascadeVars>>

(* Mutant: exhausted jobs are left to the worker that never comes back. *)
RetirableNone == {}

Retirable == {j \in Jobs : Expired(j) /\ job[j].attempt >= job[j].max /\ RowFree(j)}

(* The query asks available_at of pending jobs only; of a running one it   *)
(* has passed since the lease was granted (RowsAgree).                     *)
Due == {j \in Jobs : /\ job[j].status = "pending" \/ Expired(j)
                     /\ job[j].wait = 0 /\ job[j].attempt < job[j].max /\ RowFree(j)}

Smaller(m, n) == IF m < n THEN m ELSE n

(* LeaseDurableJobs: one transaction retires what has expired for the last *)
(* time and leases up to BatchLimit of the jobs that are due.  Rows locked *)
(* by somebody are skipped; locked attempts of the chosen jobs are waited  *)
(* for.                                                                    *)
LeaseDurableJobs(batch) ==
  /\ batch \subseteq Due /\ Cardinality(batch) = Smaller(BatchLimit, Cardinality(Due))
  /\ Retirable \cup batch # {}
  /\ \A j \in Retirable \cup batch : Expired(j) => AttemptFree(j)
  /\ job' = [j \in Jobs |-> IF j \in Retirable THEN Unleased(job[j], "dead")
                            ELSE IF j \in batch THEN Leased(job[j], Len(attempts[j]) + 1)
                            ELSE job[j]]
  /\ attempts' = [j \in Jobs |-> IF j \in Retirable THEN Recovered(j, "dead")
                                 ELSE IF j \in batch THEN Append(Recovered(j, "failed"), "running")
                                 ELSE attempts[j]]
  /\ UNCHANGED <<idem, cascadeVars>>

----------------------------------------------------------------------------
(* Settling an attempt: each needs the token of an unexpired lease *)

(* The part the four calls share: the row leaves "running" for the given   *)
(* status and the attempt is closed with the given outcome.  The caller is *)
(* known by the token it shows.                                            *)
Settle(j, t, status, outcome, delay) ==
  /\ Holds(j, t) /\ RowFree(j) /\ AttemptFree(j)
  /\ job' = [job EXCEPT ![j] = [Unleased(@, status) EXCEPT !.wait = delay, !.by = t]]
  /\ attempts' = [attempts EXCEPT ![j] = CloseAttempt(@, job[j].attempt, outcome)]
  /\ UNCHANGED cascadeVars

(* Mutant: off by one in the attempt budget. *)
FailOneLate(j, t, delay) ==
  /\ IF job[j].attempt > job[j].max THEN Settle(j, t, "dead", "dead", delay)
                                    ELSE Settle(j, t, "pending", "failed", delay)
  /\ UNCHANGED idem

FailDurableJob(j, t, delay) ==
  /\ IF job[j].attempt >= job[j].max THEN Settle(j, t, "dead", "dead", delay)
                                     ELSE Settle(j, t, "pending", "failed", delay)
  /\ UNCHANGED idem

(* The idempotency record keeps its jobId, so it does not change here. *)
TerminateDurableJob(j, t, status) ==
  /\ Settle(j, t, status, status, job[j].wait)
  /\ UNCHANGED idem

CompleteOperationJob(j, t) ==
  /\ job[j].key \notin PublishKeys
  /\ Settle(j, t, "succeeded", "succeeded", job[j].wait)
  /\ UNCHANGED idem

(* The end of CommitDurablePublish.  The response that held the jobId is   *)
(* overwritten by the result, which holds none.                            *)
SucceedPublish(j, t) ==
  /\ job[j].key \in PublishKeys
  /\ Settle(j, t, "succeeded", "succeeded", job[j].wait)
  /\ idem' = [idem EXCEPT ![job[j].key].job = NoJob]

----------------------------------------------------------------------------
(* The operator *)

Larger(m, n) == IF m > n THEN m ELSE n

CancelOperationJob(j) ==
  /\ job[j].status = "pending" /\ RowFree(j)
  /\ job' = [job EXCEPT ![j].status = "failed"]
  /\ UNCHANGED <<attempts, idem, cascadeVars>>

(* Mutant: any finished job may be retried. *)
RetryAnything(j) ==
  /\ job[j].status \in Terminal /\ RowFree(j)
  /\ job[j].attempt + RetryGrant <= AttemptBound
  /\ job' = [job EXCEPT ![j] = [@ EXCEPT !.status = "pending", !.wait = 0,
                                          !.max = job[j].attempt + RetryGrant]]
  /\ UNCHANGED <<attempts, idem, cascadeVars>>

RetryOperationJob(j) ==
  LET budget == Larger(job[j].max, job[j].attempt + RetryGrant) IN
  /\ job[j].status \in {"failed", "dead", "revoked"} /\ RowFree(j)
  /\ budget <= AttemptBound
  /\ job' = [job EXCEPT ![j] = [@ EXCEPT !.status = "pending", !.wait = 0, !.max = budget]]
  /\ UNCHANGED <<attempts, idem, cascadeVars>>

----------------------------------------------------------------------------
(* The revocation triggers.  A change of a user's password, role or status *)
(* runs, in its own transaction, first an UPDATE of the user's running     *)
(* attempts and then one of the jobs.  At READ COMMITTED each statement    *)
(* sees what others have committed since the one before it.                *)

ActiveJobsOf(a) ==
  {j \in Jobs : job[j].status \in {"pending", "running"} /\ ActorOf[job[j].key] = a}
OpenAttempts(j) == {<<j, n>> : n \in {i \in DOMAIN attempts[j] : attempts[j][i] = "running"}}
AttemptsOf(a) == {m \in marked : ActorOf[job[m[1]].key] = a}
JobsOf(a) == {j \in doomed : ActorOf[job[j].key] = a}

RevokeAttempts(a) ==
  /\ cascade[a] = "idle"
  /\ cascade' = [cascade EXCEPT ![a] = "attempts"]
  /\ marked' = marked \cup UNION {OpenAttempts(j) : j \in ActiveJobsOf(a)}
  /\ UNCHANGED <<jobVars, doomed>>

RevokeJobs(a) ==
  /\ cascade[a] = "attempts"
  /\ cascade' = [cascade EXCEPT ![a] = "jobs"]
  /\ doomed' = doomed \cup ActiveJobsOf(a)
  /\ UNCHANGED <<jobVars, marked>>

EndCascade(a) ==
  /\ cascade' = [cascade EXCEPT ![a] = "idle"]
  /\ marked' = marked \ AttemptsOf(a)
  /\ doomed' = doomed \ JobsOf(a)

RevokeCommit(a) ==
  /\ cascade[a] = "jobs"
  /\ job' = [j \in Jobs |-> IF j \in JobsOf(a) THEN Unleased(job[j], "revoked") ELSE job[j]]
  /\ attempts' = [j \in Jobs |-> [n \in DOMAIN attempts[j] |->
                    IF <<j, n>> \in AttemptsOf(a) THEN "revoked" ELSE attempts[j][n]]]
  /\ EndCascade(a)
  /\ UNCHANGED idem

(* The transaction fails, or loses a deadlock to a worker's. *)
RevokeAbort(a) ==
  /\ cascade[a] # "idle"
  /\ EndCascade(a)
  /\ UNCHANGED jobVars

----------------------------------------------------------------------------
Countdown(n) == IF n > 0 THEN n - 1 ELSE 0

(* PostgreSQL's clock advances. *)
Tick ==
  /\ job' = [j \in Jobs |-> [job[j] EXCEPT !.lease = Countdown(@), !.wait = Countdown(@)]]
  /\ UNCHANGED <<attempts, idem, cascadeVars>>

(* The tokens handed out for a job so far. *)
Issued(j) == DOMAIN attempts[j]

Caller ==
  \/ \E k \in Keys, p \in Payloads, skew \in Delays : EnqueueDurableJob(k, p, skew)
  \/ \E j \in Jobs : CancelOperationJob(j)
  \/ \E j \in Jobs : RetryOperationJob(j)

Worker ==
  \/ \E j \in Jobs : LeaseDurableJob(j)
  \/ \E j \in Jobs : ExhaustDurableJob(j)
  \/ \E batch \in SUBSET Jobs : LeaseDurableJobs(batch)
  \/ \E j \in Jobs : \E t \in Issued(j), delay \in Delays : FailDurableJob(j, t, delay)
  \/ \E j \in Jobs : \E t \in Issued(j), s \in {"revoked", "failed", "dead"} :
       TerminateDurableJob(j, t, s)
  \/ \E j \in Jobs : \E t \in Issued(j) : CompleteOperationJob(j, t)
  \/ \E j \in Jobs : \E t \in Issued(j) : SucceedPublish(j, t)

Triggers ==
  \/ \E a \in Actors : RevokeAttempts(a)
  \/ \E a \in Actors : RevokeJobs(a)
  \/ \E a \in Actors : RevokeCommit(a)
  \/ \E a \in Actors : RevokeAbort(a)

Next == Caller \/ Worker \/ Triggers \/ Tick

Spec == Init /\ [][Next]_vars

(* Every API replica polls the table twice a second                        *)
(* (StartDurableControlPlane0213), the clock advances, and a revocation's  *)
(* transaction ends.  The poll is a strong fairness: a cascade that starts *)
(* and fails again and again may lock the row at each poll, but only for   *)
(* the milliseconds it lasts.  Nothing is assumed of the workers that got  *)
(* a lease, which may crash at any point, nor of operators.                *)
Poll == \E batch \in SUBSET Jobs : LeaseDurableJobs(batch)
CascadeEnds(a) == RevokeJobs(a) \/ RevokeCommit(a) \/ RevokeAbort(a)
Fairness == /\ WF_vars(Tick)
            /\ SF_vars(Poll)
            /\ \A a \in Actors : WF_vars(CascadeEnds(a))
LiveSpec == Spec /\ Fairness

----------------------------------------------------------------------------
(* Properties *)

TypeOK == /\ job \in [Jobs -> JobRow]
          /\ attempts \in [Jobs -> Seq(AttemptStatuses)]
          /\ idem \in [Keys -> IdemRecord]
          /\ cascade \in [Actors -> {"idle", "attempts", "jobs"}]
          /\ marked \subseteq Jobs \X Nat
          /\ doomed \subseteq Jobs

(* The job row and its attempt rows tell one story, whatever crashes,      *)
(* retries, cancellations and revocations came in between: as many         *)
(* attempts as attempt_count and as the fence, within the budget; a        *)
(* running job's last attempt is running, under the token of the row; any  *)
(* other job has no lease left on it; a pending job has an attempt left,   *)
(* so that a poll leases it and never finds it exhausted.                  *)
RowAgrees(row, log) ==
  /\ row.attempt = Len(log) /\ row.fence = Len(log)
  /\ row.attempt <= row.max
  /\ row.status = "running" => /\ Len(log) > 0 /\ log[Len(log)] = "running"
                               /\ row.token = Len(log) /\ row.wait = 0
  /\ row.status # "running" => row.token = 0 /\ row.lease = 0
  /\ row.status = "pending" => row.attempt < row.max
RowsAgree == \A j \in Jobs : RowAgrees(job[j], attempts[j])

(* A job succeeds at most once, in its last attempt, and no attempt is     *)
(* recorded as successful under a job that is not (CompleteOperationJob,   *)
(* CommitDurablePublish: row and attempt change in one transaction).       *)
SuccessAgrees(row, log) ==
  /\ row.status = "succeeded" => Len(log) > 0 /\ log[Len(log)] = "succeeded"
  /\ \A n \in 1 .. Len(log) :
       log[n] = "succeeded" => row.status = "succeeded" /\ n = Len(log)
SuccessIsRecorded == \A j \in Jobs : SuccessAgrees(job[j], attempts[j])

(* What a revocation has marked stays the open attempt or the active job   *)
(* it was until its transaction ends, and once the second UPDATE has run   *)
(* no job goes on running under a marked attempt without being doomed:     *)
(* workers that race the triggers cannot slip between the two.             *)
MarksHold ==
  /\ \A j \in doomed : /\ job[j].status \in {"pending", "running"}
                       /\ cascade[ActorOf[job[j].key]] = "jobs"
  /\ \A m \in marked : LET j == m[1]
                          n == m[2]
                      IN /\ n \in 1 .. Len(attempts[j]) /\ attempts[j][n] = "running"
                         /\ job[j].status # "absent" /\ cascade[ActorOf[job[j].key]] # "idle"
                         /\ (/\ job[j].status = "running" /\ n = job[j].attempt
                             /\ cascade[ActorOf[job[j].key]] = "jobs") => j \in doomed

(* An idempotency key never stands for two jobs, nor for another request   *)
(* than the one its job was created with (EnqueueDurableJob).              *)
OneJobPerKey ==
  \A j \in Jobs : job[j].status # "absent" =>
    /\ idem[job[j].key].payload = job[j].payload
    /\ idem[job[j].key].job \in {j, NoJob}
    /\ \A i \in Jobs : job[i].status # "absent" /\ job[i].key = job[j].key => i = j

(* Attempts that are still running although nobody runs them. *)
Orphans == {m \in UNION {OpenAttempts(j) : j \in Jobs} :
              job[m[1]].status # "running" \/ m[2] # job[m[1]].attempt}

(* Every recovery closes the attempt it takes over, every settling its     *)
(* own: no step but the revocation triggers' commit leaves an attempt      *)
(* running behind.                                                         *)
OnlyRevocationOrphans == [][Orphans' \subseteq Orphans \/ \E a \in Actors : RevokeCommit(a)]_vars

(* The comment in leaseDurableJobTx0213 is that an abandoned attempt must  *)
(* be closed, or a running status would make recovery ambiguous.           *)
NoOrphans == Orphans = {}

(* Repeating an accepted request answers with its job: the comment at the  *)
(* head of durable.go promises that the PostgreSQL repository means the    *)
(* same as the one in memory, which returns the recorded job.              *)
ReplayReturnsTheJob ==
  \A j \in Jobs : job[j].status # "absent" =>
    EnqueueAnswer(job[j].key, job[j].payload) = "replayed"

(* Whatever its workers do, a job ends: it succeeds, fails, is revoked or  *)
(* is given up; no lease is held for ever.                                 *)
EveryJobEnds ==
  \A j \in Jobs : job[j].status \in {"pending", "running"} ~> job[j].status \in Terminal

(* The table keeps the promise of FencedTasks: a task is held while its    *)
(* lease has not expired, with the fence as epoch, and no call settles it  *)
(* but one that shows the token issued with that fence; a worker whose     *)
(* lease was taken over never settles its successor's attempt.             *)
TaskOf(row) ==
  [phase  |-> CASE row.status = "absent" -> "none"
                [] row.status \in {"pending", "running"} -> "open"
                [] row.status = "succeeded" -> "finished"
                [] OTHER -> "abandoned",
   holder |-> IF row.status = "running" /\ row.lease > 0 THEN row.fence ELSE 0,
   epoch  |-> row.fence,
   by     |-> row.by]
Abstract == INSTANCE FencedTasks WITH Tasks <- Jobs, task <- [j \in Jobs |-> TaskOf(job[j])]
ImplementsFencedTasks == Abstract!Spec
====

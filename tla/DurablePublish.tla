---- MODULE DurablePublish ----
(***************************************************************************)
(* How a release gets published (httpapi/durable_control.go over           *)
(* repository/durable.go): a request takes a snapshot of the package and   *)
(* of the channel's head and enqueues a job; a worker of some replica      *)
(* leases the job, leases the package, compares the world with the         *)
(* snapshot step by step, and commits everything in one transaction that   *)
(* compares it once more.  Workers may stop anywhere, both leases may run  *)
(* out at any moment, editors change the package, other jobs publish, and  *)
(* the user who asked may be revoked meanwhile.                            *)
(*                                                                         *)
(* The job table is used through what FencedTasks promises of it (and      *)
(* DurableJobs implements): no clock, an epoch for each lease, and a       *)
(* history of whose epoch settled the last one.  A lease of a package is   *)
(* named by its fence.  One channel is modelled.                           *)
(***************************************************************************)
EXTENDS Naturals, FiniteSets

CONSTANTS
  Releases,     \* packages of the channel
  Jobs,         \* publish jobs, each asked for under its own idempotency key
  Actors, ActorOf, \* users, and the one who asks for a job
  Workers,      \* goroutines that execute publish jobs
  NoRelease, NoJob, NoOne,
  MaxVersion,   \* bound of the model on the versions of a package
  MaxEpoch,     \* bound of the model on the leases of a job
  MaxFence      \* bound of the model on the leases of a package

ASSUME PublishAssumption ==
  /\ ActorOf \in [Jobs -> Actors]
  /\ NoRelease \notin Releases /\ NoJob \notin Jobs /\ NoOne \notin Workers
  /\ MaxVersion \in Nat \ {0} /\ MaxEpoch \in Nat /\ MaxFence \in Nat

VARIABLES
  pkg,      \* release_versions and the latest package_integrity_checks
  head,     \* channel_heads: revision 0 is no row
  job,      \* durable_jobs of kind package-publish, with their payload
  scope,    \* durable_scope_leases of "package:<id>"
  worker,   \* the goroutine's place in executeDurablePublishJob0213
  access,   \* what a user has: "revoking" while the trigger's transaction is
            \* open and nobody else sees it
  doomed,   \* jobs that transaction has updated and not committed
  late      \* history: jobs that became active after it had updated

vars == <<pkg, head, job, scope, worker, access, doomed, late>>
accessVars == <<access, doomed, late>>

Drafts == {"staged", "integrity-passed"}
Versions == 1 .. MaxVersion
Package == [status: Drafts \cup {"published"}, meta: Versions, check: {0} \cup Versions]
Task == [phase: {"none", "requested", "open", "finished", "abandoned"}, holder: Nat, epoch: Nat, by: Nat,
         release: Releases \cup {NoRelease}, status: Drafts, meta: {0} \cup Versions, head: Nat]
Places == {"idle", "leased", "permitted", "scoped", "inspected", "compared", "evident",
           "certain", "leaving"}
Goroutine == [at: Places, job: Jobs \cup {NoJob}, epoch: Nat, fence: Nat]

NewPackage == [status |-> "staged", meta |-> 1, check |-> 0]
NewTask == [phase |-> "none", holder |-> 0, epoch |-> 0, by |-> 0,
            release |-> NoRelease, status |-> "staged", meta |-> 0, head |-> 0]
Idle == [at |-> "idle", job |-> NoJob, epoch |-> 0, fence |-> 0]

Init == /\ pkg = [r \in Releases |-> NewPackage]
        /\ head = [revision |-> 0, release |-> NoRelease]
        /\ job = [j \in Jobs |-> NewTask]
        /\ scope = [r \in Releases |-> [by |-> NoOne, fence |-> 0]]
        /\ worker = [w \in Workers |-> Idle]
        /\ access = [a \in Actors |-> "granted"]
        /\ doomed = {} /\ late = {}

----------------------------------------------------------------------------
(* The request *)

(* packagePublishProduct: the package is not published, the latest check   *)
(* passed for what it is now, and the caller's session is (for the last    *)
(* time) found active.                                                     *)
Request(j, r) ==
  /\ job[j].phase = "none" /\ access[ActorOf[j]] \in {"granted", "revoking"}
  /\ pkg[r].status # "published" /\ pkg[r].check = pkg[r].meta
  /\ job' = [job EXCEPT ![j] = [NewTask EXCEPT !.phase = "requested", !.release = r,
                                  !.status = pkg[r].status, !.meta = pkg[r].meta]]
  /\ UNCHANGED <<pkg, head, scope, worker, accessVars>>

(* What becomes active now escapes an UPDATE that has already run. *)
Activated(j) == late' = IF access[ActorOf[j]] = "granted" THEN late ELSE late \cup {j}

(* enqueuePublishJob0213 reads the head last, and inserts the job. *)
Enqueue(j) ==
  /\ job[j].phase = "requested"
  /\ job' = [job EXCEPT ![j].phase = "open", ![j].head = head.revision]
  /\ Activated(j)
  /\ UNCHANGED <<pkg, head, scope, worker, access, doomed>>

----------------------------------------------------------------------------
(* The job's lease and the package's lease *)

(* An update of the job row would wait for the trigger's transaction. *)
RowFree(j) == j \notin doomed

LeaseJob(w, j) ==
  /\ worker[w].at = "idle"
  /\ job[j].phase = "open" /\ job[j].holder = 0 /\ job[j].epoch < MaxEpoch /\ RowFree(j)
  /\ job' = [job EXCEPT ![j].holder = job[j].epoch + 1, ![j].epoch = @ + 1, ![j].by = 0]
  /\ worker' = [worker EXCEPT ![w] =
       [at |-> "leased", job |-> j, epoch |-> job[j].epoch + 1, fence |-> 0]]
  /\ UNCHANGED <<pkg, head, scope, accessVars>>

(* The job's 90 seconds are over. *)
JobLapses(j) ==
  /\ job[j].holder # 0 /\ RowFree(j)
  /\ job' = [job EXCEPT ![j].holder = 0]
  /\ UNCHANGED <<pkg, head, scope, worker, accessVars>>

(* The operator cancels it, or its attempts are used up. *)
JobEnds(j) ==
  /\ job[j].phase = "open" /\ job[j].holder = 0 /\ RowFree(j)
  /\ job' = [job EXCEPT ![j].phase = "abandoned"]
  /\ UNCHANGED <<pkg, head, scope, worker, accessVars>>

(* RetryOperationJob takes a job of any kind. *)
Retry(j) ==
  /\ job[j].phase = "abandoned"
  /\ job' = [job EXCEPT ![j].phase = "open"]
  /\ Activated(j)
  /\ UNCHANGED <<pkg, head, scope, worker, access, doomed>>

(* The package's two minutes are over. *)
ScopeLapses(r) ==
  /\ scope[r].by # NoOne
  /\ scope' = [scope EXCEPT ![r].by = NoOne]
  /\ UNCHANGED <<pkg, head, job, worker, accessVars>>

----------------------------------------------------------------------------
(* executeDurablePublishJob0213 *)

Goes(w, place) == worker' = [worker EXCEPT ![w].at = place]
Stops(w) == worker' = [worker EXCEPT ![w] = Idle]
Target(w) == job[worker[w].job].release

(* Mutant: the lease's token is not compared with the worker's. *)
HeldByAnyone(w) == job[worker[w].job].phase = "open" /\ job[worker[w].job].holder # 0

Held(w) == LET j == worker[w].job IN job[j].phase = "open" /\ job[j].holder = worker[w].epoch

(* TerminateDurableJob and the end of FailDurableJob: nothing happens to a *)
(* job whose lease was lost.                                               *)
Settled(w, phase) ==
  IF Held(w) THEN [job EXCEPT ![worker[w].job] =
                     [@ EXCEPT !.phase = phase, !.holder = 0, !.by = worker[w].epoch]]
             ELSE job

(* One of the worker's comparisons: it goes on, or settles the job as      *)
(* failed and leaves.  Reading and settling are two transactions, taken as *)
(* one step here: a lease that is lost between them is one where the       *)
(* worker gives up (GiveUp).                                               *)
Compare(w, from, ok, to, exit) ==
  /\ worker[w].at = from
  /\ IF ok THEN Goes(w, to) /\ UNCHANGED job
           ELSE /\ RowFree(worker[w].job)
                /\ job' = Settled(w, "abandoned")
                /\ IF exit = "idle" THEN Stops(w) ELSE Goes(w, exit)
  /\ UNCHANGED <<pkg, head, scope, accessVars>>

(* Authorize asks for the user's status and role; sessions do not matter. *)
Permitted(w) == access[ActorOf[worker[w].job]] # "revoked"

Authorize(w) == Compare(w, "leased", Permitted(w), "permitted", "idle")

AcquireScope(w) ==
  /\ worker[w].at = "permitted"
  /\ scope[Target(w)].by = NoOne /\ scope[Target(w)].fence < MaxFence
  /\ scope' = [scope EXCEPT ![Target(w)] = [by |-> w, fence |-> @.fence + 1]]
  /\ worker' = [worker EXCEPT ![w].at = "scoped", ![w].fence = scope[Target(w)].fence + 1]
  /\ UNCHANGED <<pkg, head, job, accessVars>>

(* Somebody has the package: the job is put back, or it was the last       *)
(* attempt.                                                                *)
ScopeIsBusy(w) ==
  /\ worker[w].at = "permitted" /\ scope[Target(w)].by # NoOne
  /\ RowFree(worker[w].job)
  /\ \E phase \in {"open", "abandoned"} : job' = Settled(w, phase)
  /\ Stops(w)
  /\ UNCHANGED <<pkg, head, scope, accessVars>>

(* Mutant: the content of the package is not compared again. *)
AnyContent(j) == TRUE

SameContent(j) == pkg[job[j].release].meta = job[j].meta

(* Mutant: the head is not compared with the one that was requested. *)
AnyHead(j) == TRUE

SameHead(j) == head.revision = job[j].head

Evident(j) == pkg[job[j].release].check = job[j].meta

Inspect(w) == Compare(w, "scoped", SameContent(worker[w].job), "inspected", "leaving")

CompareHead(w) == Compare(w, "inspected", SameHead(worker[w].job), "compared", "leaving")

(* The signature and the policy on runtime validation may fail as well. *)
CheckEvidence(w) ==
  \E trusted \in BOOLEAN :
    Compare(w, "compared", trusted /\ Evident(worker[w].job), "evident", "leaving")

Reauthorize(w) == Compare(w, "evident", Permitted(w), "certain", "leaving")

----------------------------------------------------------------------------
(* CommitDurablePublish *)

(* Mutant: the revision of the head is not incremented. *)
MovedHeadInPlace(r) == [head EXCEPT !.release = r]

MovedHead(r) == [revision |-> head.revision + 1, release |-> r]

(* The transaction starts with a lock on the job's row. *)
Commits(w) == worker[w].at = "certain" /\ RowFree(worker[w].job) /\ Goes(w, "leaving")

Fenced(w) == Held(w) /\ scope[Target(w)] = [by |-> w, fence |-> worker[w].fence]

AsRequested(j) ==
  /\ pkg[job[j].release].status = job[j].status
  /\ SameContent(j) /\ Evident(j) /\ SameHead(j)

CommitDurablePublish(w) ==
  LET r == Target(w) IN
  /\ Commits(w)
  /\ Fenced(w) /\ pkg[r].status # "published" /\ AsRequested(worker[w].job)
  /\ pkg' = [pkg EXCEPT ![r].status = "published"]
  /\ head' = MovedHead(r)
  /\ job' = Settled(w, "finished")
  /\ UNCHANGED <<scope, accessVars>>

(* ErrConflict: the worker settles the job as failed. *)
ConflictAtCommit(w) ==
  /\ Commits(w)
  /\ Fenced(w) /\ pkg[Target(w)].status # "published" /\ ~AsRequested(worker[w].job)
  /\ job' = Settled(w, "abandoned")
  /\ UNCHANGED <<pkg, head, scope, accessVars>>

(* ErrLeaseLost, or ErrImmutable: the job is left as it is. *)
LostAtCommit(w) ==
  /\ Commits(w)
  /\ ~Fenced(w) \/ pkg[Target(w)].status = "published"
  /\ UNCHANGED <<pkg, head, job, scope, accessVars>>

(* The deferred release of the package's lease. *)
Leave(w) ==
  /\ worker[w].at = "leaving"
  /\ scope' = IF scope[Target(w)] = [by |-> w, fence |-> worker[w].fence]
              THEN [scope EXCEPT ![Target(w)].by = NoOne] ELSE scope
  /\ Stops(w)
  /\ UNCHANGED <<pkg, head, job, accessVars>>

(* A read fails, or the check of the generation does: the worker returns   *)
(* without a word and the job waits for its lease to run out.              *)
GiveUp(w) ==
  /\ worker[w].at \in Places \ {"idle", "leaving"}
  /\ IF worker[w].at \in {"leased", "permitted"} THEN Stops(w) ELSE Goes(w, "leaving")
  /\ UNCHANGED <<pkg, head, job, scope, accessVars>>

(* The process dies. *)
Crash(w) ==
  /\ worker[w].at # "idle"
  /\ Stops(w)
  /\ UNCHANGED <<pkg, head, job, scope, accessVars>>

----------------------------------------------------------------------------
(* The package, in the hands of its editors.  They lease it too, but their *)
(* writes carry no fence: one whose lease has run out writes all the same. *)

(* AddFile, UpdateVersionManifest: every version differs, its manifest     *)
(* carries the time of the change.                                         *)
ChangePackage(r) ==
  /\ pkg[r].status # "published" /\ pkg[r].meta < MaxVersion
  /\ pkg' = [pkg EXCEPT ![r].meta = @ + 1]
  /\ UNCHANGED <<head, job, scope, worker, accessVars>>

(* SaveIntegrityCheck stores the outcome for the version that was looked   *)
(* up some time ago; 0 is a check that failed.                             *)
CheckPackage(r, m) ==
  /\ m <= pkg[r].meta
  /\ pkg' = [pkg EXCEPT ![r].check = m]
  /\ UNCHANGED <<head, job, scope, worker, accessVars>>

(* UpdateVersionStatus: of the check, of staging, of an administrator. *)
UpdateVersionStatus(r, s) ==
  /\ pkg[r].status # "published"
  /\ pkg' = [pkg EXCEPT ![r].status = s]
  /\ UNCHANGED <<head, job, scope, worker, accessVars>>

----------------------------------------------------------------------------
(* The revocation triggers, from their UPDATE of the jobs to their commit *)

(* Mutant: only the jobs some worker runs are revoked. *)
LeasedJobsOf(a) == {j \in Jobs : job[j].phase = "open" /\ job[j].holder # 0 /\ ActorOf[j] = a}

ActiveJobsOf(a) == {j \in Jobs : job[j].phase = "open" /\ ActorOf[j] = a}

JobsOf(a) == {j \in Jobs : ActorOf[j] = a}

RevokeJobs(a) ==
  /\ access[a] = "granted"
  /\ access' = [access EXCEPT ![a] = "revoking"]
  /\ doomed' = doomed \cup ActiveJobsOf(a)
  /\ UNCHANGED <<pkg, head, job, scope, worker, late>>

(* A session is gone, or the user's role or account is. *)
RevokeCommit(a, outcome) ==
  /\ access[a] = "revoking"
  /\ access' = [access EXCEPT ![a] = outcome]
  /\ job' = [j \in Jobs |-> IF j \in doomed \cap JobsOf(a)
                            THEN [job[j] EXCEPT !.phase = "abandoned", !.holder = 0]
                            ELSE job[j]]
  /\ doomed' = doomed \ JobsOf(a)
  /\ UNCHANGED <<pkg, head, scope, worker, late>>

RevokeAbort(a) ==
  /\ access[a] = "revoking"
  /\ access' = [access EXCEPT ![a] = "granted"]
  /\ doomed' = doomed \ JobsOf(a) /\ late' = late \ JobsOf(a)
  /\ UNCHANGED <<pkg, head, job, scope, worker>>

----------------------------------------------------------------------------
Caller ==
  \/ \E j \in Jobs, r \in Releases : Request(j, r)
  \/ \E j \in Jobs : Enqueue(j)
  \/ \E j \in Jobs : Retry(j)

Execution(w) ==
  \/ \E j \in Jobs : LeaseJob(w, j)
  \/ Authorize(w) \/ AcquireScope(w) \/ ScopeIsBusy(w)
  \/ Inspect(w) \/ CompareHead(w) \/ CheckEvidence(w) \/ Reauthorize(w)
  \/ CommitDurablePublish(w) \/ ConflictAtCommit(w) \/ LostAtCommit(w)
  \/ Leave(w) \/ GiveUp(w) \/ Crash(w)

Leases ==
  \/ \E j \in Jobs : JobLapses(j)
  \/ \E j \in Jobs : JobEnds(j)
  \/ \E r \in Releases : ScopeLapses(r)

Editors ==
  \/ \E r \in Releases : ChangePackage(r)
  \/ \E r \in Releases : \E m \in {0} \cup Versions : CheckPackage(r, m)
  \/ \E r \in Releases : \E s \in Drafts : UpdateVersionStatus(r, s)

Triggers ==
  \/ \E a \in Actors : RevokeJobs(a)
  \/ \E a \in Actors : \E outcome \in {"signedOut", "revoked"} : RevokeCommit(a, outcome)
  \/ \E a \in Actors : RevokeAbort(a)

Next == Caller \/ (\E w \in Workers : Execution(w)) \/ Leases \/ Editors \/ Triggers

Spec == Init /\ [][Next]_vars

----------------------------------------------------------------------------
(* Properties *)

TypeOK == /\ pkg \in [Releases -> Package]
          /\ head \in [revision: Nat, release: Releases \cup {NoRelease}]
          /\ job \in [Jobs -> Task]
          /\ scope \in [Releases -> [by: Workers \cup {NoOne}, fence: Nat]]
          /\ worker \in [Workers -> Goroutine]
          /\ access \in [Actors -> {"granted", "revoking", "signedOut", "revoked"}]
          /\ doomed \subseteq Jobs /\ late \subseteq Jobs

(* Whatever workers, editors and revocations do, launchers see a channel   *)
(* whose head moves by one revision to a release never published before,   *)
(* in the step that publishes it, and no published release is taken back.  *)
PublishedReleases == {r \in Releases : pkg[r].status = "published"}
Channel == INSTANCE ReleaseChannel WITH
             revision <- head.revision, current <- head.release, published <- PublishedReleases
ImplementsReleaseChannel == Channel!Spec

(* Of the publishers that saw the same head at most one succeeds, no two   *)
(* publish the same release, and every revision is one job's work: the     *)
(* compare-and-swap on channel_heads in CommitDurablePublish.              *)
Finished == {j \in Jobs : job[j].phase = "finished"}
OneWinnerPerRevision ==
  /\ head.revision = Cardinality(Finished)
  /\ \A i, j \in Finished : i # j => job[i].head # job[j].head /\ job[i].release # job[j].release

(* What a job publishes is the version its user asked for and a check      *)
(* passed, for ever: no editor slips a file in between the request, the    *)
(* checks and the commit, nor after it.                                    *)
PublishedAsRequested ==
  \A j \in Finished : LET p == pkg[job[j].release] IN p.status = "published" /\ p.meta = job[j].meta

(* Of the jobs that were active when a revocation updated them, none       *)
(* publishes after it has committed, however far its worker has got (nor   *)
(* while it waits to commit).                                              *)
OnlyLateJobsEscape ==
  [][\A j \in Jobs :
       job[j].phase # "finished" /\ job'[j].phase = "finished" /\ access[ActorOf[j]] # "granted"
         => j \in late]_vars

(* The comment in the session trigger is that the workers of a user's jobs *)
(* cannot publish once it has run.                                         *)
RevokedActorPublishesNothing ==
  [][\A j \in Jobs :
       job[j].phase # "finished" /\ job'[j].phase = "finished"
         => access[ActorOf[j]] \in {"granted", "revoking"}]_vars

(* The executor keeps the promise of FencedTasks, which this module takes  *)
(* the job table to be: what a worker settles, at any of its comparisons   *)
(* or in the commit, it settles under the lease it was given itself, never *)
(* under the one another worker took over meanwhile.                       *)
TaskOf(t) == [phase |-> IF t.phase = "requested" THEN "none" ELSE t.phase,
              holder |-> t.holder, epoch |-> t.epoch, by |-> t.by]
Table == INSTANCE FencedTasks WITH Tasks <- Jobs, task <- [j \in Jobs |-> TaskOf(job[j])]
ImplementsFencedTasks == Table!Spec
====

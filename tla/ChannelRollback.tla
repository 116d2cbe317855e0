---- MODULE ChannelRollback ----
(***************************************************************************)
(* Rolling a channel back to an older release (httpapi/rollback_durable.go *)
(* over repository/operations.go).  A rollback is a job whose worker makes *)
(* a new release out of the old one's files, signs and checks it, enqueues *)
(* a second job that publishes it, and waits for that one by being put     *)
(* back.  Every attempt starts over and has to recognise what earlier ones *)
(* did.  Meanwhile operators publish other packages, publish the           *)
(* rollback's release themselves, cancel and retry; workers stop anywhere, *)
(* and a lease or a lock may run out under a worker that goes on.          *)
(*                                                                         *)
(* One channel other than stable.  A publish job is a phase and what was   *)
(* asked for: DurablePublish says how it is executed.  The release that is *)
(* rolled back to is published and does not change.                        *)
(***************************************************************************)
EXTENDS Naturals, FiniteSets

CONSTANTS
  Rollbacks,    \* rollback jobs; each also names the release it makes
  Orders,       \* publish jobs of operators; each also names a package
  Workers,
  NoOne, None,
  MaxAttempts,  \* durable_jobs.max_attempts of a rollback, eight in the code
  MaxContent,   \* bound of the model on how often a release is signed
  MaxLeases,    \* bound of the model on the attempts at a rollback, retried or not
  MaxRetries    \* bound of the model on RetryOperationJob, all jobs together

ASSUME RollbackAssumption ==
  /\ Rollbacks \cap Orders = {} /\ None \notin Rollbacks \cup Orders /\ NoOne \notin Workers
  /\ IsFiniteSet(Workers)
  /\ MaxAttempts \in Nat \ {0} /\ MaxContent \in Nat \ {0}
  /\ MaxLeases \in Nat /\ MaxRetries \in Nat

VARIABLES
  head,      \* channel_heads
  release,   \* release_versions, and at which revision one became the head
  rollback,  \* durable_jobs of kind channel-rollback
  publish,   \* durable_jobs of kind package-publish
  lock,      \* durable_scope_leases: of the channel's rollbacks and of packages
  worker,    \* the goroutine's place in runRollbackJob0217
  retries,
  excused,   \* history: rollbacks that two workers have run at once, or that a later
             \* attempt has signed again under another key
  slipped    \* history: rollbacks whose release another job published between a
             \* worker's check and its last read

vars == <<head, release, rollback, publish, lock, worker, retries, excused, slipped>>

Packages == Rollbacks \cup Orders
Channel == "channel"
Absent == [status |-> "absent", content |-> 0, at |-> 0]
NoRollback == [phase |-> "none", leased |-> FALSE, attempts |-> 0, max |-> MaxAttempts,
               expects |-> 0, cancelled |-> FALSE]
NoPublish == [phase |-> "none", package |-> None, content |-> 0, expects |-> 0]
Idle == [at |-> "idle", job |-> None, attempt |-> 0, already |-> FALSE, draft |-> FALSE,
         distrusts |-> FALSE, published |-> FALSE, content |-> 0]

Init ==
  /\ head = [revision |-> 1, package |-> None]
  /\ release = [p \in Packages |-> IF p \in Orders
                  THEN [status |-> "checked", content |-> 1, at |-> 0] ELSE Absent]
  /\ rollback = [r \in Rollbacks |-> NoRollback]
  /\ publish = [j \in Packages |-> NoPublish]
  /\ lock = [s \in Rollbacks \cup {Channel} |-> NoOne]
  /\ worker = [w \in Workers |-> Idle]
  /\ retries = 0 /\ excused = {} /\ slipped = {}

----------------------------------------------------------------------------
(* The operators *)

(* enqueueOperation0217 keeps the revision of the head it is asked over. *)
RequestRollback(r) ==
  /\ rollback[r].phase = "none"
  /\ rollback' = [rollback EXCEPT ![r].phase = "pending", ![r].expects = head.revision]
  /\ UNCHANGED <<head, release, publish, lock, worker, retries>>

(* The same for a package, be it the one a rollback has made. *)
RequestPublish(o, p) ==
  /\ publish[o].phase = "none" /\ p \in Rollbacks \cup {o} /\ release[p].status = "checked"
  /\ publish' = [publish EXCEPT ![o] = [phase |-> "open", package |-> p,
                                        content |-> release[p].content, expects |-> head.revision]]
  /\ UNCHANGED <<head, release, rollback, lock, worker, retries>>

CancelOperationJob(r) ==
  /\ rollback[r].phase = "pending"
  /\ rollback' = [rollback EXCEPT ![r].phase = "failed", ![r].cancelled = TRUE]
  /\ UNCHANGED <<head, release, publish, lock, worker, retries>>

(* It grants as many attempts again. *)
RetryOperationJob(r) ==
  /\ rollback[r].phase \in {"failed", "dead", "revoked"} /\ retries < MaxRetries
  /\ rollback' = [rollback EXCEPT ![r].phase = "pending", ![r].cancelled = FALSE,
                                  ![r].max = rollback[r].attempts + MaxAttempts]
  /\ retries' = retries + 1
  /\ UNCHANGED <<head, release, publish, lock, worker>>

RetryPublish(j) ==
  /\ publish[j].phase = "failed" /\ retries < MaxRetries
  /\ publish' = [publish EXCEPT ![j].phase = "open"]
  /\ retries' = retries + 1
  /\ UNCHANGED <<head, release, rollback, lock, worker>>

----------------------------------------------------------------------------
(* The lease of a rollback, and the locks *)

LeaseJob(w, r) ==
  /\ worker[w].at = "idle"
  /\ rollback[r].phase = "pending" \/ (rollback[r].phase = "running" /\ ~rollback[r].leased)
  /\ rollback[r].attempts < rollback[r].max /\ rollback[r].attempts < MaxLeases
  /\ rollback' = [rollback EXCEPT ![r].phase = "running", ![r].leased = TRUE,
                                  ![r].attempts = @ + 1]
  /\ worker' = [worker EXCEPT ![w] = [Idle EXCEPT !.at = "leased", !.job = r,
                                                 !.attempt = rollback[r].attempts + 1]]
  /\ UNCHANGED <<head, release, publish, lock, retries>>

(* The hour is over. *)
JobLapses(r) ==
  /\ rollback[r].leased
  /\ rollback' = [rollback EXCEPT ![r].leased = FALSE]
  /\ UNCHANGED <<head, release, publish, lock, worker, retries>>

(* LeaseDurableJobs retires a job that has lapsed in its last attempt. *)
Retire(r) ==
  /\ rollback[r].phase = "running" /\ ~rollback[r].leased
  /\ rollback[r].attempts >= rollback[r].max
  /\ rollback' = [rollback EXCEPT ![r].phase = "dead"]
  /\ UNCHANGED <<head, release, publish, lock, worker, retries>>

(* Fifteen minutes without a renewal. *)
LockLapses(s) ==
  /\ lock[s] # NoOne
  /\ lock' = [lock EXCEPT ![s] = NoOne]
  /\ UNCHANGED <<head, release, rollback, publish, worker, retries>>

----------------------------------------------------------------------------
(* How a worker leaves *)

Job(w) == worker[w].job
Own(w) == release[Job(w)]
Held(w) == LET r == rollback[Job(w)] IN
  r.phase = "running" /\ r.leased /\ r.attempts = worker[w].attempt

Unlocked(w) == [s \in DOMAIN lock |-> IF lock[s] = w THEN NoOne ELSE lock[s]]
Goes(w, place) == worker' = [worker EXCEPT ![w].at = place]
Stops(w) == worker' = [worker EXCEPT ![w] = Idle] /\ lock' = Unlocked(w)

(* TerminateDurableJob, CompleteOperationJob: nothing without the lease. *)
Settles(w, phase) ==
  /\ rollback' = IF Held(w) THEN [rollback EXCEPT ![Job(w)].phase = phase,
                                                  ![Job(w)].leased = FALSE]
                 ELSE rollback
  /\ Stops(w)

(* FailDurableJob *)
Fails(w) == Settles(w, IF rollback[Job(w)].attempts < rollback[Job(w)].max
                       THEN "pending" ELSE "dead")

(* workerAuthorized0217 finds the lease gone, or the operator's right. *)
Unauthorized(w) ==
  \/ ~Held(w) /\ Stops(w) /\ UNCHANGED rollback
  \/ Settles(w, "revoked")

(* An error without a word, or the process dies; dead, it keeps its locks. *)
GivesUp(w) ==
  /\ worker[w].at # "idle"
  /\ \/ Stops(w)
     \/ worker' = [worker EXCEPT ![w] = Idle] /\ UNCHANGED lock
  /\ UNCHANGED <<head, release, rollback, publish, retries>>

----------------------------------------------------------------------------
(* stageRollback0217 *)

Staging(w, place) == worker[w].at = place /\ UNCHANGED <<head, publish, retries>>

LockChannel(w) ==
  /\ Staging(w, "leased") /\ UNCHANGED release
  /\ \/ Unauthorized(w)
     \/ lock[Channel] # NoOne /\ Fails(w)
     \/ /\ Held(w) /\ lock[Channel] = NoOne
        /\ lock' = [lock EXCEPT ![Channel] = w]
        /\ Goes(w, "serialized") /\ UNCHANGED rollback

(* Mutant: any revision will do if the release is the worker's own. *)
CommittedSomehow(r) == head.package = r

AlreadyCommitted(r) == head.revision = rollback[r].expects + 1 /\ head.package = r

CompareHead(w) ==
  /\ Staging(w, "serialized") /\ UNCHANGED release
  /\ LET already == AlreadyCommitted(Job(w)) IN
     IF head.revision # rollback[Job(w)].expects /\ ~already
     THEN Fails(w)
     ELSE /\ worker' = [worker EXCEPT ![w].at = "compared", ![w].already = already]
          /\ UNCHANGED <<rollback, lock>>

(* The package's lock, and what ListVersions shows. *)
OpenRelease(w) ==
  /\ Staging(w, "compared")
  /\ IF lock[Job(w)] # NoOne \/ (worker[w].already # (Own(w).status = "published"))
     THEN Fails(w) /\ UNCHANGED release
     ELSE IF worker[w].already
     THEN Settles(w, "succeeded") /\ UNCHANGED release
     ELSE /\ lock' = [lock EXCEPT ![Job(w)] = w]
          /\ release' = IF Own(w).status = "absent"
                        THEN [release EXCEPT ![Job(w)].status = "draft"] ELSE release
          /\ worker' = [worker EXCEPT ![w].at = "opened",
                                      ![w].draft = Own(w).status \in {"absent", "draft"}]
          /\ UNCHANGED rollback

(* Copying what is missing changes nothing that others look at.  Then the  *)
(* signature of what OpenRelease read is verified: it may not be what this *)
(* server trusts, if the key was changed since.                            *)
CopyFiles(w) ==
  /\ Staging(w, "opened") /\ UNCHANGED release
  /\ \/ Unauthorized(w)
     \/ Fails(w)
     \/ /\ Held(w) /\ UNCHANGED <<rollback, lock>>
        /\ \E distrusts \in {FALSE, ~worker[w].draft} :
             worker' = [worker EXCEPT ![w].at = "copied", ![w].distrusts = distrusts]

(* Mutant: every attempt signs again. *)
SignsAgain(w) == TRUE

(* What made it sign is forgotten. *)
GoesOn(w) == worker' = [worker EXCEPT ![w].at = "signed", ![w].draft = FALSE,
                                      ![w].distrusts = FALSE]

Signs(w) == worker[w].draft \/ worker[w].distrusts

(* The manifest carries the time and a generation: signed again it is      *)
(* another one.  A published release is refused.  That the generations are *)
(* locked, or signing fails, is the failure CopyFiles may end in.          *)
SignRelease(w) ==
  /\ Staging(w, "copied")
  /\ IF ~Signs(w)
     THEN GoesOn(w) /\ UNCHANGED <<release, rollback, lock>>
     ELSE IF Own(w).status = "published"
     THEN Fails(w) /\ UNCHANGED release
     ELSE /\ Own(w).content < MaxContent
          /\ release' = [release EXCEPT ![Job(w)].status = "staged", ![Job(w)].content = @ + 1]
          /\ GoesOn(w) /\ UNCHANGED <<rollback, lock>>

(* runPackageIntegrityCheck0212 sets the status whatever it is, unless it  *)
(* is published; or it ends with an error before it does.                  *)
CheckRelease(w) ==
  /\ Staging(w, "signed")
  /\ \/ /\ Own(w).status # "published"
        /\ release' = [release EXCEPT ![Job(w)].status = "broken"] /\ Fails(w)
     \/ Fails(w) /\ UNCHANGED release
     \/ /\ Own(w).status # "published"
        /\ release' = [release EXCEPT ![Job(w)].status = "checked"]
        /\ Goes(w, "checked") /\ UNCHANGED <<rollback, lock>>

(* lookupPackage reads the release once more; then the locks are released. *)
ReadRelease(w) ==
  /\ Staging(w, "checked") /\ UNCHANGED release
  /\ \/ Fails(w)
     \/ /\ worker' = [worker EXCEPT ![w].at = "staged", ![w].content = Own(w).content,
                                    ![w].published = Own(w).status = "published"]
        /\ lock' = Unlocked(w) /\ UNCHANGED rollback

----------------------------------------------------------------------------
(* runRollbackJob0217 *)

(* A release read as published ends the job, and nothing is compared.      *)
FindPublished(w) ==
  /\ Staging(w, "staged") /\ UNCHANGED release
  /\ worker[w].published /\ Settles(w, "succeeded")

(* The project's policy on runtime validation, the files, the evidence,    *)
(* the right of the operator and the hooks of extensions: the release      *)
(* stays staged, the attempt fails, or the job ends.                       *)
Consider(w) ==
  /\ Staging(w, "staged") /\ UNCHANGED release /\ ~worker[w].published
  /\ \/ Settles(w, "validated")
     \/ Settles(w, "failed")
     \/ Fails(w)
     \/ Unauthorized(w)
     \/ Held(w) /\ Goes(w, "considered") /\ UNCHANGED <<rollback, lock>>

ChildOf(w) == [phase |-> "open", package |-> Job(w), content |-> worker[w].content,
               expects |-> rollback[Job(w)].expects]

(* EnqueueDurableJob under the key "rollback-publish:" and the job: every  *)
(* attempt finds the same one, if it asks for the same; or it fails.       *)
EnqueuePublish(w) ==
  /\ worker[w].at = "considered" /\ UNCHANGED <<head, release, retries>>
  /\ \/ /\ publish' = IF publish[Job(w)].phase = "none"
                      THEN [publish EXCEPT ![Job(w)] = ChildOf(w)] ELSE publish
        /\ publish'[Job(w)].content = worker[w].content
        /\ Goes(w, "enqueued") /\ UNCHANGED <<rollback, lock>>
     \/ Fails(w) /\ UNCHANGED publish

(* The worker may execute the publish job itself; then it looks at it.     *)
AwaitPublish(w) ==
  /\ Staging(w, "enqueued") /\ UNCHANGED release
  /\ CASE publish[Job(w)].phase = "succeeded" -> Goes(w, "published") /\ UNCHANGED <<rollback, lock>>
       [] publish[Job(w)].phase = "failed" -> Settles(w, "failed")
       [] OTHER -> Fails(w)

(* If the head has moved on the worker leaves without a word. *)
ConfirmHead(w) ==
  /\ Staging(w, "published") /\ UNCHANGED release
  /\ IF AlreadyCommitted(Job(w)) THEN Settles(w, "succeeded") ELSE Stops(w) /\ UNCHANGED rollback

----------------------------------------------------------------------------
(* Publish jobs *)

PublishLock(j) == publish[j].package \in DOMAIN lock => lock[publish[j].package] = NoOne

AsRequested(j) ==
  /\ release[publish[j].package].status = "checked"
  /\ release[publish[j].package].content = publish[j].content
  /\ head.revision = publish[j].expects

CommitPublish(j) ==
  /\ publish[j].phase = "open" /\ PublishLock(j) /\ AsRequested(j)
  /\ head' = [revision |-> head.revision + 1, package |-> publish[j].package]
  /\ release' = [release EXCEPT ![publish[j].package].status = "published",
                                ![publish[j].package].at = head.revision + 1]
  /\ publish' = [publish EXCEPT ![j].phase = "succeeded"]
  /\ UNCHANGED <<rollback, lock, worker, retries>>

(* It does not fit, it is refused, or its attempts are used up. *)
PublishFails(j) ==
  /\ publish[j].phase = "open"
  /\ publish' = [publish EXCEPT ![j].phase = "failed"]
  /\ UNCHANGED <<head, release, rollback, lock, worker, retries>>

----------------------------------------------------------------------------
Operator ==
  \/ \E r \in Rollbacks : RequestRollback(r) \/ CancelOperationJob(r) \/ RetryOperationJob(r)
  \/ \E o \in Orders, p \in Packages : RequestPublish(o, p)
  \/ \E j \in Packages : RetryPublish(j)

Stage(w) == LockChannel(w) \/ CompareHead(w) \/ OpenRelease(w) \/ CopyFiles(w)
            \/ SignRelease(w) \/ CheckRelease(w) \/ ReadRelease(w)
Work(w) == Stage(w) \/ FindPublished(w) \/ Consider(w) \/ EnqueuePublish(w) \/ AwaitPublish(w)
           \/ ConfirmHead(w)
Lease(r) == \E w \in Workers : LeaseJob(w, r)

Shared == {r \in Rollbacks : Cardinality({w \in Workers : worker[w].job = r}) > 1}

(* Signed again though it was no draft. *)
Rekeyed == {r \in Rollbacks : \E w \in Workers :
             /\ worker[w].job = r /\ worker[w].at = "copied" /\ worker'[w].at = "signed"
             /\ worker[w].distrusts}

(* Published by another job than its own while a worker is between check   *)
(* and read.                                                               *)
Slipping == {r \in Rollbacks :
            /\ release'[r].at # release[r].at /\ publish'[r] = publish[r]
            /\ \E w \in Workers : worker[w].job = r /\ worker[w].at = "checked"}

Recorded == excused' = excused \cup Shared' \cup Rekeyed /\ slipped' = slipped \cup Slipping
Watched(step) == step /\ Recorded

Next ==
  Watched(\/ Operator
          \/ \E r \in Rollbacks : Lease(r) \/ JobLapses(r) \/ Retire(r)
          \/ \E s \in DOMAIN lock : LockLapses(s)
          \/ \E w \in Workers : Work(w) \/ GivesUp(w)
          \/ \E j \in Packages : CommitPublish(j) \/ PublishFails(j))

Spec == Init /\ [][Next]_vars

(* What is done for a rollback without an operator: replicas poll twice a  *)
(* second, a worker goes on unless it dies, and leases run out when nobody *)
(* renews them.  As long as one of these can happen, one does.  Nothing is *)
(* asked of publish jobs and of locks.                                     *)
Handled(r) == \/ Lease(r) \/ JobLapses(r) \/ Retire(r)
              \/ \E w \in Workers : Job(w) = r /\ Work(w)

FairSpec == Spec /\ \A r \in Rollbacks : WF_vars(Watched(Handled(r)))

----------------------------------------------------------------------------
(* Properties *)

Ended == {"succeeded", "validated", "failed", "dead", "revoked"}

Release == [status : {"absent", "draft", "staged", "broken", "checked", "published"},
            content : 0 .. MaxContent, at : Nat]
Rollback == [phase : {"none", "pending", "running"} \cup Ended, leased : BOOLEAN,
             attempts : Nat, max : Nat, expects : Nat, cancelled : BOOLEAN]
Publish == [phase : {"none", "open", "succeeded", "failed"}, package : Packages \cup {None},
            content : 0 .. MaxContent, expects : Nat]
Places == {"idle", "leased", "serialized", "compared", "opened", "copied", "signed", "checked",
           "staged", "considered", "enqueued", "published"}
Worker == [at : Places, job : Rollbacks \cup {None}, attempt : Nat, already : BOOLEAN,
           draft : BOOLEAN, distrusts : BOOLEAN, published : BOOLEAN, content : 0 .. MaxContent]

TypeOK ==
  /\ head \in [revision : Nat \ {0}, package : Packages \cup {None}]
  /\ release \in [Packages -> Release] /\ publish \in [Packages -> Publish]
  /\ rollback \in [Rollbacks -> Rollback]
  /\ \A r \in Rollbacks : rollback[r].attempts <= rollback[r].max
  /\ lock \in [Rollbacks \cup {Channel} -> Workers \cup {NoOne}]
  /\ worker \in [Workers -> Worker]
  /\ retries \in 0 .. MaxRetries /\ excused \cup slipped \subseteq Rollbacks

(* A rollback that says so has rolled the channel back, and over the head  *)
(* its operator saw: whoever published the release, in whatever attempt,   *)
(* it became the very next revision (the comments at                       *)
(* rollback_durable.go:38 and :316).  Excepted is what line 243 lets pass: *)
(* while a worker was between its check's UPDATE and its last read, the    *)
(* package's lock lost, somebody else's job published the release.         *)
RollbackReplacedItsHead ==
  \A r \in Rollbacks \ slipped :
    rollback[r].phase = "succeeded" => release[r].at = rollback[r].expects + 1

(* However often attempts stage, sign and check it, launchers see a        *)
(* channel as ReleaseChannel promises it: one revision after another, and  *)
(* no release twice.                                                       *)
PublishedReleases == {p \in Packages : release[p].at # 0}
Promise == INSTANCE ReleaseChannel WITH
             Releases <- Packages, NoRelease <- None, revision <- head.revision - 1,
             current <- head.package, published <- PublishedReleases
ImplementsReleaseChannel == Promise!Spec

(* Once a release has been enqueued for publishing no attempt changes it   *)
(* under the publish job: later ones keep what was signed (the comment at  *)
(* rollback_durable.go:157), unless two workers have run the rollback at   *)
(* once, one of them after its lease and its locks ran out, or line 159    *)
(* made an attempt sign what was no draft because it no longer trusts the  *)
(* signature.                                                              *)
RetriesKeepTheRelease ==
  \A r \in Rollbacks \ excused :
    publish[r].phase = "open" => release[r].content = publish[r].content

(* A cancelled job has no effects any more (the comment on                 *)
(* OperationJournal, operations.go:11).                                    *)
CancelledDoesNothing ==
  [][\A r \in Rollbacks :
       rollback[r].cancelled /\ rollback'[r].cancelled /\ publish'[r].phase = "succeeded"
         => publish[r].phase = "succeeded"]_vars

(* A rollback comes to an end, published or not, without anybody's help:   *)
(* the job and the one it waits for do not put each other back for ever.   *)
RollbacksEnd ==
  \A r \in Rollbacks : rollback[r].phase # "none" ~> rollback[r].phase \in Ended
====

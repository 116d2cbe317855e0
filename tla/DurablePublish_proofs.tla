---- MODULE DurablePublish_proofs ----
(***************************************************************************)
(* Proofs about DurablePublish, for any number of packages, jobs, users    *)
(* and workers and any bound on versions, epochs and fences.               *)
(*                                                                         *)
(* OneWinnerPerRevision needs PublishedAsRequested (the package of a job   *)
(* that won is published, so that no other job can publish it) and that    *)
(* the revision a winner saw is below the head's.  OnlyLateJobsEscape is   *)
(* an action property; what makes it true is that an active job of a user  *)
(* who is being or has been revoked is either doomed or late (Escapes).    *)
(***************************************************************************)
EXTENDS DurablePublish, FiniteSetTheorems, TLAPS

----------------------------------------------------------------------------
(* The inductive invariant *)

(* A request names its package; before it the job was never leased, nor    *)
(* settled.                                                                *)
Named(j) == IF job[j].phase = "none" THEN job[j].epoch = 0 /\ job[j].by = 0 ELSE job[j].release \in Releases

(* Only an active job is leased or waits to be revoked. *)
ActiveOnly(j) == job[j].holder # 0 \/ j \in doomed => job[j].phase = "open"

(* An active job a revocation has passed by is late. *)
Escapes(j) == job[j].phase = "open" /\ access[ActorOf[j]] # "granted" => j \in doomed \cup late

(* A worker that is busy has a job that was enqueued, under some epoch. *)
Enqueued == {"open", "finished", "abandoned"}
Busy(w) == worker[w].at # "idle" =>
             worker[w].job \in Jobs /\ worker[w].epoch > 0 /\ job[worker[w].job].phase \in Enqueued

(* The revision a winner saw is one the head has left. *)
Behind(j) == job[j].phase = "finished" => job[j].head < head.revision

JobsHold == \A j \in Jobs : Named(j) /\ ActiveOnly(j) /\ Escapes(j) /\ Behind(j)
WorkersHold == \A w \in Workers : Busy(w)
Winners == IsFiniteSet(Finished) /\ OneWinnerPerRevision

IInv == TypeOK /\ JobsHold /\ WorkersHold /\ PublishedAsRequested /\ Winners

(* What a step that publishes nothing does to a job. *)
JobKept(j) ==
  /\ job[j].phase = "finished" <=> job'[j].phase = "finished"
  /\ job[j].phase \in Enqueued =>
       /\ job'[j].phase \in Enqueued
       /\ job'[j].release = job[j].release /\ job'[j].meta = job[j].meta /\ job'[j].head = job[j].head

(* A step that publishes nothing and keeps what is published keeps what    *)
(* was won, if it keeps what the jobs and the workers rely on.             *)
LEMMA QuietPreserves ==
  ASSUME IInv, TypeOK', UNCHANGED head, WorkersHold',
         \A j \in Jobs : JobKept(j) /\ (Named(j) /\ ActiveOnly(j) /\ Escapes(j))',
         \A r \in Releases : pkg[r].status = "published" =>
           pkg'[r].status = "published" /\ pkg'[r].meta = pkg[r].meta
  PROVE  IInv'
<1>1. Finished' = Finished
  BY DEF Finished, JobKept
<1>2. \A j \in Finished : job'[j].head = job[j].head /\ job'[j].release = job[j].release
                          /\ job'[j].meta = job[j].meta
  BY DEF Finished, JobKept, Enqueued
<1>3. Winners'
  BY <1>1, <1>2 DEF Winners, IInv, OneWinnerPerRevision
<1>4. PublishedAsRequested'
  <2>1. \A j \in Finished : job[j].release \in Releases
    BY DEF IInv, JobsHold, Named, Finished
  <2> QED
    BY <1>1, <1>2, <2>1 DEF IInv, PublishedAsRequested
<1>5. \A j \in Jobs : Behind(j)'
  BY <1>1, <1>2 DEF IInv, JobsHold, Behind, Finished
<1> QED
  BY <1>3, <1>4, <1>5 DEF IInv, JobsHold

----------------------------------------------------------------------------
(* Steps that leave the jobs alone *)

(* An editor's write keeps the invariant: what is published stays as it is. *)
LEMMA EditorsPreserve == IInv /\ Editors => IInv'
<1> SUFFICES ASSUME IInv, Editors PROVE IInv'
  OBVIOUS
<1>1. UNCHANGED <<head, job, scope, worker, accessVars>>
  BY DEF Editors, ChangePackage, CheckPackage, UpdateVersionStatus
<1> DEFINE Edited == /\ pkg' \in [Releases -> Package]
                     /\ \A r \in Releases : pkg[r].status = "published" =>
                          pkg'[r].status = "published" /\ pkg'[r].meta = pkg[r].meta
<1>2. Edited
  <2>0. pkg \in [Releases -> Package] /\ MaxVersion \in Nat
    BY PublishAssumption DEF IInv, TypeOK
  <2>1. ASSUME NEW r \in Releases, ChangePackage(r) PROVE Edited
    BY <2>0, <2>1 DEF ChangePackage, Package, Versions
  <2>2. ASSUME NEW r \in Releases, NEW m \in {0} \cup Versions, CheckPackage(r, m) PROVE Edited
    BY <2>0, <2>2 DEF CheckPackage, Package
  <2>3. ASSUME NEW r \in Releases, NEW s \in Drafts, UpdateVersionStatus(r, s) PROVE Edited
    BY <2>0, <2>3 DEF UpdateVersionStatus, Package
  <2> QED
    BY <2>1, <2>2, <2>3 DEF Editors
<1>3. TypeOK'
  BY <1>1, <1>2 DEF IInv, TypeOK, accessVars
<1>4. WorkersHold'
  BY <1>1 DEF IInv, WorkersHold, Busy
<1>5. \A j \in Jobs : JobKept(j) /\ (Named(j) /\ ActiveOnly(j) /\ Escapes(j))'
  BY <1>1 DEF IInv, JobsHold, JobKept, Named, ActiveOnly, Escapes, accessVars
<1> QED
  BY <1>1, <1>2, <1>3, <1>4, <1>5, QuietPreserves

(* A worker's step that touches no job and no package: what it goes on     *)
(* with is what it had.                                                    *)
LEMMA WanderPreserves ==
  ASSUME IInv, UNCHANGED <<pkg, head, job, accessVars>>,
         scope' \in [Releases -> [by: Workers \cup {NoOne}, fence: Nat]],
         worker' \in [Workers -> Goroutine],
         \A w \in Workers : worker'[w].at # "idle" =>
           /\ worker[w].at # "idle"
           /\ worker'[w].job = worker[w].job /\ worker'[w].epoch = worker[w].epoch
  PROVE  IInv'
<1>1. TypeOK'
  BY DEF IInv, TypeOK, accessVars
<1>2. WorkersHold'
  BY DEF IInv, WorkersHold, Busy
<1>3. \A j \in Jobs : JobKept(j) /\ (Named(j) /\ ActiveOnly(j) /\ Escapes(j))'
  BY DEF IInv, JobsHold, JobKept, Named, ActiveOnly, Escapes, accessVars
<1> QED
  BY <1>1, <1>2, <1>3, QuietPreserves

(* Going on to a place leaves a busy worker with its job and epoch.        *)
LEMMA GoesKeeps ==
  ASSUME TypeOK, NEW w \in Workers, NEW place \in Places, Goes(w, place), worker[w].at # "idle"
  PROVE  /\ worker' \in [Workers -> Goroutine]
         /\ \A v \in Workers : worker'[v].at # "idle" =>
              /\ worker[v].at # "idle"
              /\ worker'[v].job = worker[v].job /\ worker'[v].epoch = worker[v].epoch
BY DEF TypeOK, Goes, Goroutine

(* Stopping makes the worker idle. *)
LEMMA StopsKeeps ==
  ASSUME TypeOK, NEW w \in Workers, Stops(w)
  PROVE  /\ worker' \in [Workers -> Goroutine]
         /\ \A v \in Workers : worker'[v].at # "idle" =>
              /\ worker[v].at # "idle"
              /\ worker'[v].job = worker[v].job /\ worker'[v].epoch = worker[v].epoch
BY DEF TypeOK, Stops, Idle, Goroutine, Places

(* The package a busy worker is about is one there is. *)
LEMMA TargetKnown ==
  ASSUME IInv, NEW w \in Workers, worker[w].at # "idle"
  PROVE  worker[w].job \in Jobs /\ Target(w) \in Releases
BY DEF IInv, WorkersHold, Busy, JobsHold, Named, Target, Enqueued

(* Leases of the package, and workers that give up or die, keep it.        *)
LEMMA WanderersPreserve ==
  ASSUME IInv, NEW w \in Workers,
         AcquireScope(w) \/ LostAtCommit(w) \/ Leave(w) \/ GiveUp(w) \/ Crash(w)
  PROVE  IInv'
<1>0. TypeOK /\ NoOne \notin Workers
  BY PublishAssumption DEF IInv
<1>1. CASE AcquireScope(w)
  <2>1. Target(w) \in Releases
    BY <1>1, TargetKnown DEF AcquireScope
  <2>2. scope' \in [Releases -> [by: Workers \cup {NoOne}, fence: Nat]]
    BY <1>0, <1>1, <2>1 DEF AcquireScope, TypeOK
  <2>3. /\ worker' \in [Workers -> Goroutine]
        /\ \A v \in Workers : worker'[v].at # "idle" =>
             /\ worker[v].at # "idle"
             /\ worker'[v].job = worker[v].job /\ worker'[v].epoch = worker[v].epoch
    <3>1. scope[Target(w)].fence + 1 \in Nat
      BY <1>0, <2>1 DEF TypeOK
    <3> QED
      BY <1>0, <1>1, <3>1 DEF AcquireScope, TypeOK, Goroutine, Places
  <2> QED
    BY <1>1, <2>2, <2>3, WanderPreserves DEF AcquireScope
<1>2. CASE LostAtCommit(w)
  <2>1. Goes(w, "leaving") /\ worker[w].at # "idle" /\ UNCHANGED <<pkg, head, job, scope, accessVars>>
    BY <1>2 DEF LostAtCommit, Commits
  <2> QED
    BY <1>0, <2>1, GoesKeeps, WanderPreserves DEF TypeOK, Places
<1>3. CASE Leave(w)
  <2>1. Target(w) \in Releases
    BY <1>3, TargetKnown DEF Leave
  <2>2. scope' \in [Releases -> [by: Workers \cup {NoOne}, fence: Nat]]
    BY <1>0, <1>3, <2>1 DEF Leave, TypeOK
  <2> QED
    BY <1>0, <1>3, <2>2, StopsKeeps, WanderPreserves DEF Leave
<1>4. CASE GiveUp(w)
  <2>1. UNCHANGED <<pkg, head, job, scope, accessVars>> /\ worker[w].at # "idle"
        /\ (Stops(w) \/ Goes(w, "leaving"))
    BY <1>4 DEF GiveUp
  <2> QED
    BY <1>0, <2>1, GoesKeeps, StopsKeeps, WanderPreserves DEF TypeOK, Places
<1>5. CASE Crash(w)
  BY <1>0, <1>5, StopsKeeps, WanderPreserves DEF Crash, TypeOK
<1> QED
  BY <1>1, <1>2, <1>3, <1>4, <1>5

(* So does the end of a package's lease. *)
LEMMA ScopeLapsesPreserves ==
  ASSUME IInv, NEW r \in Releases, ScopeLapses(r)
  PROVE  IInv'
<1>1. scope' \in [Releases -> [by: Workers \cup {NoOne}, fence: Nat]]
  BY DEF ScopeLapses, IInv, TypeOK
<1>2. worker' = worker /\ worker' \in [Workers -> Goroutine]
  BY DEF ScopeLapses, IInv, TypeOK
<1> QED
  BY <1>1, <1>2, WanderPreserves DEF ScopeLapses

----------------------------------------------------------------------------
(* Steps that change one job *)

(* Worker w goes on with what it has, or starts on job j. *)
Minds(w, j) == worker'[w].at # "idle" =>
  \/ worker[w].at # "idle" /\ worker'[w].job = worker[w].job /\ worker'[w].epoch = worker[w].epoch
  \/ worker'[w].job = j /\ worker'[w].epoch > 0 /\ job'[j].phase \in Enqueued

(* A step that publishes nothing may change one job: it keeps the job's    *)
(* name, leases it and dooms it only while it is active, and an active job *)
(* that was not active before is late unless its user is granted access.   *)
LEMMA OneJobPreserves ==
  ASSUME IInv, NEW j \in Jobs, NEW u \in Task, job' = [job EXCEPT ![j] = u],
         UNCHANGED <<pkg, head, scope, access, doomed>>,
         late' = late \/ late' = late \cup {j},
         worker' \in [Workers -> Goroutine], \A w \in Workers : Minds(w, j),
         u.phase # "none", u.release \in Releases,
         u.holder # 0 \/ j \in doomed => u.phase = "open",
         u.phase = "open" => job[j].phase = "open" \/ j \in late' \/ access[ActorOf[j]] = "granted",
         u.phase = "finished" <=> job[j].phase = "finished",
         job[j].phase \in Enqueued => /\ u.phase \in Enqueued /\ u.release = job[j].release
                                      /\ u.meta = job[j].meta /\ u.head = job[j].head
  PROVE  IInv'
<1>1. job \in [Jobs -> Task] /\ job' \in [Jobs -> Task]
      /\ job'[j] = u /\ \A i \in Jobs \ {j} : job'[i] = job[i]
  BY DEF IInv, TypeOK
<1>2. TypeOK'
  BY <1>1 DEF IInv, TypeOK
<1>3. ASSUME NEW i \in Jobs PROVE JobKept(i) /\ (Named(i) /\ ActiveOnly(i) /\ Escapes(i))'
  <2>1. CASE i = j
    BY <1>1, <2>1 DEF IInv, JobsHold, JobKept, Named, ActiveOnly, Escapes
  <2>2. CASE i # j
    BY <1>1, <2>2 DEF IInv, JobsHold, JobKept, Named, ActiveOnly, Escapes
  <2> QED
    BY <2>1, <2>2
<1>4. WorkersHold'
  BY <1>3 DEF IInv, WorkersHold, Busy, Minds, JobKept
<1> QED
  BY <1>2, <1>3, <1>4, QuietPreserves

(* What leaves the workers where they are is on nobody's mind.             *)
LEMMA NobodyMinds ==
  ASSUME TypeOK, UNCHANGED worker, NEW j
  PROVE  worker' \in [Workers -> Goroutine] /\ \A w \in Workers : Minds(w, j)
BY DEF TypeOK, Minds

(* A request names a package, and becomes a job late or with access. *)
LEMMA CallerPreserves == IInv /\ Caller => IInv'
<1> SUFFICES ASSUME IInv, Caller PROVE IInv'
  OBVIOUS
<1>0. /\ TypeOK /\ pkg \in [Releases -> Package] /\ job \in [Jobs -> Task]
      /\ head.revision \in Nat /\ JobsHold
  BY DEF IInv, TypeOK
<1>1. ASSUME NEW j \in Jobs, NEW r \in Releases, Request(j, r) PROVE IInv'
  <2> DEFINE u == [NewTask EXCEPT !.phase = "requested", !.release = r,
                                  !.status = pkg[r].status, !.meta = pkg[r].meta]
  <2>1. pkg[r].status \in Drafts /\ pkg[r].meta \in Versions
    BY <1>0, <1>1 DEF Request, Package
  <2>2. u \in Task /\ u.phase = "requested" /\ u.release = r /\ u.holder = 0
    BY <2>1 DEF NewTask, Task
  <2>3. job[j].phase = "none" /\ j \notin doomed
    BY <1>0, <1>1 DEF Request, JobsHold, ActiveOnly
  <2>4. worker' \in [Workers -> Goroutine] /\ \A w \in Workers : Minds(w, j)
    BY <1>0, <1>1, NobodyMinds DEF Request
  <2> QED
    BY <1>1, <2>2, <2>3, <2>4, OneJobPreserves DEF Request, accessVars, Enqueued
<1>2. ASSUME NEW j \in Jobs, Enqueue(j) PROVE IInv'
  <2> DEFINE u == [job[j] EXCEPT !.phase = "open", !.head = head.revision]
  <2>1. /\ u \in Task /\ u.phase = "open" /\ u.release = job[j].release /\ u.holder = job[j].holder
        /\ job' = [job EXCEPT ![j] = u]
    BY <1>0, <1>2 DEF Enqueue, Task
  <2>2. worker' \in [Workers -> Goroutine] /\ \A w \in Workers : Minds(w, j)
    BY <1>0, <1>2, NobodyMinds DEF Enqueue
  <2>3. late' = late \/ late' = late \cup {j} 
    BY <1>2 DEF Enqueue, Activated
  <2>4. j \in late' \/ access[ActorOf[j]] = "granted"
    BY <1>2 DEF Enqueue, Activated
  <2>5. job[j].phase = "requested" /\ job[j].release \in Releases
    BY <1>0, <1>2 DEF Enqueue, JobsHold, Named
  <2> QED
    BY <1>2, <2>1, <2>2, <2>3, <2>4, <2>5, OneJobPreserves DEF Enqueue, Enqueued
<1>3. ASSUME NEW j \in Jobs, Retry(j) PROVE IInv'
  <2> DEFINE u == [job[j] EXCEPT !.phase = "open"]
  <2>1. /\ u \in Task /\ u.phase = "open" /\ u.release = job[j].release /\ u.holder = job[j].holder
        /\ u.meta = job[j].meta /\ u.head = job[j].head
        /\ job' = [job EXCEPT ![j] = u]
    BY <1>0, <1>3 DEF Retry, Task
  <2>2. worker' \in [Workers -> Goroutine] /\ \A w \in Workers : Minds(w, j)
    BY <1>0, <1>3, NobodyMinds DEF Retry
  <2>3. late' = late \/ late' = late \cup {j} 
    BY <1>3 DEF Retry, Activated
  <2>4. j \in late' \/ access[ActorOf[j]] = "granted"
    BY <1>3 DEF Retry, Activated
  <2>5. job[j].phase = "abandoned" /\ job[j].release \in Releases
    BY <1>0, <1>3 DEF Retry, JobsHold, Named
  <2> QED
    BY <1>3, <2>1, <2>2, <2>3, <2>4, <2>5, OneJobPreserves DEF Retry, Enqueued
<1> QED
  BY <1>1, <1>2, <1>3 DEF Caller

(* A lease of a job and its end, and the end of a job nobody holds. *)
LEMMA JobLeasesPreserve ==
  ASSUME IInv, NEW j \in Jobs,
         (\E w \in Workers : LeaseJob(w, j)) \/ JobLapses(j) \/ JobEnds(j)
  PROVE  IInv'
<1>0. TypeOK /\ job \in [Jobs -> Task] /\ JobsHold
  BY DEF IInv, TypeOK
<1>1. ASSUME NEW w \in Workers, LeaseJob(w, j) PROVE IInv'
  <2> DEFINE u == [job[j] EXCEPT !.holder = job[j].epoch + 1, !.epoch = @ + 1, !.by = 0]
             g == [at |-> "leased", job |-> j, epoch |-> job[j].epoch + 1, fence |-> 0]
  <2>1. /\ u \in Task /\ u.phase = job[j].phase /\ u.release = job[j].release
        /\ u.meta = job[j].meta /\ u.head = job[j].head
        /\ job' = [job EXCEPT ![j] = u]
    BY <1>0, <1>1 DEF LeaseJob, Task
  <2>2. g \in Goroutine /\ g.job = j /\ g.epoch > 0 /\ worker' = [worker EXCEPT ![w] = g]
    <3>1. job[j].epoch \in Nat
      BY <1>0 DEF Task
    <3>2. job[j].epoch + 1 \in Nat /\ job[j].epoch + 1 > 0
      BY <3>1
    <3> QED
      BY <1>1, <3>2 DEF LeaseJob, Goroutine, Places
  <2>3. job[j].phase = "open"
    BY <1>1 DEF LeaseJob
  <2>4. worker' \in [Workers -> Goroutine] /\ \A v \in Workers : Minds(v, j)
    <3>1. worker' \in [Workers -> Goroutine]
      BY <1>0, <2>2 DEF TypeOK
    <3>2. job'[j].phase \in Enqueued
      BY <1>0, <2>1, <2>3 DEF Enqueued
    <3> QED
      BY <1>0, <2>2, <3>1, <3>2 DEF TypeOK, Minds
  <2>5. job[j].release \in Releases
    BY <1>0, <2>3 DEF JobsHold, Named
  <2> QED
    BY <1>1, <2>1, <2>3, <2>4, <2>5, OneJobPreserves DEF LeaseJob, accessVars, Enqueued
<1>2. CASE JobLapses(j)
  <2> DEFINE u == [job[j] EXCEPT !.holder = 0]
  <2>1. /\ u \in Task /\ u.phase = job[j].phase /\ u.release = job[j].release /\ u.holder = 0
        /\ u.meta = job[j].meta /\ u.head = job[j].head
        /\ job' = [job EXCEPT ![j] = u]
    BY <1>0, <1>2 DEF JobLapses, Task
  <2>2. worker' \in [Workers -> Goroutine] /\ \A w \in Workers : Minds(w, j)
    BY <1>0, <1>2, NobodyMinds DEF JobLapses
  <2>3. job[j].phase = "open" /\ job[j].release \in Releases
    BY <1>0, <1>2 DEF JobLapses, JobsHold, ActiveOnly, Named
  <2> QED
    BY <1>2, <2>1, <2>2, <2>3, OneJobPreserves DEF JobLapses, accessVars, Enqueued
<1>3. CASE JobEnds(j)
  <2> DEFINE u == [job[j] EXCEPT !.phase = "abandoned"]
  <2>1. /\ u \in Task /\ u.phase = "abandoned" /\ u.release = job[j].release /\ u.holder = job[j].holder
        /\ u.meta = job[j].meta /\ u.head = job[j].head
        /\ job' = [job EXCEPT ![j] = u]
    BY <1>0, <1>3 DEF JobEnds, Task
  <2>2. worker' \in [Workers -> Goroutine] /\ \A w \in Workers : Minds(w, j)
    BY <1>0, <1>3, NobodyMinds DEF JobEnds
  <2>3. job[j].phase = "open" /\ job[j].release \in Releases /\ job[j].holder = 0 /\ j \notin doomed
    BY <1>0, <1>3 DEF JobEnds, JobsHold, Named, RowFree
  <2> QED
    BY <1>3, <2>1, <2>2, <2>3, OneJobPreserves DEF JobEnds, accessVars, Enqueued
<1> QED
  BY <1>1, <1>2, <1>3

----------------------------------------------------------------------------
(* A worker settles its job *)

(* Settling changes the phase of a job whose lease the worker holds, and   *)
(* takes the lease off it; otherwise nothing.                              *)
LEMMA SettledShape ==
  ASSUME IInv, NEW w \in Workers, worker[w].at # "idle", NEW phase \in Enqueued
  PROVE  \/ ~Held(w) /\ Settled(w, phase) = job
         \/ /\ Held(w) /\ job[worker[w].job].phase = "open"
            /\ [job[worker[w].job] EXCEPT !.phase = phase, !.holder = 0, !.by = worker[w].epoch] \in Task
            /\ Settled(w, phase) =
                 [job EXCEPT ![worker[w].job] =
                    [job[worker[w].job] EXCEPT !.phase = phase, !.holder = 0, !.by = worker[w].epoch]]
<1>1. worker[w].job \in Jobs /\ job \in [Jobs -> Task] /\ worker[w].epoch \in Nat
  BY DEF IInv, WorkersHold, Busy, TypeOK, Goroutine
<1>2. [job[worker[w].job] EXCEPT !.phase = phase, !.holder = 0, !.by = worker[w].epoch] \in Task
  BY <1>1 DEF Task, Enqueued
<1> QED
  BY <1>1, <1>2 DEF Settled, Held

(* A worker that gives its job back, or gives it up, keeps the invariant,  *)
(* if the revocation does not have it.                                     *)
LEMMA SettlePreserves ==
  ASSUME IInv, NEW w \in Workers, worker[w].at # "idle", NEW phase \in {"open", "abandoned"},
         RowFree(worker[w].job), job' = Settled(w, phase), Stops(w) \/ Goes(w, "leaving"),
         UNCHANGED <<pkg, head, scope, accessVars>>
  PROVE  IInv'
<1> DEFINE j == worker[w].job
           u == [job[j] EXCEPT !.phase = phase, !.holder = 0, !.by = worker[w].epoch]
<1>0. TypeOK /\ JobsHold /\ j \in Jobs
  BY DEF IInv, WorkersHold, Busy
<1>1. /\ worker' \in [Workers -> Goroutine]
      /\ \A v \in Workers : worker'[v].at # "idle" =>
           /\ worker[v].at # "idle"
           /\ worker'[v].job = worker[v].job /\ worker'[v].epoch = worker[v].epoch
  BY <1>0, GoesKeeps, StopsKeeps DEF Places
<1>2. CASE job' = job
  BY <1>0, <1>1, <1>2, WanderPreserves DEF TypeOK
<1>3. CASE job[j].phase = "open" /\ u \in Task /\ job' = [job EXCEPT ![j] = u]
  <2>1. /\ u.phase = phase /\ u.holder = 0 /\ u.release = job[j].release
        /\ u.meta = job[j].meta /\ u.head = job[j].head
    BY <1>0 DEF TypeOK, Task
  <2>2. \A v \in Workers : Minds(v, j)
    BY <1>1 DEF Minds
  <2>3. job[j].release \in Releases /\ j \notin doomed
    BY <1>0, <1>3 DEF JobsHold, Named, RowFree
  <2> QED
    BY <1>0, <1>1, <1>3, <2>1, <2>2, <2>3, OneJobPreserves DEF accessVars, Enqueued
<1> QED
  BY <1>2, <1>3, SettledShape DEF Enqueued

(* A comparison that fails settles the job; one that holds goes on. *)
LEMMA ComparePreserves ==
  ASSUME IInv, NEW w \in Workers, NEW from \in Places \ {"idle"}, NEW ok \in BOOLEAN,
         NEW to \in Places, NEW exit \in {"idle", "leaving"}, Compare(w, from, ok, to, exit)
  PROVE  IInv'
<1>0. TypeOK /\ worker[w].at # "idle" /\ UNCHANGED <<pkg, head, scope, accessVars>>
  BY DEF IInv, Compare
<1>1. CASE ok
  <2>1. Goes(w, to) /\ UNCHANGED job
    BY <1>1 DEF Compare
  <2> QED
    BY <1>0, <2>1, GoesKeeps, WanderPreserves DEF TypeOK
<1>2. CASE ~ok
  <2>1. RowFree(worker[w].job) /\ job' = Settled(w, "abandoned") /\ (Stops(w) \/ Goes(w, "leaving"))
    BY <1>2 DEF Compare
  <2> QED
    BY <1>0, <2>1, SettlePreserves
<1> QED
  BY <1>1, <1>2

(* Everything a worker does before it commits keeps the invariant, and so  *)
(* does a commit that is refused.                                          *)
LEMMA WorkPreserves ==
  ASSUME IInv, NEW w \in Workers,
         \/ Authorize(w) \/ Inspect(w) \/ CompareHead(w) \/ CheckEvidence(w) \/ Reauthorize(w)
         \/ ScopeIsBusy(w) \/ ConflictAtCommit(w)
  PROVE  IInv'
<1>1. CASE Authorize(w)
  BY <1>1, ComparePreserves DEF Authorize, Places, Permitted
<1>2. CASE Inspect(w)
  BY <1>2, ComparePreserves DEF Inspect, Places, SameContent
<1>3. CASE CompareHead(w)
  BY <1>3, ComparePreserves DEF CompareHead, Places, SameHead
<1>4. CASE CheckEvidence(w)
  <2>1. PICK trusted \in BOOLEAN :
          Compare(w, "compared", trusted /\ Evident(worker[w].job), "evident", "leaving")
    BY <1>4 DEF CheckEvidence
  <2>2. (trusted /\ Evident(worker[w].job)) \in BOOLEAN
    BY DEF Evident
  <2> QED
    BY <2>1, <2>2, ComparePreserves DEF Places
<1>5. CASE Reauthorize(w)
  BY <1>5, ComparePreserves DEF Reauthorize, Places, Permitted
<1>6. CASE ScopeIsBusy(w)
  BY <1>6, SettlePreserves DEF ScopeIsBusy
<1>7. CASE ConflictAtCommit(w)
  BY <1>7, SettlePreserves DEF ConflictAtCommit, Commits
<1> QED
  BY <1>1, <1>2, <1>3, <1>4, <1>5, <1>6, <1>7

----------------------------------------------------------------------------
(* The commit *)

(* What a commit does: the worker holds the job, nobody has published the  *)
(* package, it is what was asked for, the head is where it was, and all    *)
(* three change at once.                                                   *)
LEMMA CommitShape ==
  ASSUME IInv, NEW w \in Workers, CommitDurablePublish(w)
  PROVE  LET j == worker[w].job
             r == job[j].release
             u == [job[j] EXCEPT !.phase = "finished", !.holder = 0,
                                 !.by = worker[w].epoch]
         IN /\ j \in Jobs /\ r \in Releases /\ j \notin doomed
            /\ job[j].phase = "open" /\ job[j].holder = worker[w].epoch /\ worker[w].epoch > 0
            /\ pkg[r].status # "published" /\ pkg[r].meta = job[j].meta
            /\ job[j].head = head.revision
            /\ u \in Task /\ job' = [job EXCEPT ![j] = u]
            /\ pkg' = [pkg EXCEPT ![r].status = "published"]
            /\ head' = [revision |-> head.revision + 1, release |-> r]
            /\ Goes(w, "leaving") /\ worker[w].at # "idle"
            /\ UNCHANGED <<scope, accessVars>>
<1>1. worker[w].at # "idle" /\ Held(w) /\ Goes(w, "leaving") /\ RowFree(worker[w].job)
  BY DEF CommitDurablePublish, Commits, Fenced
<1>2. worker[w].job \in Jobs /\ Target(w) \in Releases /\ worker[w].epoch > 0
  BY <1>1, TargetKnown DEF IInv, WorkersHold, Busy
<1>3. AsRequested(worker[w].job) /\ head' = MovedHead(Target(w)) /\ pkg[Target(w)].status # "published"
      /\ pkg' = [pkg EXCEPT ![Target(w)].status = "published"] /\ job' = Settled(w, "finished")
      /\ UNCHANGED <<scope, accessVars>>
  BY DEF CommitDurablePublish
<1> QED
  BY <1>1, <1>2, <1>3, SettledShape
  DEF AsRequested, SameContent, SameHead, Held, Target, MovedHead, RowFree, Enqueued

(* A commit adds one winner, whose package and revision no other has. *)
LEMMA CommitPreserves ==
  ASSUME IInv, NEW w \in Workers, CommitDurablePublish(w)
  PROVE  IInv'
<1>1. PICK j \in Jobs, r \in Releases, u \in Task :
        /\ r = job[j].release /\ u = [job[j] EXCEPT !.phase = "finished", !.holder = 0,
                                 !.by = worker[w].epoch]
        /\ j \notin doomed /\ job[j].phase = "open"
        /\ pkg[r].status # "published" /\ pkg[r].meta = job[j].meta /\ job[j].head = head.revision
        /\ job' = [job EXCEPT ![j] = u]
        /\ pkg' = [pkg EXCEPT ![r].status = "published"]
        /\ head' = [revision |-> head.revision + 1, release |-> r]
        /\ Goes(w, "leaving") /\ worker[w].at # "idle" /\ UNCHANGED <<scope, accessVars>>
  <2> DEFINE i == worker[w].job
             q == job[i].release
             v == [job[i] EXCEPT !.phase = "finished", !.holder = 0,
                                 !.by = worker[w].epoch]
  <2>1. /\ i \in Jobs /\ q \in Releases /\ v \in Task /\ i \notin doomed /\ job[i].phase = "open"
        /\ pkg[q].status # "published" /\ pkg[q].meta = job[i].meta /\ job[i].head = head.revision
        /\ job' = [job EXCEPT ![i] = v]
        /\ pkg' = [pkg EXCEPT ![q].status = "published"]
        /\ head' = [revision |-> head.revision + 1, release |-> q]
        /\ Goes(w, "leaving") /\ worker[w].at # "idle" /\ UNCHANGED <<scope, accessVars>>
    BY CommitShape
  <2>2. q = job[i].release /\ v = [job[i] EXCEPT !.phase = "finished", !.holder = 0,
                                 !.by = worker[w].epoch]
    OBVIOUS
  <2> HIDE DEF i, q, v
  <2> QED
    BY <2>1, <2>2, Zenon
<1>2. /\ TypeOK /\ job \in [Jobs -> Task] /\ head.revision \in Nat
      /\ pkg \in [Releases -> Package]
  BY DEF IInv, TypeOK
<1>3. /\ u.phase = "finished" /\ u.holder = 0 /\ u.release = r
      /\ u.meta = job[j].meta /\ u.head = job[j].head
  BY <1>1, <1>2 DEF Task
<1>4. /\ job' \in [Jobs -> Task] /\ job'[j] = u /\ \A i \in Jobs \ {j} : job'[i] = job[i]
      /\ head'.revision = head.revision + 1
      /\ pkg' \in [Releases -> Package] /\ pkg'[r].status = "published"
      /\ \A q \in Releases : pkg'[q].meta = pkg[q].meta
      /\ \A q \in Releases \ {r} : pkg'[q] = pkg[q]
  BY <1>1, <1>2 DEF Package
<1>5. /\ worker' \in [Workers -> Goroutine]
      /\ \A v \in Workers : worker'[v].at # "idle" =>
           /\ worker[v].at # "idle"
           /\ worker'[v].job = worker[v].job /\ worker'[v].epoch = worker[v].epoch
  BY <1>1, <1>2, GoesKeeps DEF Places
<1>6. TypeOK'
  <2>1. head' \in [revision: Nat, release: Releases \cup {NoRelease}]
    BY <1>1, <1>2
  <2> QED
    BY <1>1, <1>2, <1>4, <1>5, <2>1 DEF TypeOK, accessVars
<1>7. JobsHold'
  <2>0. access' = access /\ doomed' = doomed /\ late' = late
    BY <1>1 DEF accessVars
  <2>1. Named(j)' /\ ActiveOnly(j)' /\ Escapes(j)'
    BY <1>1, <1>3, <1>4, <2>0 DEF Named, ActiveOnly, Escapes
  <2>2. Behind(j)'
    BY <1>1, <1>2, <1>3, <1>4 DEF Behind
  <2>3. ASSUME NEW i \in Jobs \ {j} PROVE (Named(i) /\ ActiveOnly(i) /\ Escapes(i) /\ Behind(i))'
    <3>1. Named(i) /\ ActiveOnly(i) /\ Escapes(i) /\ Behind(i) /\ job[i].head \in Nat
      BY <1>2 DEF IInv, JobsHold, Task
    <3>2. job'[i] = job[i]
      BY <1>4
    <3>3. Named(i)' /\ ActiveOnly(i)' /\ Escapes(i)'
      BY <2>0, <3>1, <3>2 DEF Named, ActiveOnly, Escapes
    <3>4. Behind(i)'
      BY <1>2, <1>4, <3>1, <3>2 DEF Behind
    <3> QED
      BY <3>3, <3>4
  <2> QED
    BY <2>1, <2>2, <2>3 DEF JobsHold
<1>8. WorkersHold'
  BY <1>1, <1>3, <1>4, <1>5 DEF IInv, WorkersHold, Busy, Enqueued
<1>9. Finished' = Finished \cup {j} /\ j \notin Finished
  BY <1>1, <1>3, <1>4 DEF Finished
<1>10. ASSUME NEW i \in Finished
       PROVE  /\ job'[i] = job[i] /\ i \in Jobs /\ job[i].release \in Releases \ {r}
              /\ pkg[job[i].release].status = "published"
              /\ pkg[job[i].release].meta = job[i].meta
              /\ job[i].head \in Nat /\ job[i].head < head.revision
  <2>1. i \in Jobs /\ i # j /\ job[i].phase = "finished"
    BY <1>9 DEF Finished
  <2>2. pkg[job[i].release].status = "published" /\ pkg[job[i].release].meta = job[i].meta
    BY DEF IInv, PublishedAsRequested
  <2>3. job[i].release \in Releases /\ job[i].head < head.revision /\ job[i].head \in Nat
    BY <1>2, <2>1 DEF IInv, JobsHold, Named, Behind, Task
  <2>4. job[i].release # r
    BY <1>1, <2>2
  <2> QED
    BY <1>4, <2>1, <2>2, <2>3, <2>4
<1>11. PublishedAsRequested'
  <2>1. ASSUME NEW i \in Finished
        PROVE  pkg'[job'[i].release].status = "published" /\ pkg'[job'[i].release].meta = job'[i].meta
    BY <1>4, <1>10
  <2>2. pkg'[job'[j].release].status = "published" /\ pkg'[job'[j].release].meta = job'[j].meta
    BY <1>1, <1>3, <1>4
  <2> QED
    BY <1>9, <2>1, <2>2 DEF PublishedAsRequested
<1>12. Winners'
  <2>1. IsFiniteSet(Finished) /\ OneWinnerPerRevision
    BY DEF IInv, Winners
  <2>2. IsFiniteSet(Finished') /\ Cardinality(Finished') = Cardinality(Finished) + 1
    BY <1>9, <2>1, FS_AddElement
  <2>3. head'.revision = Cardinality(Finished')
    BY <1>4, <2>1, <2>2 DEF OneWinnerPerRevision
  <2>4. \A i \in Finished : job'[i].head # job'[j].head /\ job'[i].release # job'[j].release
    BY <1>1, <1>2, <1>3, <1>4, <1>10 DEF Task
  <2>5. \A i, k \in Finished : i # k => job'[i].head # job'[k].head /\ job'[i].release # job'[k].release
    BY <1>10, <2>1 DEF OneWinnerPerRevision
  <2>6. \A i, k \in Finished' : i # k => job'[i].head # job'[k].head /\ job'[i].release # job'[k].release
    BY <1>9, <2>4, <2>5
  <2> QED
    BY <2>2, <2>3, <2>6 DEF Winners, OneWinnerPerRevision
<1> QED
  BY <1>6, <1>7, <1>8, <1>11, <1>12 DEF IInv

----------------------------------------------------------------------------
(* The revocation *)

(* Every active job of the user is doomed when the revocation has updated. *)
LEMMA RevokeJobsPreserves ==
  ASSUME IInv, NEW a \in Actors, RevokeJobs(a)
  PROVE  IInv'
<1>0. TypeOK /\ JobsHold /\ ActorOf \in [Jobs -> Actors]
  BY PublishAssumption DEF IInv
<1>1. TypeOK'
  BY <1>0 DEF TypeOK, RevokeJobs, ActiveJobsOf
<1>2. WorkersHold'
  BY DEF IInv, WorkersHold, Busy, RevokeJobs
<1>3. ASSUME NEW j \in Jobs PROVE JobKept(j) /\ (Named(j) /\ ActiveOnly(j) /\ Escapes(j))'
  BY <1>0 DEF TypeOK, JobsHold, JobKept, Named, ActiveOnly, Escapes, RevokeJobs, ActiveJobsOf
<1> QED
  BY <1>1, <1>2, <1>3, QuietPreserves DEF RevokeJobs

(* Its commit ends the doomed jobs of the user; those active now are late. *)
LEMMA RevokeCommitPreserves ==
  ASSUME IInv, NEW a \in Actors, NEW outcome \in {"signedOut", "revoked"}, RevokeCommit(a, outcome)
  PROVE  IInv'
<1>0. TypeOK /\ JobsHold /\ ActorOf \in [Jobs -> Actors] /\ job \in [Jobs -> Task]
  BY PublishAssumption DEF IInv, TypeOK
<1>1. ASSUME NEW j \in Jobs
      PROVE  IF j \in doomed \cap JobsOf(a)
             THEN /\ job'[j].phase = "abandoned" /\ job'[j].holder = 0 /\ job'[j] \in Task
                  /\ job'[j].release = job[j].release /\ job'[j].meta = job[j].meta
                  /\ job'[j].head = job[j].head
             ELSE job'[j] = job[j]
  BY <1>0 DEF RevokeCommit, Task
<1>2. job' \in [Jobs -> Task]
  <2>1. job' = [j \in Jobs |-> job'[j]]
    BY DEF RevokeCommit
  <2> QED
    BY <1>0, <1>1, <2>1
<1>3. TypeOK'
  BY <1>0, <1>2 DEF TypeOK, RevokeCommit
<1>4. ASSUME NEW j \in Jobs PROVE JobKept(j) /\ (Named(j) /\ ActiveOnly(j))'
  BY <1>0, <1>1 DEF JobsHold, JobKept, Named, ActiveOnly, Enqueued, RevokeCommit
<1>5. ASSUME NEW j \in Jobs PROVE Escapes(j)'
  <2>1. CASE ActorOf[j] = a
    <3>1. access[a] = "revoking" /\ (j \in JobsOf(a)) /\ Escapes(j)
      BY <1>0, <2>1 DEF RevokeCommit, JobsOf, JobsHold
    <3> QED
      BY <1>1, <2>1, <3>1 DEF Escapes, RevokeCommit
  <2>2. CASE ActorOf[j] # a
    BY <1>0, <1>1, <2>2 DEF TypeOK, JobsHold, Escapes, RevokeCommit, JobsOf
  <2> QED
    BY <2>1, <2>2
<1>6. WorkersHold'
  BY <1>4 DEF IInv, WorkersHold, Busy, JobKept, RevokeCommit
<1> QED
  BY <1>3, <1>4, <1>5, <1>6, QuietPreserves DEF RevokeCommit

(* A revocation that fails leaves the user's access as it was. *)
LEMMA RevokeAbortPreserves ==
  ASSUME IInv, NEW a \in Actors, RevokeAbort(a)
  PROVE  IInv'
<1>0. TypeOK /\ JobsHold /\ ActorOf \in [Jobs -> Actors]
  BY PublishAssumption DEF IInv
<1>1. TypeOK'
  BY <1>0 DEF TypeOK, RevokeAbort
<1>2. WorkersHold'
  BY DEF IInv, WorkersHold, Busy, RevokeAbort
<1>3. ASSUME NEW j \in Jobs PROVE JobKept(j) /\ (Named(j) /\ ActiveOnly(j) /\ Escapes(j))'
  BY <1>0 DEF TypeOK, JobsHold, JobKept, Named, ActiveOnly, Escapes, RevokeAbort, JobsOf
<1> QED
  BY <1>1, <1>2, <1>3, QuietPreserves DEF RevokeAbort

----------------------------------------------------------------------------
(* Theorems *)

(* At first nothing is published, requested or leased. *)
LEMMA InitIInv == Init => IInv
<1> SUFFICES ASSUME Init PROVE IInv
  OBVIOUS
<1>1. TypeOK
  <2>1. 1 \in Versions
    BY PublishAssumption DEF Versions
  <2>2. NewPackage \in Package /\ NewTask \in Task /\ Idle \in Goroutine
    BY <2>1 DEF NewPackage, Package, NewTask, Task, Drafts, Idle, Goroutine, Places
  <2> QED
    BY <2>2 DEF Init, TypeOK
<1>2. \A j \in Jobs : job[j].phase = "none" /\ job[j].holder = 0 /\ job[j].epoch = 0
              /\ job[j].by = 0
  BY DEF Init, NewTask
<1>3. JobsHold /\ PublishedAsRequested
  BY <1>2 DEF Init, JobsHold, Named, ActiveOnly, Escapes, Behind, PublishedAsRequested, Finished
<1>4. WorkersHold
  BY DEF Init, WorkersHold, Busy, Idle
<1>5. Winners
  <2>1. Finished = {}
    BY <1>2 DEF Finished
  <2> QED
    BY <2>1, FS_EmptySet DEF Init, Winners, OneWinnerPerRevision
<1> QED
  BY <1>1, <1>3, <1>4, <1>5 DEF IInv

(* Every step of the system keeps the invariant. *)
LEMMA NextIInv == IInv /\ [Next]_vars => IInv'
<1> SUFFICES ASSUME IInv, [Next]_vars PROVE IInv'
  OBVIOUS
<1>1. CASE Caller
  BY <1>1, CallerPreserves
<1>2. ASSUME NEW w \in Workers, Execution(w) PROVE IInv'
  BY <1>2, JobLeasesPreserve, WanderersPreserve, WorkPreserves, CommitPreserves DEF Execution
<1>3. CASE Leases
  BY <1>3, JobLeasesPreserve, ScopeLapsesPreserves DEF Leases
<1>4. CASE Editors
  BY <1>4, EditorsPreserve
<1>5. CASE Triggers
  BY <1>5, RevokeJobsPreserves, RevokeCommitPreserves, RevokeAbortPreserves DEF Triggers
<1>6. CASE UNCHANGED vars
  <2>1. WorkersHold' /\ TypeOK'
    BY <1>6 DEF vars, IInv, TypeOK, WorkersHold, Busy
  <2>2. \A j \in Jobs : JobKept(j) /\ (Named(j) /\ ActiveOnly(j) /\ Escapes(j))'
    BY <1>6 DEF vars, IInv, JobsHold, JobKept, Named, ActiveOnly, Escapes
  <2> QED
    BY <1>6, <2>1, <2>2, QuietPreserves DEF vars
<1> QED
  BY <1>1, <1>2, <1>3, <1>4, <1>5, <1>6 DEF Next

(* The inductive invariant holds of every behaviour. *)
THEOREM Invariance == Spec => []IInv
BY InitIInv, NextIInv, PTL DEF Spec

(* Every variable has its type, whatever workers, editors and revocations  *)
(* do.                                                                     *)
THEOREM TypeCorrect == Spec => []TypeOK
<1>1. IInv => TypeOK
  BY DEF IInv
<1> QED
  BY <1>1, Invariance, PTL

(* What a job publishes is what its user asked for, for ever. *)
THEOREM AlwaysPublishedAsRequested == Spec => []PublishedAsRequested
<1>1. IInv => PublishedAsRequested
  BY DEF IInv
<1> QED
  BY <1>1, Invariance, PTL

(* No two publishers win against one revision of the head. *)
THEOREM AlwaysOneWinner == Spec => []OneWinnerPerRevision
<1>1. IInv => OneWinnerPerRevision
  BY DEF IInv, Winners
<1> QED
  BY <1>1, Invariance, PTL

----------------------------------------------------------------------------
(* What every step does to the tasks, and to the channel *)

Quiet == UNCHANGED head /\ PublishedReleases' = PublishedReleases

(* The change of a job is one that FencedTasks knows. *)
TaskStep(j) == TaskOf(job'[j]) = TaskOf(job[j]) \/ Table!Step(TaskOf(job[j]), TaskOf(job'[j]))

(* The tasks' changes, as they look in records. *)
ATask(phase, holder, epoch, by) ==
  [phase |-> phase, holder |-> holder, epoch |-> epoch, by |-> by]

(* One change of a task after the other. *)
InPhase(t, phase) == [t EXCEPT !.phase = phase]
HeldBy(t, holder) == [t EXCEPT !.holder = holder]
InEpoch(t, epoch) == [t EXCEPT !.epoch = epoch]
DoneBy(t, by) == [t EXCEPT !.by = by]

(* A task with one field changed.                                          *)
LEMMA TaskChanges ==
  ASSUME NEW p, NEW h, NEW e, NEW b, NEW x
  PROVE  /\ InPhase(ATask(p, h, e, b), x) = ATask(x, h, e, b)
         /\ HeldBy(ATask(p, h, e, b), x) = ATask(p, x, e, b)
         /\ InEpoch(ATask(p, h, e, b), x) = ATask(p, h, x, b)
         /\ DoneBy(ATask(p, h, e, b), x) = ATask(p, h, e, x)
<1>1. InPhase(ATask(p, h, e, b), x) = ATask(x, h, e, b)
  BY DEF ATask, InPhase
<1>2. HeldBy(ATask(p, h, e, b), x) = ATask(p, x, e, b)
  BY DEF ATask, HeldBy
<1>3. InEpoch(ATask(p, h, e, b), x) = ATask(p, h, x, b)
  BY DEF ATask, InEpoch
<1>4. DoneBy(ATask(p, h, e, b), x) = ATask(p, h, e, x)
  BY DEF ATask, DoneBy
<1> QED
  BY <1>1, <1>2, <1>3, <1>4

(* Each kind of change is a step of FencedTasks; a task that is held is    *)
(* given back, finished or abandoned in the name of its holder.            *)
LEMMA TaskSteps ==
  ASSUME NEW h, NEW e, NEW b
  PROVE  /\ Table!Step(ATask("none", h, e, b), ATask("open", h, e, b))
         /\ Table!Step(ATask("open", 0, e, b), ATask("open", e + 1, e + 1, 0))
         /\ h # 0 => Table!Step(ATask("open", h, e, b), ATask("open", 0, e, b))
         /\ \A p \in Enqueued : h # 0 => Table!Step(ATask("open", h, e, b), ATask(p, 0, e, h))
         /\ Table!Step(ATask("open", h, e, b), ATask("abandoned", 0, e, b))
         /\ Table!Step(ATask("abandoned", h, e, b), ATask("open", h, e, b))
<1>0. /\ \A p, g : /\ ATask(p, g, e, b).phase = p /\ ATask(p, g, e, b).holder = g
                   /\ ATask(p, g, e, b).epoch = e
  BY DEF ATask
<1>1. Table!Submit(ATask("none", h, e, b), ATask("open", h, e, b))
  BY DEF Table!Submit, ATask
<1>2. Table!Grant(ATask("open", 0, e, b), ATask("open", e + 1, e + 1, 0))
  <2>1. DoneBy(InEpoch(HeldBy(ATask("open", 0, e, b), e + 1), e + 1), 0)
          = ATask("open", e + 1, e + 1, 0)
    BY TaskChanges
  <2> QED
    BY <1>0, <2>1, Zenon DEF Table!Grant, InEpoch, HeldBy, DoneBy
<1>3. h # 0 => Table!Lapse(ATask("open", h, e, b), ATask("open", 0, e, b))
  BY DEF Table!Lapse, ATask
<1>4. ASSUME NEW p \in Enqueued, h # 0
      PROVE  Table!Settle(ATask("open", h, e, b), ATask(p, 0, e, h))
  <2> SUFFICES ASSUME NEW t, t = ATask("open", h, e, b)
               PROVE  Table!Settle(t, ATask(p, 0, e, h))
    OBVIOUS
  <2>1. DoneBy(HeldBy(InPhase(t, p), 0), t.holder) = ATask(p, 0, e, h)
    BY <1>0, TaskChanges
  <2>2. ATask(p, 0, e, h) = [t EXCEPT !.phase = p, !.holder = 0, !.by = t.holder]
    BY <2>1, Zenon DEF InPhase, HeldBy, DoneBy
  <2>3. t.phase = "open" /\ t.holder # 0 /\ p \in {"open", "finished", "abandoned"}
    BY <1>0, <1>4 DEF Enqueued
  <2> QED
    BY <2>2, <2>3, Zenon DEF Table!Settle
<1>5. Table!Abandon(ATask("open", h, e, b), ATask("abandoned", 0, e, b))
  <2>1. HeldBy(InPhase(ATask("open", h, e, b), "abandoned"), 0) = ATask("abandoned", 0, e, b)
    BY TaskChanges
  <2> QED
    BY <1>0, <2>1, Zenon DEF Table!Abandon, InPhase, HeldBy
<1>6. Table!Reopen(ATask("abandoned", h, e, b), ATask("open", h, e, b))
  BY DEF Table!Reopen, ATask
<1> QED
  BY <1>1, <1>2, <1>3, <1>4, <1>5, <1>6 DEF Table!Step

(* A worker that settles gives its job back, finishes or abandons it, and  *)
(* the lease it does that under is its own.                                *)
LEMMA SettledIsTaskStep ==
  ASSUME IInv, NEW w \in Workers, worker[w].at # "idle", NEW phase \in Enqueued,
         job' = Settled(w, phase)
  PROVE  \A j \in Jobs : TaskStep(j)
<1> DEFINE i == worker[w].job
           u == [job[i] EXCEPT !.phase = phase, !.holder = 0, !.by = worker[w].epoch]
<1>1. CASE job' = job
  BY <1>1 DEF TaskStep
<1>2. CASE Held(w) /\ job[i].phase = "open" /\ job' = [job EXCEPT ![i] = u]
  <2>1. i \in Jobs /\ job \in [Jobs -> Task] /\ job[i].holder # 0 /\ job[i].holder = worker[w].epoch
    BY <1>2 DEF IInv, TypeOK, WorkersHold, Busy, Held, Goroutine
  <2>2. job'[i] = u /\ \A j \in Jobs \ {i} : job'[j] = job[j]
    BY <1>2, <2>1
  <2>3. /\ TaskOf(job[i]) = ATask("open", job[i].holder, job[i].epoch, job[i].by)
        /\ TaskOf(u) = ATask(phase, 0, job[i].epoch, job[i].holder)
    BY <1>2, <2>1 DEF TaskOf, Task, Enqueued, ATask
  <2>4. Table!Step(TaskOf(job[i]), TaskOf(u))
    BY <2>1, <2>3, TaskSteps
  <2> QED
    BY <2>2, <2>4 DEF TaskStep
<1> QED
  BY <1>1, <1>2, SettledShape

(* What is proved of each step: it is one of FencedTasks', and it leaves   *)
(* the channel and the winners alone.                                      *)
Silent == (\A j \in Jobs : TaskStep(j)) /\ Quiet /\ Finished' = Finished

(* A step that leaves the jobs and the packages alone is silent. *)
LEMMA IdleIsSilent == UNCHANGED <<pkg, head, job>> => Silent
BY DEF Silent, TaskStep, Quiet, PublishedReleases, Finished

(* So is one that changes one task and finishes none. *)
LEMMA OneTaskIsSilent ==
  ASSUME IInv, NEW j \in Jobs, NEW u \in Task, job' = [job EXCEPT ![j] = u], UNCHANGED <<pkg, head>>,
         TaskOf(u) = TaskOf(job[j]) \/ Table!Step(TaskOf(job[j]), TaskOf(u)),
         job[j].phase # "finished" /\ u.phase # "finished"
  PROVE  Silent
<1>1. job'[j] = u /\ \A i \in Jobs \ {j} : job'[i] = job[i]
  BY DEF IInv, TypeOK
<1>2. \A i \in Jobs : TaskStep(i)
  BY <1>1 DEF TaskStep
<1>3. Finished' = Finished
  BY <1>1 DEF Finished
<1> QED
  BY <1>2, <1>3 DEF Silent, Quiet, PublishedReleases

(* Requests and retries submit and reopen tasks. *)
LEMMA CallerIsSilent == IInv /\ Caller => Silent
<1> SUFFICES ASSUME IInv, Caller PROVE Silent
  OBVIOUS
<1>0. pkg \in [Releases -> Package] /\ job \in [Jobs -> Task] /\ head.revision \in Nat
  BY DEF IInv, TypeOK
<1>1. ASSUME NEW j \in Jobs, NEW r \in Releases, Request(j, r) PROVE Silent
  <2> DEFINE u == [NewTask EXCEPT !.phase = "requested", !.release = r,
                                  !.status = pkg[r].status, !.meta = pkg[r].meta]
  <2>1. job' = [job EXCEPT ![j] = u] /\ UNCHANGED <<pkg, head>> /\ job[j].phase = "none"
        /\ pkg[r].status \in Drafts /\ pkg[r].meta \in Versions
    BY <1>0, <1>1 DEF Request, Package
  <2>2. u \in Task /\ u.phase = "requested" /\ u.holder = 0 /\ u.epoch = 0 /\ u.by = 0
    BY <2>1 DEF NewTask, Task
  <2>3. job[j].holder = 0 /\ job[j].epoch = 0 /\ job[j].by = 0
    BY <2>1 DEF IInv, JobsHold, Named, ActiveOnly
  <2>4. TaskOf(u) = TaskOf(job[j])
    BY <2>1, <2>2, <2>3 DEF TaskOf
  <2> QED
    BY <2>1, <2>2, <2>4, OneTaskIsSilent
<1>2. ASSUME NEW j \in Jobs, Enqueue(j) PROVE Silent
  <2> DEFINE u == [job[j] EXCEPT !.phase = "open", !.head = head.revision]
  <2>1. /\ u \in Task /\ u.phase = "open" /\ u.holder = job[j].holder /\ u.epoch = job[j].epoch
        /\ u.by = job[j].by
        /\ job' = [job EXCEPT ![j] = u] /\ UNCHANGED <<pkg, head>> /\ job[j].phase = "requested"
    BY <1>0, <1>2 DEF Enqueue, Task
  <2>2. /\ TaskOf(job[j]) = ATask("none", job[j].holder, job[j].epoch, job[j].by)
        /\ TaskOf(u) = ATask("open", job[j].holder, job[j].epoch, job[j].by)
    BY <2>1 DEF TaskOf, ATask
  <2>3. Table!Step(TaskOf(job[j]), TaskOf(u))
    BY <2>1, <2>2, TaskSteps
  <2> QED
    BY <2>1, <2>3, OneTaskIsSilent
<1>3. ASSUME NEW j \in Jobs, Retry(j) PROVE Silent
  <2> DEFINE u == [job[j] EXCEPT !.phase = "open"]
  <2>1. /\ u \in Task /\ u.phase = "open" /\ u.holder = job[j].holder /\ u.epoch = job[j].epoch
        /\ u.by = job[j].by
        /\ job' = [job EXCEPT ![j] = u] /\ UNCHANGED <<pkg, head>> /\ job[j].phase = "abandoned"
    BY <1>0, <1>3 DEF Retry, Task
  <2>2. /\ TaskOf(job[j]) = ATask("abandoned", job[j].holder, job[j].epoch, job[j].by)
        /\ TaskOf(u) = ATask("open", job[j].holder, job[j].epoch, job[j].by)
    BY <2>1 DEF TaskOf, ATask
  <2>3. Table!Step(TaskOf(job[j]), TaskOf(u))
    BY <2>1, <2>2, TaskSteps
  <2> QED
    BY <2>1, <2>3, OneTaskIsSilent
<1> QED
  BY <1>1, <1>2, <1>3 DEF Caller

(* Leases grant, lapse and abandon tasks. *)
LEMMA JobLeasesAreSilent ==
  ASSUME IInv, NEW j \in Jobs,
         (\E w \in Workers : LeaseJob(w, j)) \/ JobLapses(j) \/ JobEnds(j)
  PROVE  Silent
<1>0. job \in [Jobs -> Task]
  BY DEF IInv, TypeOK
<1>1. ASSUME NEW w \in Workers, LeaseJob(w, j) PROVE Silent
  <2> DEFINE u == [job[j] EXCEPT !.holder = job[j].epoch + 1, !.epoch = @ + 1, !.by = 0]
  <2>1. /\ u \in Task /\ u.phase = "open" /\ u.holder = job[j].epoch + 1 /\ u.epoch = job[j].epoch + 1
        /\ u.by = 0
        /\ job' = [job EXCEPT ![j] = u] /\ UNCHANGED <<pkg, head>>
        /\ job[j].phase = "open" /\ job[j].holder = 0
    BY <1>0, <1>1 DEF LeaseJob, Task
  <2>2. /\ TaskOf(job[j]) = ATask("open", 0, job[j].epoch, job[j].by)
        /\ TaskOf(u) = ATask("open", job[j].epoch + 1, job[j].epoch + 1, 0)
    BY <2>1 DEF TaskOf, ATask
  <2>3. Table!Step(TaskOf(job[j]), TaskOf(u))
    BY <2>1, <2>2, TaskSteps
  <2> QED
    BY <2>1, <2>3, OneTaskIsSilent
<1>2. CASE JobLapses(j)
  <2> DEFINE u == [job[j] EXCEPT !.holder = 0]
  <2>1. /\ u \in Task /\ u.phase = job[j].phase /\ u.holder = 0 /\ u.epoch = job[j].epoch
        /\ u.by = job[j].by
        /\ job' = [job EXCEPT ![j] = u] /\ UNCHANGED <<pkg, head>>
        /\ job[j].phase = "open" /\ job[j].holder # 0
    BY <1>0, <1>2 DEF JobLapses, Task, IInv, JobsHold, ActiveOnly
  <2>2. /\ TaskOf(job[j]) = ATask("open", job[j].holder, job[j].epoch, job[j].by)
        /\ TaskOf(u) = ATask("open", 0, job[j].epoch, job[j].by)
    BY <2>1 DEF TaskOf, ATask
  <2>3. Table!Step(TaskOf(job[j]), TaskOf(u))
    BY <2>1, <2>2, TaskSteps
  <2> QED
    BY <2>1, <2>3, OneTaskIsSilent
<1>3. CASE JobEnds(j)
  <2> DEFINE u == [job[j] EXCEPT !.phase = "abandoned"]
  <2>1. /\ u \in Task /\ u.phase = "abandoned" /\ u.holder = 0 /\ u.epoch = job[j].epoch
        /\ u.by = job[j].by
        /\ job' = [job EXCEPT ![j] = u] /\ UNCHANGED <<pkg, head>>
        /\ job[j].phase = "open" /\ job[j].holder = 0
    BY <1>0, <1>3 DEF JobEnds, Task
  <2>2. /\ TaskOf(job[j]) = ATask("open", 0, job[j].epoch, job[j].by)
        /\ TaskOf(u) = ATask("abandoned", 0, job[j].epoch, job[j].by)
    BY <2>1 DEF TaskOf, ATask
  <2>3. Table!Step(TaskOf(job[j]), TaskOf(u))
    BY <2>1, <2>2, TaskSteps
  <2> QED
    BY <2>1, <2>3, OneTaskIsSilent
<1> QED
  BY <1>1, <1>2, <1>3

(* A worker that gives its job back or up lapses or abandons the task.     *)
LEMMA SettledIsSilent ==
  ASSUME IInv, NEW w \in Workers, worker[w].at # "idle", NEW phase \in {"open", "abandoned"},
         job' = Settled(w, phase), UNCHANGED <<pkg, head>>
  PROVE  Silent
<1>1. \A j \in Jobs : TaskStep(j)
  BY SettledIsTaskStep DEF Enqueued
<1>2. Finished' = Finished
  <2>1. CASE job' = job
    BY <2>1 DEF Finished
  <2>2. CASE Held(w) /\ job[worker[w].job].phase = "open"
             /\ job' = [job EXCEPT ![worker[w].job] =
                          [job[worker[w].job] EXCEPT !.phase = phase, !.holder = 0, !.by = worker[w].epoch]]
    <3>1. worker[w].job \in Jobs /\ job \in [Jobs -> Task]
      BY DEF IInv, TypeOK, WorkersHold, Busy
    <3>2. job'[worker[w].job].phase = phase
          /\ \A j \in Jobs \ {worker[w].job} : job'[j] = job[j]
      BY <2>2, <3>1 DEF Task
    <3> QED
      BY <2>2, <3>1, <3>2 DEF Finished
  <2> QED
    BY <2>1, <2>2, SettledShape DEF Enqueued
<1> QED
  BY <1>1, <1>2 DEF Silent, Quiet, PublishedReleases

(* So does a comparison that fails. *)
LEMMA CompareIsSilent ==
  ASSUME IInv, NEW w \in Workers, NEW from \in Places \ {"idle"}, NEW ok,
         NEW to, NEW exit, Compare(w, from, ok, to, exit)
  PROVE  Silent
<1>1. worker[w].at # "idle" /\ UNCHANGED <<pkg, head>> /\ (job' = job \/ job' = Settled(w, "abandoned"))
  BY DEF Compare
<1> QED
  BY <1>1, IdleIsSilent, SettledIsSilent

(* A worker's steps but for a commit that succeeds. *)
LEMMA WorkIsSilent ==
  ASSUME IInv, NEW w \in Workers, Execution(w), ~CommitDurablePublish(w)
  PROVE  Silent
<1>1. CASE \E j \in Jobs : LeaseJob(w, j)
  BY <1>1, JobLeasesAreSilent
<1>2. CASE Authorize(w) \/ Inspect(w) \/ CompareHead(w) \/ CheckEvidence(w) \/ Reauthorize(w)
  BY <1>2, CompareIsSilent DEF Authorize, Inspect, CompareHead, CheckEvidence, Reauthorize, Places
<1>3. CASE AcquireScope(w) \/ LostAtCommit(w) \/ Leave(w) \/ GiveUp(w) \/ Crash(w)
  BY <1>3, IdleIsSilent DEF AcquireScope, LostAtCommit, Leave, GiveUp, Crash
<1>4. CASE ScopeIsBusy(w) \/ ConflictAtCommit(w)
  BY <1>4, SettledIsSilent DEF ScopeIsBusy, ConflictAtCommit, Commits
<1> QED
  BY <1>1, <1>2, <1>3, <1>4 DEF Execution

(* Editors neither publish a package nor take one back. *)
LEMMA EditorsAreSilent == IInv /\ Editors => Silent
<1> SUFFICES ASSUME IInv, Editors PROVE Silent
  OBVIOUS
<1>0. pkg \in [Releases -> Package]
  BY DEF IInv, TypeOK
<1>1. UNCHANGED <<head, job>>
  BY DEF Editors, ChangePackage, CheckPackage, UpdateVersionStatus
<1> DEFINE Edited == \A q \in Releases : pkg'[q].status = "published" <=> pkg[q].status = "published"
<1>2. Edited
  <2>1. ASSUME NEW r \in Releases, ChangePackage(r) PROVE Edited
    BY <1>0, <2>1 DEF ChangePackage, Package
  <2>2. ASSUME NEW r \in Releases, NEW m \in {0} \cup Versions, CheckPackage(r, m) PROVE Edited
    BY <1>0, <2>2 DEF CheckPackage, Package
  <2>3. ASSUME NEW r \in Releases, NEW s \in Drafts, UpdateVersionStatus(r, s) PROVE Edited
    BY <1>0, <2>3 DEF UpdateVersionStatus, Package, Drafts
  <2> QED
    BY <2>1, <2>2, <2>3 DEF Editors
<1>3. PublishedReleases' = PublishedReleases
  BY <1>2 DEF PublishedReleases
<1> QED
  BY <1>1, <1>3 DEF Silent, TaskStep, Quiet, Finished

(* A revocation abandons the jobs it has doomed. *)
LEMMA TriggersAreSilent == IInv /\ Triggers => Silent
<1> SUFFICES ASSUME IInv, Triggers PROVE Silent
  OBVIOUS
<1>0. job \in [Jobs -> Task]
  BY DEF IInv, TypeOK
<1>1. ASSUME NEW a \in Actors, NEW outcome, RevokeCommit(a, outcome) PROVE Silent
  <2>1. ASSUME NEW j \in Jobs PROVE TaskStep(j) /\ (job[j].phase = "finished" <=> job'[j].phase = "finished")
    <3>1. CASE j \in doomed \cap JobsOf(a)
      <4>1. /\ job[j].phase = "open"
            /\ job'[j].phase = "abandoned" /\ job'[j].holder = 0 /\ job'[j].epoch = job[j].epoch
            /\ job'[j].by = job[j].by
        BY <1>0, <1>1, <3>1 DEF RevokeCommit, Task, IInv, JobsHold, ActiveOnly
      <4>2. /\ TaskOf(job[j]) = ATask("open", job[j].holder, job[j].epoch, job[j].by)
            /\ TaskOf(job'[j]) = ATask("abandoned", 0, job[j].epoch, job[j].by)
        BY <4>1 DEF TaskOf, ATask
      <4>3. Table!Step(TaskOf(job[j]), TaskOf(job'[j]))
        BY <4>2, TaskSteps
      <4> QED
        BY <4>1, <4>3 DEF TaskStep
    <3>2. CASE j \notin doomed \cap JobsOf(a)
      BY <1>0, <1>1, <3>2 DEF RevokeCommit, TaskStep
    <3> QED
      BY <3>1, <3>2
  <2> QED
    BY <1>1, <2>1 DEF Silent, Quiet, PublishedReleases, Finished, RevokeCommit
<1>2. ASSUME NEW a \in Actors, RevokeJobs(a) \/ RevokeAbort(a) PROVE Silent
  BY <1>2, IdleIsSilent DEF RevokeJobs, RevokeAbort
<1> QED
  BY <1>1, <1>2 DEF Triggers

(* A step is silent, or it is a commit. *)
LEMMA StepKinds == IInv /\ [Next]_vars => Silent \/ \E w \in Workers : CommitDurablePublish(w)
<1> SUFFICES ASSUME IInv, [Next]_vars, ~ \E w \in Workers : CommitDurablePublish(w)
             PROVE  Silent
  OBVIOUS
<1>1. CASE Caller
  BY <1>1, CallerIsSilent
<1>2. ASSUME NEW w \in Workers, Execution(w) PROVE Silent
  BY <1>2, WorkIsSilent
<1>3. CASE Leases
  BY <1>3, JobLeasesAreSilent, IdleIsSilent DEF Leases, ScopeLapses
<1>4. CASE Editors
  BY <1>4, EditorsAreSilent
<1>5. CASE Triggers
  BY <1>5, TriggersAreSilent
<1>6. CASE UNCHANGED vars
  BY <1>6, IdleIsSilent DEF vars
<1> QED
  BY <1>1, <1>2, <1>3, <1>4, <1>5, <1>6 DEF Next

(* A commit publishes one package, finishes one task, and its job is late  *)
(* if its user is not granted access.                                      *)
LEMMA CommitSteps ==
  ASSUME IInv, NEW w \in Workers, CommitDurablePublish(w)
  PROVE  /\ \A j \in Jobs : TaskStep(j)
         /\ \E r \in Releases : Channel!Publish(r)
         /\ \A j \in Jobs : /\ job[j].phase # "finished" /\ job'[j].phase = "finished"
                            /\ access[ActorOf[j]] # "granted"
                            => j \in late
<1>1. PICK j \in Jobs, r \in Releases :
        /\ j \notin doomed /\ job[j].phase = "open" /\ pkg[r].status # "published"
        /\ \A i \in Jobs \ {j} : job'[i] = job[i]
        /\ pkg' = [pkg EXCEPT ![r].status = "published"]
        /\ head' = [revision |-> head.revision + 1, release |-> r]
  <2> DEFINE i == worker[w].job
             q == job[i].release
  <2>1. /\ i \in Jobs /\ q \in Releases /\ i \notin doomed /\ job[i].phase = "open"
        /\ pkg[q].status # "published"
        /\ \E u \in Task : job' = [job EXCEPT ![i] = u]
        /\ pkg' = [pkg EXCEPT ![q].status = "published"]
        /\ head' = [revision |-> head.revision + 1, release |-> q]
    BY CommitShape
  <2>2. \A k \in Jobs \ {i} : job'[k] = job[k]
    BY <2>1 DEF IInv, TypeOK
  <2> HIDE DEF i, q
  <2> QED
    BY <2>1, <2>2, Zenon
<1>2. \A i \in Jobs : TaskStep(i)
  BY SettledIsTaskStep DEF CommitDurablePublish, Commits, Enqueued
<1>3. Channel!Publish(r)
  <2>1. r \notin PublishedReleases /\ PublishedReleases' = PublishedReleases \cup {r}
    BY <1>1 DEF PublishedReleases, IInv, TypeOK, Package
  <2> QED
    BY <1>1, <2>1 DEF Channel!Publish
<1>4. Escapes(j)
  BY DEF IInv, JobsHold
<1> QED
  BY <1>1, <1>2, <1>3, <1>4 DEF Escapes

(* Whoever was active when a revocation updated does not publish after it. *)
THEOREM OnlyLateJobsAlwaysEscape == Spec => OnlyLateJobsEscape
<1>1. IInv /\ [Next]_vars =>
        [\A j \in Jobs :
           job[j].phase # "finished" /\ job'[j].phase = "finished" /\ access[ActorOf[j]] # "granted"
             => j \in late]_vars
  <2> SUFFICES ASSUME IInv, [Next]_vars, NEW j \in Jobs, job[j].phase # "finished",
                      job'[j].phase = "finished", access[ActorOf[j]] # "granted"
               PROVE  j \in late
    OBVIOUS
  <2>1. ~Silent
    BY DEF Silent, Finished
  <2> QED
    BY <2>1, StepKinds, CommitSteps
<1> QED
  BY <1>1, Invariance, PTL DEF Spec, OnlyLateJobsEscape

(* Launchers see a channel whose head only ever moves on, to a release     *)
(* never published before.                                                 *)
THEOREM ChannelImplemented == Spec => ImplementsReleaseChannel
<1>1. Init => Channel!Init
  BY DEF Init, Channel!Init, PublishedReleases, NewPackage
<1>2. IInv /\ [Next]_vars => [Channel!Next]_<<head.revision, head.release, PublishedReleases>>
  <2> SUFFICES ASSUME IInv, [Next]_vars
               PROVE  [Channel!Next]_<<head.revision, head.release, PublishedReleases>>
    OBVIOUS
  <2>1. CASE Silent
    BY <2>1 DEF Silent, Quiet
  <2>2. CASE \E w \in Workers : CommitDurablePublish(w)
    BY <2>2, CommitSteps DEF Channel!Next
  <2> QED
    BY <2>1, <2>2, StepKinds
<1> QED
  BY <1>1, <1>2, Invariance, PTL DEF Spec, ImplementsReleaseChannel, Channel!Spec

(* Nobody settles a job but under the lease it was given itself: the       *)
(* worker keeps the promise the job table makes.                           *)
THEOREM TasksImplemented == Spec => ImplementsFencedTasks
<1> DEFINE task == [j \in Jobs |-> TaskOf(job[j])]
<1>1. Init => Table!Init
  BY DEF Init, Table!Init, Table!FreshTask, TaskOf, NewTask
<1>2. IInv /\ [Next]_vars => [Table!Next]_task
  <2> SUFFICES ASSUME IInv, [Next]_vars PROVE Table!Next
    OBVIOUS
  <2>1. \A j \in Jobs : TaskStep(j)
    BY StepKinds, CommitSteps DEF Silent
  <2> QED
    BY <2>1 DEF Table!Next, TaskStep
<1> QED
  BY <1>1, <1>2, Invariance, PTL DEF Spec, ImplementsFencedTasks, Table!Spec
====

---- MODULE ChannelRollback_proofs ----
(***************************************************************************)
(* Proofs about ChannelRollback, for any rollbacks, publish jobs, workers  *)
(* and attempts.                                                           *)
(*                                                                         *)
(* Leases and locks run out under workers that go on, so neither says who  *)
(* writes: what makes the two properties hold is that a release is         *)
(* published once (ReleaseHolds), that nothing makes a draft of it again   *)
(* (PublishHolds), that of one worker alone what it has read of the        *)
(* release is still so, and that between its check and its last read only  *)
(* its own publish job or an excused one can have published (WorkerHolds). *)
(***************************************************************************)
EXTENDS ChannelRollback, FiniteSetTheorems, TLAPS

----------------------------------------------------------------------------
(* The inductive invariant *)

Signed(p) == release[p].status \notin {"absent", "draft"}

(* A release that became the head, at whichever revision, is published.    *)
ReleaseHolds(p) == release[p].status = "published" <=> release[p].at # 0

HeadHolds == head.package # None => release[head.package].at = head.revision

(* Published over the head that was expected, or while nobody looked.      *)
Replaced(r) == r \in slipped \/ release[r].at = rollback[r].expects + 1

RollbackHolds(r) == rollback[r].phase = "succeeded" => Replaced(r)

(* What is enqueued was signed, for the rollback's head, and one worker    *)
(* alone does not sign again.                                              *)
PublishHolds(r) ==
  publish[r].phase # "none" =>
    /\ Signed(r) /\ rollback[r].phase # "none"
    /\ publish[r].package = r /\ publish[r].expects = rollback[r].expects
    /\ r \notin excused => release[r].content = publish[r].content

AskedFor(j) == publish[j].phase # "none" => publish[j].package \in Packages

WorkerHolds(w) ==
  /\ worker[w].at = "idle" => worker[w] = Idle
  /\ worker[w].at # "idle" => Job(w) \in Rollbacks /\ rollback[Job(w)].phase # "none"
  /\ worker[w].already => Job(w) \in Rollbacks /\ Own(w).at = rollback[Job(w)].expects + 1
  /\ worker[w].published => Job(w) \in Rollbacks /\ Replaced(Job(w))
  /\ worker[w].at = "checked" => Signed(Job(w)) /\ (Own(w).at # 0 => Replaced(Job(w)))
  /\ worker[w].at \in {"staged", "considered"} =>
       /\ Signed(Job(w))
       /\ Job(w) \notin excused => worker[w].content = Own(w).content
  /\ worker[w].at \in {"opened", "copied"} /\ worker[w].draft /\ Job(w) \notin excused =>
       publish[Job(w)].phase = "none"

(* Rollbacks that are not excused have one worker at most.                 *)
AloneHolds ==
  \A v, w \in Workers : Job(v) = Job(w) /\ Job(v) \in Rollbacks \ excused => v = w

IInv == /\ TypeOK /\ HeadHolds /\ AloneHolds
        /\ \A p \in Packages : ReleaseHolds(p) /\ AskedFor(p)
        /\ \A r \in Rollbacks : RollbackHolds(r) /\ PublishHolds(r)
        /\ \A w \in Workers : WorkerHolds(w)

----------------------------------------------------------------------------
(* What a step leaves alone *)

(* Two workers of one rollback are recorded as such.                       *)
Together == \A v, w \in Workers : v # w /\ Job(v) = Job(w) /\ Job(v) \in Rollbacks => Job(v) \in Shared

(* Two of a finite set of workers are more than one, which Shared counts.  *)
LEMMA TwoAreShared == Together
<1> SUFFICES ASSUME NEW v \in Workers, NEW w \in Workers, v # w, Job(v) = Job(w), Job(v) \in Rollbacks
             PROVE  Job(v) \in Shared
  BY DEF Together
<1> DEFINE S == {u \in Workers : worker[u].job = Job(v)}
<1>1. IsFiniteSet(S) /\ v \in S /\ w \in S
  BY RollbackAssumption, FS_Subset DEF Job
<1>2. Cardinality({v} \cup {w}) = 2
  <2>1. IsFiniteSet({v}) /\ Cardinality({v}) = 1
    BY FS_Singleton
  <2>2. w \notin {v}
    OBVIOUS
  <2>3. Cardinality({v} \cup {w}) = Cardinality({v}) + 1
    BY <2>1, <2>2, FS_AddElement
  <2> QED BY <2>1, <2>3
<1>3. Cardinality({v} \cup {w}) <= Cardinality(S) /\ Cardinality(S) \in Nat
  BY <1>1, FS_Subset, FS_CardinalityType
<1> QED BY <1>2, <1>3 DEF Shared

(* After a step, too.                                                      *)
LEMMA TwoAreSharedNext == Together'
BY TwoAreShared, PTL

(* What is recorded is of rollbacks.                                       *)
LEMMA HistoryTyped ==
  ASSUME IInv, Recorded
  PROVE  excused' \cup slipped' \subseteq Rollbacks
BY DEF IInv, TypeOK, Recorded, Shared, Rekeyed, Slipping

(* Recorded once, always recorded.                                         *)
LEMMA HistoryGrows == Recorded => excused \subseteq excused' /\ slipped \subseteq slipped'
BY DEF Recorded

(* While a rollback's row and revision stay, so does what is said of them. *)
LEMMA ReplacedStays ==
  ASSUME NEW r \in Rollbacks, Recorded, UNCHANGED rollback, release'[r].at = release[r].at
  PROVE  Replaced(r) => Replaced(r)'
BY DEF Recorded, Replaced

(* What no step undoes; only the worker w changes its rollback's release,  *)
(* or enqueues it.                                                         *)
Keeps(w) ==
  /\ Recorded
  /\ \A p \in Packages :
       /\ release[p].at # 0 => release'[p].at = release[p].at
       /\ Signed(p) => Signed(p)'
       /\ publish[p].phase # "none" =>
            /\ publish'[p].phase # "none" /\ publish'[p].content = publish[p].content
            /\ publish'[p].package = publish[p].package /\ publish'[p].expects = publish[p].expects
  /\ \A v \in Workers :
       worker[v].at = "checked" /\ Job(v) \in Rollbacks /\ Own(v).at = 0 /\ release'[Job(v)].at # 0 =>
         Job(v) \in slipped' \/ release'[Job(v)].at = rollback[Job(v)].expects + 1
  /\ \A r \in Rollbacks :
       /\ rollback[r].phase # "none" => rollback'[r].phase # "none" /\ rollback'[r].expects = rollback[r].expects
       /\ rollback'[r].phase = "succeeded" =>
            \/ rollback[r].phase = "succeeded"
            \/ rollback[r].phase # "none" /\ Replaced(r)
       /\ \/ w \in Workers /\ r = Job(w)
          \/ /\ release'[r].content = release[r].content
             /\ publish[r].phase = "none" => publish'[r].phase = "none"

(* A step that keeps what the others rely on need only look at its own worker. *)
LEMMA OthersKept ==
  ASSUME IInv, TypeOK', NEW w \in Workers \cup {NoOne}, Keeps(w), HeadHolds',
         \A p \in Packages : ReleaseHolds(p)' /\ AskedFor(p)',
         \A v \in Workers \ {w} : worker'[v] = worker[v],
         w \in Workers => WorkerHolds(w)' /\ \A r \in Rollbacks : r = Job(w) => PublishHolds(r)'
  PROVE  IInv'
<1>1. /\ \A p \in Packages : release[p] \in Release /\ release'[p] \in Release
      /\ \A r \in Rollbacks : rollback[r] \in Rollback
      /\ Rollbacks \subseteq Packages
  BY DEF IInv, TypeOK, Packages
<1>2. AloneHolds'
  <2> SUFFICES ASSUME NEW u \in Workers, NEW v \in Workers, Job(u)' = Job(v)', Job(u)' \in Rollbacks \ excused', u # v
               PROVE  FALSE
    BY DEF AloneHolds
  <2>1. Job(u)' \in Shared'
    BY TwoAreSharedNext DEF Together
  <2> QED BY <2>1 DEF Keeps, Recorded
<1>0. ASSUME NEW r \in Rollbacks, rollback[r].phase # "none", Replaced(r) PROVE Replaced(r)'
  <2>1. rollback[r].expects \in Nat
    BY <1>1 DEF Rollback
  <2> QED BY <1>0, <1>1, <2>1 DEF Replaced, Keeps, Recorded
<1>3. ASSUME NEW r \in Rollbacks PROVE RollbackHolds(r)'
  <2>1. RollbackHolds(r)
    BY DEF IInv
  <2> QED BY <1>0, <2>1 DEF RollbackHolds, Keeps
<1>4. ASSUME NEW r \in Rollbacks PROVE PublishHolds(r)'
  <2>1. CASE w \in Workers /\ r = Job(w)
    BY <2>1
  <2>2. CASE ~(w \in Workers /\ r = Job(w))
    <3>1. PublishHolds(r) /\ r \in Packages
      BY <1>1 DEF IInv
    <3>2. /\ release'[r].content = release[r].content
          /\ publish'[r].phase # "none" =>
               /\ publish[r].phase # "none" /\ publish'[r].content = publish[r].content
               /\ publish'[r].package = publish[r].package /\ publish'[r].expects = publish[r].expects
          /\ rollback[r].phase # "none" => rollback'[r].phase # "none" /\ rollback'[r].expects = rollback[r].expects
          /\ Signed(r) => Signed(r)'
          /\ r \notin excused' => r \notin excused
      BY <2>2, <3>1 DEF Keeps, Recorded
    <3> QED BY <3>1, <3>2 DEF PublishHolds
  <2> QED BY <2>1, <2>2
<1>5. ASSUME NEW v \in Workers PROVE WorkerHolds(v)'
  <2>1. CASE v = w
    BY <2>1
  <2>2. CASE v # w
    <3>1. worker'[v] = worker[v] /\ Job(v)' = Job(v) /\ WorkerHolds(v)
      BY <2>2 DEF Job, IInv
    <3>2. CASE worker[v].at = "idle"
      <4>1. worker[v].already = FALSE /\ worker[v].published = FALSE
        BY <3>1, <3>2 DEF WorkerHolds, Idle
      <4> QED BY <3>1, <3>2, <4>1 DEF WorkerHolds
    <3>3. CASE worker[v].at # "idle"
      <4> PICK r \in Rollbacks : r = Job(v)
        BY <3>1, <3>3 DEF WorkerHolds
      <4>1. /\ rollback'[r].phase # "none" /\ rollback'[r].expects = rollback[r].expects
            /\ r \in Packages /\ rollback[r].expects \in Nat
        BY <1>1, <3>1, <3>3 DEF WorkerHolds, Keeps, Rollback
      <4>2. worker[v].already => release'[r].at = rollback'[r].expects + 1
        BY <1>1, <3>1, <4>1 DEF WorkerHolds, Keeps, Own
      <4>3. /\ Signed(r) => Signed(r)'
            /\ r \notin excused' => r \notin excused
            /\ Replaced(r) => Replaced(r)'
        BY <1>0, <3>1, <3>3, <4>1 DEF Keeps, Recorded, WorkerHolds
      <4>4. r \notin excused => /\ release'[r].content = release[r].content
                                /\ publish[r].phase = "none" => publish'[r].phase = "none"
        BY <2>2 DEF Keeps, IInv, AloneHolds
      <4>5. worker[v].at = "checked" /\ release'[r].at # 0 => Replaced(r)'
        <5>1. CASE release[r].at # 0
          BY <3>1, <4>3, <5>1 DEF WorkerHolds, Own
        <5>2. CASE release[r].at = 0
          BY <4>1, <5>2 DEF Keeps, Replaced, Own
        <5> QED BY <5>1, <5>2
      <4>6. /\ Job(v)' = r /\ Own(v) = release[r] /\ Own(v)' = release'[r]
            /\ Replaced(Job(v))' <=> Replaced(r)'
            /\ Signed(Job(v))' <=> Signed(r)'
        BY <3>1 DEF Own, Replaced, Signed
      <4>7. worker[v].already => Own(v)'.at = rollback'[Job(v)'].expects + 1
        BY <4>2, <4>6
      <4>8. /\ worker[v].published => Replaced(Job(v))'
            /\ worker[v].at = "checked" => Signed(Job(v))' /\ (Own(v)'.at # 0 => Replaced(Job(v))')
        BY <3>1, <4>3, <4>5, <4>6 DEF WorkerHolds
      <4>9. worker[v].at \in {"staged", "considered"} => Signed(Job(v))'
        BY <3>1, <4>3, <4>6 DEF WorkerHolds
      <4>10. worker[v].at \in {"staged", "considered"} /\ r \notin excused' =>
               worker[v].content = Own(v)'.content
        BY <3>1, <4>3, <4>4, <4>6 DEF WorkerHolds
      <4>11. worker[v].at \in {"opened", "copied"} /\ worker[v].draft /\ r \notin excused' =>
               publish'[r].phase = "none"
        BY <3>1, <4>3, <4>4, <4>6 DEF WorkerHolds
      <4> QED BY <3>1, <3>3, <4>1, <4>6, <4>7, <4>8, <4>9, <4>10, <4>11 DEF WorkerHolds
    <3> QED BY <3>2, <3>3
  <2> QED BY <2>1, <2>2
<1> QED BY <1>2, <1>3, <1>4, <1>5 DEF IInv


----------------------------------------------------------------------------
(* The worker's turn *)

(* What its rollback becomes: another phase, of what has begun; it is said *)
(* to have succeeded only over the head that was expected.                 *)
Phases == {"none", "pending", "running"} \cup Ended

RollbackMoves(w) ==
  \/ rollback' = rollback
  \/ \E phase \in Phases \ {"none"} :
       /\ rollback' = [rollback EXCEPT ![Job(w)].phase = phase, ![Job(w)].leased = FALSE]
       /\ phase = "succeeded" => Replaced(Job(w))

(* What its release becomes: never published, or a draft again, and signed *)
(* only by who found a draft.                                              *)
ReleaseMoves(w) ==
  /\ release' \in [Packages -> Release]
  /\ \A p \in Packages \ {Job(w)} : release'[p] = release[p]
  /\ LET new == release'[Job(w)] IN
     /\ new.at = Own(w).at /\ (new.status = "published" <=> Own(w).status = "published")
     /\ Signed(Job(w)) => new.status \notin {"absent", "draft"}
     /\ \/ new.content = Own(w).content
        \/ worker[w].at = "copied" /\ (worker[w].draft \/ Job(w) \in excused')

(* What a worker's steps have in common that go on to another place.       *)
LEMMA WorkerStep ==
  ASSUME IInv, NEW w \in Workers, worker[w].at # "idle", Recorded,
         UNCHANGED <<head, publish, retries>>, RollbackMoves(w), ReleaseMoves(w),
         lock' \in [Rollbacks \cup {Channel} -> Workers \cup {NoOne}],
         NEW x \in Worker, worker' = [worker EXCEPT ![w] = x], WorkerHolds(w)'
  PROVE  IInv'
<1>1. /\ WorkerHolds(w) /\ worker' \in [Workers -> Worker]
      /\ \A v \in Workers \ {w} : worker'[v] = worker[v]
      /\ rollback \in [Rollbacks -> Rollback] /\ release \in [Packages -> Release]
      /\ Rollbacks \subseteq Packages
  BY DEF IInv, TypeOK, Packages
<1> PICK j \in Rollbacks : j = Job(w) /\ rollback[j].phase # "none"
  BY <1>1 DEF WorkerHolds
<1>2. /\ rollback' \in [Rollbacks -> Rollback]
      /\ \A r \in Rollbacks :
           /\ rollback'[r].expects = rollback[r].expects /\ rollback'[r].attempts = rollback[r].attempts
           /\ rollback'[r].max = rollback[r].max
           /\ rollback'[r] # rollback[r] => r = j /\ rollback'[r].phase # "none"
           /\ rollback'[r].phase = "succeeded" =>
                rollback[r].phase = "succeeded" \/ (r = j /\ Replaced(r))
  <2>1. CASE rollback' = rollback
    BY <1>1, <2>1
  <2>2. CASE rollback' # rollback
    <3>1. PICK phase \in Phases \ {"none"} :
            /\ rollback' = [rollback EXCEPT ![j].phase = phase, ![j].leased = FALSE]
            /\ phase = "succeeded" => Replaced(j)
      BY <2>2 DEF RollbackMoves
    <3>2. /\ rollback' \in [Rollbacks -> Rollback] /\ rollback'[j].phase = phase
          /\ rollback'[j].expects = rollback[j].expects /\ rollback'[j].attempts = rollback[j].attempts
          /\ rollback'[j].max = rollback[j].max
          /\ \A r \in Rollbacks \ {j} : rollback'[r] = rollback[r]
      <4> DEFINE y == [rollback[j] EXCEPT !.phase = phase, !.leased = FALSE]
      <4>1. /\ y \in Rollback /\ y.phase = phase /\ y.expects = rollback[j].expects
            /\ y.attempts = rollback[j].attempts /\ y.max = rollback[j].max
        BY <1>1 DEF Rollback, Phases
      <4>2. rollback' = [rollback EXCEPT ![j] = y]
        BY <1>1, <3>1
      <4> HIDE DEF y
      <4> QED BY <1>1, <4>1, <4>2
    <3> QED BY <3>1, <3>2 DEF Own
  <2> QED BY <2>1, <2>2
<1>3. /\ release' \in [Packages -> Release] /\ j \in Packages
      /\ \A p \in Packages :
           /\ release'[p].at = release[p].at
           /\ release'[p].status = "published" <=> release[p].status = "published"
           /\ Signed(p) => Signed(p)'
           /\ \/ release'[p].content = release[p].content
              \/ p = j /\ worker[w].at = "copied" /\ (worker[w].draft \/ j \in excused')
  BY <1>1 DEF ReleaseMoves, Own, Signed
<1>4. TypeOK'
  <2>1. excused' \cup slipped' \subseteq Rollbacks
    BY HistoryTyped
  <2> QED BY <1>1, <1>2, <1>3, <2>1 DEF IInv, TypeOK
<1>5. Keeps(w)
  <2>1. \A v \in Workers : Job(v) \in Rollbacks => release'[Job(v)].at = Own(v).at
    BY <1>1, <1>3 DEF Own
  <2> QED BY <1>1, <1>2, <1>3, <2>1 DEF Keeps
<1>6. HeadHolds' /\ \A p \in Packages : ReleaseHolds(p)' /\ AskedFor(p)'
  BY <1>3 DEF IInv, HeadHolds, ReleaseHolds, AskedFor, TypeOK
<1>7. PublishHolds(j)'
  <2>1. PublishHolds(j) /\ (j \notin excused' => j \notin excused)
    BY DEF IInv, Recorded
  <2>2. j \notin excused' /\ publish[j].phase # "none" => release'[j].content = release[j].content
    BY <1>1, <1>3, <2>1 DEF WorkerHolds
  <2>3. rollback'[j].phase # "none" /\ rollback'[j].expects = rollback[j].expects
    BY <1>2
  <2> QED BY <1>3, <2>1, <2>2, <2>3 DEF PublishHolds
<1> QED BY <1>1, <1>4, <1>5, <1>6, <1>7, OthersKept

(* A worker that has stopped relies on nothing.                            *)
LEMMA IdleWorker ==
  /\ Idle \in Worker /\ Idle.at = "idle" /\ Idle.job = None
  /\ Idle.already = FALSE /\ Idle.published = FALSE
BY RollbackAssumption DEF Idle, Worker, Places

(* A worker that stops, with or without giving its lock back.              *)
LEMMA StopPreserves ==
  ASSUME IInv, NEW w \in Workers, worker[w].at # "idle", Recorded,
         UNCHANGED <<head, publish, retries>>, RollbackMoves(w), ReleaseMoves(w),
         worker' = [worker EXCEPT ![w] = Idle], lock' \in {lock, Unlocked(w)}
  PROVE  IInv'
<1>1. worker'[w] = Idle /\ lock' \in [Rollbacks \cup {Channel} -> Workers \cup {NoOne}]
  BY DEF IInv, TypeOK, Unlocked
<1>2. WorkerHolds(w)'
  BY <1>1, IdleWorker DEF WorkerHolds
<1> QED BY <1>1, <1>2, IdleWorker, WorkerStep

(* Its job settled, it stops.                                              *)
LEMMA SettlePreserves ==
  ASSUME IInv, NEW w \in Workers, worker[w].at # "idle", Recorded,
         UNCHANGED <<head, publish, retries>>, ReleaseMoves(w), NEW phase \in Phases \ {"none"},
         phase = "succeeded" => Replaced(Job(w)), Settles(w, phase)
  PROVE  IInv'
<1>1. RollbackMoves(w) /\ worker' = [worker EXCEPT ![w] = Idle] /\ lock' = Unlocked(w)
  BY DEF Settles, Stops, RollbackMoves
<1> QED BY <1>1, StopPreserves

(* A failed attempt settles the rollback's row under its own lease.        *)
LEMMA FailPreserves ==
  ASSUME IInv, NEW w \in Workers, worker[w].at # "idle", Recorded,
         UNCHANGED <<head, publish, retries>>, ReleaseMoves(w),
         Fails(w) \/ (Unauthorized(w) /\ UNCHANGED release)
  PROVE  IInv'
<1>1. CASE Fails(w)
  <2>1. PICK phase \in {"pending", "dead"} : Settles(w, phase)
    BY <1>1 DEF Fails
  <2> QED BY <2>1, SettlePreserves DEF Phases, Ended
<1>2. CASE Unauthorized(w)
  <2>1. CASE Stops(w) /\ UNCHANGED rollback
    BY <2>1, StopPreserves DEF Stops, RollbackMoves
  <2>2. CASE Settles(w, "revoked")
    BY <2>2, SettlePreserves DEF Phases, Ended
  <2> QED BY <1>2, <2>1, <2>2 DEF Unauthorized
<1> QED BY <1>1, <1>2

(* The release as it was.                                                  *)
LEMMA SameRelease ==
  ASSUME IInv, NEW w \in Workers, worker[w].at # "idle", UNCHANGED release
  PROVE  ReleaseMoves(w)
BY DEF IInv, TypeOK, ReleaseMoves, Own, Signed

(* It goes on, having changed nothing but locks.                           *)
LEMMA GoPreserves ==
  ASSUME IInv, NEW w \in Workers, worker[w].at # "idle", Recorded,
         UNCHANGED <<head, publish, retries, release, rollback>>,
         lock' \in [Rollbacks \cup {Channel} -> Workers \cup {NoOne}],
         NEW place \in Places \ {"idle"}, Goes(w, place),
         place \in {"staged", "considered"} => worker[w].at \in {"staged", "considered"},
         place \notin {"checked", "opened", "copied"}
  PROVE  IInv'
<1> DEFINE x == [worker[w] EXCEPT !.at = place]
<1>1. worker \in [Workers -> Worker] /\ worker[w] \in Worker /\ WorkerHolds(w)
  BY DEF IInv, TypeOK
<1>2. /\ x \in Worker /\ x.at = place /\ x.job = worker[w].job /\ x.already = worker[w].already
      /\ x.published = worker[w].published /\ x.content = worker[w].content
  BY <1>1 DEF Worker
<1>3. worker' = [worker EXCEPT ![w] = x]
  BY <1>1 DEF Goes
<1> HIDE DEF x
<1>4. worker'[w] = x
  BY <1>1, <1>3
<1>5. Job(w)' = Job(w) /\ Own(w)' = Own(w) /\ (Signed(Job(w))' <=> Signed(Job(w)))
  BY <1>2, <1>4 DEF Job, Own, Signed
<1>8. Replaced(Job(w)) => Replaced(Job(w))'
  BY <1>5 DEF Replaced, Recorded
<1>6. WorkerHolds(w)'
  BY <1>1, <1>2, <1>4, <1>5, <1>8, HistoryGrows DEF WorkerHolds
<1>7. RollbackMoves(w) /\ ReleaseMoves(w)
  BY SameRelease DEF RollbackMoves
<1> QED BY <1>2, <1>3, <1>6, <1>7, WorkerStep


----------------------------------------------------------------------------
(* The worker's steps *)

(* What a step of the worker begins with.                                  *)
Turn(w, place) == /\ worker[w].at = place /\ Recorded /\ UNCHANGED <<head, publish, retries>>

(* Taking the channel's lock says nothing of the release.                  *)
LEMMA LockChannelPreserves ==
  ASSUME IInv, NEW w \in Workers, LockChannel(w), Recorded
  PROVE  IInv'
<1>1. Turn(w, "leased") /\ UNCHANGED release
  BY DEF LockChannel, Staging, Turn
<1>2. CASE Unauthorized(w) \/ Fails(w)
  BY <1>1, <1>2, FailPreserves, SameRelease DEF Turn
<1>3. CASE lock' = [lock EXCEPT ![Channel] = w] /\ Goes(w, "serialized") /\ UNCHANGED rollback
  <2>1. lock' \in [Rollbacks \cup {Channel} -> Workers \cup {NoOne}]
    BY <1>3 DEF IInv, TypeOK
  <2> QED BY <1>1, <1>3, <2>1, GoPreserves DEF Turn, Places
<1> QED BY <1>2, <1>3 DEF LockChannel

(* The head is the revision expected, or the rollback's own release just   *)
(* after it.                                                               *)
LEMMA CompareHeadPreserves ==
  ASSUME IInv, NEW w \in Workers, CompareHead(w), Recorded
  PROVE  IInv'
<1> DEFINE already == AlreadyCommitted(Job(w))
           x == [worker[w] EXCEPT !.at = "compared", !.already = already]
<1>1. Turn(w, "serialized") /\ UNCHANGED release
  BY DEF CompareHead, Staging, Turn
<1>2. CASE Fails(w)
  BY <1>1, <1>2, FailPreserves, SameRelease DEF Turn
<1>3. CASE /\ worker' = [worker EXCEPT ![w].at = "compared", ![w].already = already]
           /\ UNCHANGED <<rollback, lock>>
  <2>1. worker \in [Workers -> Worker] /\ worker[w] \in Worker /\ WorkerHolds(w) /\ already \in BOOLEAN
    BY DEF IInv, TypeOK, AlreadyCommitted
  <2>2. already => release[Job(w)].at = rollback[Job(w)].expects + 1
    <3>1. Job(w) # None
      BY <1>1, <2>1, RollbackAssumption DEF WorkerHolds, Turn
    <3> QED BY <3>1 DEF AlreadyCommitted, IInv, HeadHolds
  <2> HIDE DEF already
  <2>3. /\ x \in Worker /\ x.at = "compared" /\ x.job = worker[w].job /\ x.already = already
        /\ x.published = worker[w].published
    BY <2>1 DEF Worker, Places
  <2>4. worker' = [worker EXCEPT ![w] = x]
    BY <1>3, <2>1
  <2> HIDE DEF x
  <2>5. worker'[w] = x
    BY <2>1, <2>4
  <2>6. Job(w)' = Job(w) /\ Own(w)' = Own(w) /\ Job(w) \in Rollbacks
    BY <1>1, <2>1, <2>3, <2>5 DEF Job, Own, WorkerHolds, Turn
  <2>7. WorkerHolds(w)'
    <3>1. Replaced(Job(w)) => Replaced(Job(w))'
      BY <1>1, <1>3, <2>6, ReplacedStays DEF Turn, Replaced, Recorded
    <3> QED BY <1>1, <1>3, <2>1, <2>2, <2>3, <2>5, <2>6, <3>1 DEF WorkerHolds, Own, Turn
  <2>8. lock' \in [Rollbacks \cup {Channel} -> Workers \cup {NoOne}]
    BY <1>3 DEF IInv, TypeOK
  <2> QED BY <1>1, <1>3, <2>3, <2>4, <2>7, <2>8, SameRelease, WorkerStep DEF Turn, RollbackMoves
<1> QED BY <1>2, <1>3 DEF CompareHead

(* A release that is published already is the one the head was replaced    *)
(* by; otherwise it is opened, and a draft of it has not been enqueued.    *)
LEMMA OpenReleasePreserves ==
  ASSUME IInv, NEW w \in Workers, OpenRelease(w), Recorded
  PROVE  IInv'
<1>1. Turn(w, "compared")
  BY DEF OpenRelease, Staging, Turn
<1>2. worker \in [Workers -> Worker] /\ worker[w] \in Worker /\ WorkerHolds(w)
      /\ release \in [Packages -> Release] /\ Rollbacks \subseteq Packages
  BY DEF IInv, TypeOK, Packages
<1> PICK j \in Rollbacks : j = Job(w) /\ rollback[j].phase # "none"
  BY <1>1, <1>2 DEF WorkerHolds, Turn
<1>3. CASE Fails(w) /\ UNCHANGED release
  BY <1>1, <1>3, FailPreserves, SameRelease DEF Turn
<1>4. CASE worker[w].already /\ Settles(w, "succeeded") /\ UNCHANGED release
  <2>1. Replaced(Job(w)) /\ "succeeded" \in Phases \ {"none"}
    BY <1>2, <1>4 DEF WorkerHolds, Own, Replaced, Phases, Ended
  <2> QED BY <1>1, <1>4, <2>1, SettlePreserves, SameRelease DEF Turn
<1>5. CASE /\ lock' = [lock EXCEPT ![Job(w)] = w]
           /\ release' = IF Own(w).status = "absent"
                         THEN [release EXCEPT ![Job(w)].status = "draft"] ELSE release
           /\ worker' = [worker EXCEPT ![w].at = "opened",
                                       ![w].draft = Own(w).status \in {"absent", "draft"}]
           /\ UNCHANGED rollback
  <2>1. lock' \in [Rollbacks \cup {Channel} -> Workers \cup {NoOne}]
    BY <1>5 DEF IInv, TypeOK
  <2>2. /\ release' \in [Packages -> Release] /\ \A p \in Packages \ {j} : release'[p] = release[p]
        /\ release'[j].at = release[j].at /\ release'[j].content = release[j].content
        /\ release'[j].status = IF release[j].status = "absent" THEN "draft" ELSE release[j].status
    BY <1>2, <1>5 DEF Release, Own
  <2>3. ReleaseMoves(w)
    BY <2>2 DEF ReleaseMoves, Own, Signed
  <2> DEFINE draft == release[j].status \in {"absent", "draft"}
             x == [worker[w] EXCEPT !.at = "opened", !.draft = draft]
  <2>4. draft \in BOOLEAN
    OBVIOUS
  <2>5. worker' = [worker EXCEPT ![w].at = "opened", ![w].draft = draft]
    BY <1>5 DEF Own
  <2>6. draft => publish[j].phase = "none"
    BY DEF IInv, PublishHolds, Signed
  <2> HIDE DEF draft
  <2>7. /\ x \in Worker /\ x.at = "opened" /\ x.job = j /\ x.already = worker[w].already
        /\ x.draft = draft /\ x.published = worker[w].published
    BY <1>2, <2>4 DEF Worker, Places, Job
  <2>8. worker' = [worker EXCEPT ![w] = x]
    BY <1>2, <2>5
  <2> HIDE DEF x
  <2>9. worker'[w] = x
    BY <1>2, <2>8
  <2>10. Job(w)' = j /\ Own(w)'.at = Own(w).at
    BY <2>2, <2>7, <2>9 DEF Job, Own
  <2>11. WorkerHolds(w)'
    <3>1. worker[w].at # "idle" /\ UNCHANGED <<publish, rollback>>
      BY <1>1, <1>5 DEF Turn
    <3>2. Replaced(j) => Replaced(j)'
      BY <1>1, <2>2, <3>1, ReplacedStays DEF Turn
    <3> QED BY <1>2, <2>6, <2>7, <2>9, <2>10, <3>1, <3>2 DEF WorkerHolds, Replaced
  <2> QED BY <1>1, <1>5, <2>1, <2>3, <2>7, <2>8, <2>11, WorkerStep DEF Turn, RollbackMoves
<1> QED BY <1>3, <1>4, <1>5 DEF OpenRelease

(* Files are copied into a draft only.                                     *)
LEMMA CopyFilesPreserves ==
  ASSUME IInv, NEW w \in Workers, CopyFiles(w), Recorded
  PROVE  IInv'
<1>1. Turn(w, "opened") /\ UNCHANGED release
  BY DEF CopyFiles, Staging, Turn
<1>2. CASE Unauthorized(w) \/ Fails(w)
  BY <1>1, <1>2, FailPreserves, SameRelease DEF Turn
<1>3. CASE /\ \E distrusts \in {FALSE, ~worker[w].draft} :
                worker' = [worker EXCEPT ![w].at = "copied", ![w].distrusts = distrusts]
           /\ UNCHANGED <<rollback, lock>>
  <2>1. /\ lock' \in [Rollbacks \cup {Channel} -> Workers \cup {NoOne}]
        /\ worker \in [Workers -> Worker] /\ worker[w] \in Worker /\ WorkerHolds(w)
    BY <1>3 DEF IInv, TypeOK
  <2>2. PICK distrusts \in BOOLEAN :
          worker' = [worker EXCEPT ![w].at = "copied", ![w].distrusts = distrusts]
    BY <1>3, <2>1 DEF Worker
  <2> DEFINE x == [worker[w] EXCEPT !.at = "copied", !.distrusts = distrusts]
  <2>3. /\ x \in Worker /\ x.at = "copied" /\ x.job = worker[w].job /\ x.already = worker[w].already
        /\ x.draft = worker[w].draft /\ x.published = worker[w].published
    BY <2>1 DEF Worker, Places
  <2>4. worker' = [worker EXCEPT ![w] = x]
    BY <2>1, <2>2
  <2> HIDE DEF x
  <2>5. worker'[w] = x /\ UNCHANGED <<publish, rollback, release>> /\ Job(w) \in Rollbacks
    BY <1>1, <1>3, <2>1, <2>4 DEF Turn, WorkerHolds
  <2>6. Job(w)' = Job(w) /\ Own(w)' = Own(w)
    BY <2>3, <2>5 DEF Job, Own
  <2>7. WorkerHolds(w)'
    <3>1. Replaced(Job(w)) => Replaced(Job(w))'
      BY <1>1, <2>5, <2>6 DEF Turn, Replaced, Recorded
    <3> QED BY <1>1, <2>1, <2>3, <2>5, <2>6, <3>1, HistoryGrows DEF WorkerHolds, Turn
  <2> QED BY <1>1, <1>3, <2>1, <2>3, <2>4, <2>7, SameRelease, WorkerStep DEF Turn, RollbackMoves
<1> QED BY <1>2, <1>3 DEF CopyFiles

(* Only who has found a draft signs, or who no longer trusts the signature, *)
(* which is recorded.                                                       *)
LEMMA SignReleasePreserves ==
  ASSUME IInv, NEW w \in Workers, SignRelease(w), Recorded
  PROVE  IInv'
<1>1. Turn(w, "copied")
  BY DEF SignRelease, Staging, Turn
<1>2. /\ release \in [Packages -> Release] /\ WorkerHolds(w) /\ Job(w) \in Packages /\ Job(w) \in Rollbacks
      /\ lock \in [Rollbacks \cup {Channel} -> Workers \cup {NoOne}]
      /\ worker \in [Workers -> Worker] /\ worker[w] \in Worker
  BY <1>1 DEF IInv, TypeOK, WorkerHolds, Packages, Turn
<1>3. CASE Fails(w) /\ UNCHANGED release
  BY <1>1, <1>3, FailPreserves, SameRelease DEF Turn
<1>4. ASSUME GoesOn(w), UNCHANGED <<rollback, lock>>, ReleaseMoves(w), release'[Job(w)].at = Own(w).at
      PROVE  IInv'
  <2> DEFINE x == [worker[w] EXCEPT !.at = "signed", !.draft = FALSE, !.distrusts = FALSE]
  <2>1. /\ x \in Worker /\ x.at = "signed" /\ x.job = worker[w].job /\ x.already = worker[w].already
        /\ x.published = worker[w].published
    BY <1>2 DEF Worker, Places
  <2>2. worker' = [worker EXCEPT ![w] = x]
    BY <1>2, <1>4 DEF GoesOn
  <2> HIDE DEF x
  <2>3. worker'[w] = x /\ worker[w].at # "idle" /\ UNCHANGED rollback
    BY <1>1, <1>2, <1>4, <2>2 DEF Turn
  <2>4. Job(w)' = Job(w) /\ Own(w)'.at = Own(w).at
    BY <1>4, <2>1, <2>3 DEF Job, Own
  <2>5. WorkerHolds(w)'
    <3>1. Replaced(Job(w)) => Replaced(Job(w))'
      BY <1>1, <1>2, <1>4, <2>3, <2>4 DEF Turn, Replaced, Recorded, Own
    <3> QED BY <1>2, <2>1, <2>3, <2>4, <3>1 DEF WorkerHolds
  <2> QED BY <1>1, <1>2, <1>4, <2>1, <2>2, <2>5, WorkerStep DEF Turn, RollbackMoves
<1>5. CASE GoesOn(w) /\ UNCHANGED <<release, rollback, lock>>
  BY <1>1, <1>4, <1>5, SameRelease DEF Turn, Own
<1>6. CASE /\ Signs(w) /\ Own(w).status # "published" /\ Own(w).content < MaxContent
           /\ release' = [release EXCEPT ![Job(w)].status = "staged", ![Job(w)].content = @ + 1]
           /\ GoesOn(w) /\ UNCHANGED <<rollback, lock>>
  <2> DEFINE new == [release[Job(w)] EXCEPT !.status = "staged", !.content = @ + 1]
  <2>1. new \in Release /\ new.status = "staged" /\ new.at = release[Job(w)].at
    BY <1>2, <1>6, RollbackAssumption DEF Release, Own
  <2>2. release' = [release EXCEPT ![Job(w)] = new]
    BY <1>2, <1>6
  <2> HIDE DEF new
  <2>3. worker[w].draft \/ Job(w) \in excused'
    <3>1. CASE worker[w].distrusts
      <4>1. worker'[w].at = "signed"
        BY <1>2, <1>6 DEF GoesOn, Worker
      <4>2. Job(w) \in Rekeyed
        BY <1>1, <1>2, <3>1, <4>1 DEF Rekeyed, Job, Turn
      <4> QED BY <1>1, <4>2 DEF Recorded, Turn
    <3> QED BY <1>6, <3>1 DEF Signs
  <2>4. ReleaseMoves(w) /\ release'[Job(w)].at = Own(w).at
    BY <1>1, <1>2, <1>6, <2>1, <2>2, <2>3 DEF ReleaseMoves, Own, Turn
  <2> QED BY <1>4, <1>6, <2>4
<1> QED BY <1>3, <1>5, <1>6 DEF SignRelease


(* What was checked is signed and, at first, not published.               *)
LEMMA CheckReleasePreserves ==
  ASSUME IInv, NEW w \in Workers, CheckRelease(w), Recorded
  PROVE  IInv'
<1>1. Turn(w, "signed") /\ worker[w].at # "idle"
  BY DEF CheckRelease, Staging, Turn
<1>2. /\ release \in [Packages -> Release] /\ WorkerHolds(w) /\ Job(w) \in Packages
      /\ worker \in [Workers -> Worker] /\ worker[w] \in Worker
  BY <1>1 DEF IInv, TypeOK, WorkerHolds, Packages, Turn
<1>3. CASE Fails(w) /\ UNCHANGED release
  BY <1>1, <1>3, FailPreserves, SameRelease DEF Turn
<1>4. ASSUME NEW status \in {"broken", "checked"}, Own(w).status # "published",
             release' = [release EXCEPT ![Job(w)].status = status]
      PROVE  /\ ReleaseMoves(w) /\ release'[Job(w)].at = Own(w).at
             /\ release'[Job(w)].content = Own(w).content /\ release'[Job(w)].status = status
  <2> DEFINE new == [release[Job(w)] EXCEPT !.status = status]
  <2>1. /\ new \in Release /\ new.status = status /\ new.at = release[Job(w)].at
        /\ new.content = release[Job(w)].content
    BY <1>2 DEF Release
  <2>2. release' = [release EXCEPT ![Job(w)] = new]
    BY <1>2, <1>4
  <2> HIDE DEF new
  <2> QED BY <1>2, <1>4, <2>1, <2>2 DEF ReleaseMoves, Own
<1>5. CASE /\ Own(w).status # "published"
           /\ release' = [release EXCEPT ![Job(w)].status = "broken"] /\ Fails(w)
  BY <1>1, <1>4, <1>5, FailPreserves DEF Turn
<1>6. CASE /\ Own(w).status # "published"
           /\ release' = [release EXCEPT ![Job(w)].status = "checked"]
           /\ Goes(w, "checked") /\ UNCHANGED <<rollback, lock>>
  <2>1. /\ ReleaseMoves(w) /\ release'[Job(w)].at = Own(w).at /\ release'[Job(w)].status = "checked"
    BY <1>4, <1>6
  <2> DEFINE x == [worker[w] EXCEPT !.at = "checked"]
  <2>2. /\ x \in Worker /\ x.at = "checked" /\ x.job = worker[w].job /\ x.already = worker[w].already
        /\ x.published = worker[w].published
    BY <1>2 DEF Worker, Places
  <2>3. worker' = [worker EXCEPT ![w] = x]
    BY <1>2, <1>6 DEF Goes
  <2> HIDE DEF x
  <2>4. worker'[w] = x /\ UNCHANGED rollback /\ Job(w) \in Rollbacks
    BY <1>1, <1>2, <1>6, <2>3 DEF WorkerHolds
  <2>5. Job(w)' = Job(w)
    BY <2>2, <2>4 DEF Job
  <2>6. Own(w)'.at = 0 /\ Own(w).at = 0 /\ Signed(Job(w))'
    BY <1>2, <1>6, <2>1, <2>5 DEF Own, Signed, IInv, ReleaseHolds
  <2>7. Replaced(Job(w)) => Replaced(Job(w))'
    BY <1>1, <2>1, <2>4, <2>5 DEF Turn, Replaced, Recorded, Own
  <2>8. WorkerHolds(w)'
    BY <1>1, <1>2, <2>2, <2>4, <2>5, <2>6, <2>7 DEF WorkerHolds
  <2>9. lock' \in [Rollbacks \cup {Channel} -> Workers \cup {NoOne}]
    BY <1>6 DEF IInv, TypeOK
  <2> QED BY <1>1, <2>1, <2>2, <2>3, <2>4, <2>8, <2>9, WorkerStep DEF Turn, RollbackMoves
<1> QED BY <1>3, <1>5, <1>6 DEF CheckRelease

(* What is read is what the worker goes on with; if it is published, it    *)
(* replaced the head expected, or the rollback has slipped.                *)
LEMMA ReadReleasePreserves ==
  ASSUME IInv, NEW w \in Workers, ReadRelease(w), Recorded
  PROVE  IInv'
<1>1. Turn(w, "checked") /\ UNCHANGED release
  BY DEF ReadRelease, Staging, Turn
<1>2. /\ release \in [Packages -> Release] /\ WorkerHolds(w) /\ Job(w) \in Packages /\ Job(w) \in Rollbacks
      /\ worker \in [Workers -> Worker] /\ worker[w] \in Worker
  BY <1>1 DEF IInv, TypeOK, WorkerHolds, Packages, Turn
<1>3. CASE Fails(w)
  BY <1>1, <1>3, FailPreserves, SameRelease DEF Turn
<1>4. CASE /\ worker' = [worker EXCEPT ![w].at = "staged", ![w].content = Own(w).content,
                                      ![w].published = Own(w).status = "published"]
           /\ lock' = Unlocked(w) /\ UNCHANGED rollback
  <2> DEFINE published == Own(w).status = "published"
             x == [worker[w] EXCEPT !.at = "staged", !.content = Own(w).content, !.published = published]
  <2>1. worker' = [worker EXCEPT ![w].at = "staged", ![w].content = Own(w).content,
                                 ![w].published = published]
    BY <1>4
  <2>2. published => Replaced(Job(w))
    BY <1>1, <1>2 DEF WorkerHolds, IInv, ReleaseHolds, Own, Turn
  <2>3. published \in BOOLEAN /\ Own(w).content \in 0 .. MaxContent
    BY <1>2 DEF Own, Release
  <2> HIDE DEF published
  <2>4. /\ x \in Worker /\ x.at = "staged" /\ x.job = worker[w].job /\ x.already = worker[w].already
        /\ x.content = Own(w).content /\ x.published = published
    BY <1>2, <2>3 DEF Worker, Places
  <2>5. worker' = [worker EXCEPT ![w] = x]
    BY <1>2, <2>1
  <2> HIDE DEF x
  <2>6. worker'[w] = x /\ UNCHANGED <<rollback, release>>
    BY <1>1, <1>2, <1>4, <2>5
  <2>7. Job(w)' = Job(w) /\ Own(w)' = Own(w) /\ (Signed(Job(w)) => Signed(Job(w))')
    BY <1>1, <2>4, <2>6 DEF Job, Own, Signed
  <2>8. Replaced(Job(w)) => Replaced(Job(w))'
    BY <1>1, <2>6, <2>7 DEF Turn, Replaced, Recorded
  <2>9. WorkerHolds(w)'
    BY <1>1, <1>2, <2>2, <2>4, <2>6, <2>7, <2>8 DEF WorkerHolds, Turn
  <2>10. lock' \in [Rollbacks \cup {Channel} -> Workers \cup {NoOne}]
    BY <1>4 DEF IInv, TypeOK, Unlocked
  <2> QED BY <1>1, <1>4, <2>4, <2>5, <2>9, <2>10, SameRelease, WorkerStep DEF Turn, RollbackMoves
<1> QED BY <1>3, <1>4 DEF ReadRelease

(* Policy and evidence may end the attempt; the release stays as it is.    *)
LEMMA ConsiderPreserves ==
  ASSUME IInv, NEW w \in Workers, FindPublished(w) \/ Consider(w), Recorded
  PROVE  IInv'
<1>1. Turn(w, "staged") /\ UNCHANGED release /\ WorkerHolds(w)
  BY DEF FindPublished, Consider, Staging, Turn, IInv
<1>2. CASE worker[w].published /\ Settles(w, "succeeded")
  BY <1>1, <1>2, SettlePreserves, SameRelease DEF Turn, WorkerHolds, Phases, Ended
<1>3. CASE Settles(w, "validated") \/ Settles(w, "failed")
  BY <1>1, <1>3, SettlePreserves, SameRelease DEF Turn, Phases, Ended
<1>4. CASE Fails(w) \/ Unauthorized(w)
  BY <1>1, <1>4, FailPreserves, SameRelease DEF Turn
<1>5. CASE Goes(w, "considered") /\ UNCHANGED <<rollback, lock>>
  <2>1. lock' \in [Rollbacks \cup {Channel} -> Workers \cup {NoOne}]
    BY <1>5 DEF IInv, TypeOK
  <2> QED BY <1>1, <1>5, <2>1, GoPreserves DEF Turn, Places
<1> QED BY <1>2, <1>3, <1>4, <1>5 DEF FindPublished, Consider

(* What is enqueued is what was checked, if nobody else runs the rollback. *)
LEMMA EnqueuePublishPreserves ==
  ASSUME IInv, NEW w \in Workers, EnqueuePublish(w), Recorded
  PROVE  IInv'
<1>1. worker[w].at = "considered" /\ UNCHANGED <<head, release, retries>>
  BY DEF EnqueuePublish
<1>2. /\ WorkerHolds(w) /\ publish \in [Packages -> Publish] /\ rollback \in [Rollbacks -> Rollback]
      /\ lock \in [Rollbacks \cup {Channel} -> Workers \cup {NoOne}]
      /\ worker \in [Workers -> Worker] /\ worker[w] \in Worker /\ Rollbacks \subseteq Packages
  BY DEF IInv, TypeOK, Packages
<1> PICK j \in Rollbacks : j = Job(w) /\ rollback[j].phase # "none"
  BY <1>1, <1>2 DEF WorkerHolds
<1>3. CASE publish[j].phase # "none" /\ UNCHANGED publish /\ Goes(w, "enqueued") /\ UNCHANGED <<rollback, lock>>
  BY <1>1, <1>2, <1>3, GoPreserves DEF Places
<1>4. CASE UNCHANGED publish /\ Fails(w)
  BY <1>1, <1>4, FailPreserves, SameRelease
<1>5. CASE /\ publish[j].phase = "none" /\ publish' = [publish EXCEPT ![j] = ChildOf(w)]
           /\ Goes(w, "enqueued") /\ UNCHANGED <<rollback, lock>>
  <2>1. /\ ChildOf(w) \in Publish /\ ChildOf(w).phase = "open" /\ ChildOf(w).package = j
        /\ ChildOf(w).content = worker[w].content /\ ChildOf(w).expects = rollback[j].expects
    BY <1>2 DEF ChildOf, Publish, Worker, Rollback, Packages
  <2>2. /\ publish' \in [Packages -> Publish] /\ publish'[j] = ChildOf(w)
        /\ \A p \in Packages \ {j} : publish'[p] = publish[p]
    BY <1>2, <1>5, <2>1
  <2> DEFINE x == [worker[w] EXCEPT !.at = "enqueued"]
  <2>3. /\ x \in Worker /\ x.at = "enqueued" /\ x.job = j /\ x.already = worker[w].already
        /\ x.published = worker[w].published
    BY <1>2 DEF Worker, Places, Job
  <2>4. worker' = [worker EXCEPT ![w] = x]
    BY <1>2, <1>5 DEF Goes
  <2> HIDE DEF x
  <2>5. /\ worker' \in [Workers -> Worker] /\ worker'[w] = x
        /\ \A v \in Workers \ {w} : worker'[v] = worker[v]
    BY <1>2, <2>3, <2>4
  <2>6. Job(w)' = j /\ Own(w)' = Own(w)
    BY <1>1, <2>3, <2>5 DEF Job, Own
  <2>7. WorkerHolds(w)'
    <3>1. Replaced(j) => Replaced(j)'
      BY <1>1, <1>5, ReplacedStays
    <3>2. Replaced(Job(w))' <=> Replaced(j)'
      BY <2>6 DEF Replaced
    <3> QED BY <1>1, <1>2, <1>5, <2>3, <2>5, <2>6, <3>1, <3>2 DEF WorkerHolds
  <2>8. PublishHolds(j)'
    <3>1. Signed(j) /\ Signed(j)' /\ (j \notin excused => worker[w].content = release[j].content)
      BY <1>1, <1>2 DEF WorkerHolds, Own, Signed
    <3> QED BY <1>1, <1>5, <2>1, <2>2, <3>1, HistoryGrows DEF PublishHolds
  <2>9. Keeps(w)
    <3>1. \A u \in Packages : Signed(u) => Signed(u)'
      BY <1>1 DEF Signed
    <3> QED BY <1>1, <1>2, <1>5, <2>2, <3>1 DEF Keeps, Own, RollbackHolds, IInv
  <2>10. TypeOK'
    <3>1. excused' \cup slipped' \subseteq Rollbacks
      BY HistoryTyped
    <3> QED BY <1>1, <1>5, <2>2, <2>5, <3>1 DEF IInv, TypeOK
  <2>11. HeadHolds' /\ \A p \in Packages : ReleaseHolds(p)' /\ AskedFor(p)'
    BY <1>1, <1>2, <2>1, <2>2 DEF IInv, HeadHolds, ReleaseHolds, AskedFor
  <2> QED BY <2>5, <2>7, <2>8, <2>9, <2>10, <2>11, OthersKept
<1> QED BY <1>3, <1>4, <1>5 DEF EnqueuePublish

(* The publish job is looked at, and the head once it has ended.           *)
LEMMA AwaitPreserves ==
  ASSUME IInv, NEW w \in Workers, AwaitPublish(w) \/ ConfirmHead(w), Recorded
  PROVE  IInv'
<1>1. /\ worker[w].at \in {"enqueued", "published"} /\ UNCHANGED <<head, publish, retries, release>>
      /\ WorkerHolds(w) /\ lock \in [Rollbacks \cup {Channel} -> Workers \cup {NoOne}]
  BY DEF AwaitPublish, ConfirmHead, Staging, IInv, TypeOK
<1>2. CASE Goes(w, "published") /\ UNCHANGED <<rollback, lock>>
  BY <1>1, <1>2, GoPreserves DEF Places
<1>3. CASE Settles(w, "failed")
  BY <1>1, <1>3, SettlePreserves, SameRelease DEF Phases, Ended
<1>4. CASE Fails(w)
  BY <1>1, <1>4, FailPreserves, SameRelease
<1>5. CASE AlreadyCommitted(Job(w)) /\ Settles(w, "succeeded")
  <2>1. Job(w) # None
    BY <1>1, RollbackAssumption DEF WorkerHolds
  <2>2. Replaced(Job(w))
    BY <1>5, <2>1 DEF AlreadyCommitted, Replaced, IInv, HeadHolds
  <2> QED BY <1>1, <1>5, <2>2, SettlePreserves, SameRelease DEF Phases, Ended
<1>6. CASE Stops(w) /\ UNCHANGED rollback
  BY <1>1, <1>6, StopPreserves, SameRelease DEF Stops, RollbackMoves
<1> QED BY <1>2, <1>3, <1>4, <1>5, <1>6 DEF AwaitPublish, ConfirmHead

(* A worker stops without a word, or dies and keeps its locks.             *)
LEMMA GivesUpPreserves ==
  ASSUME IInv, NEW w \in Workers, GivesUp(w), Recorded
  PROVE  IInv'
<1>1. worker[w].at # "idle" /\ UNCHANGED <<head, release, rollback, publish, retries>>
  BY DEF GivesUp
<1> QED BY <1>1, StopPreserves, SameRelease DEF GivesUp, Stops, RollbackMoves

(* A worker takes the job, alone or not.                                   *)
LEMMA LeaseJobPreserves ==
  ASSUME IInv, NEW w \in Workers, NEW r \in Rollbacks, LeaseJob(w, r), Recorded
  PROVE  IInv'
<1>1. /\ worker[w].at = "idle" /\ rollback[r].phase \in {"pending", "running"}
      /\ rollback[r].attempts < rollback[r].max
      /\ rollback' = [rollback EXCEPT ![r].phase = "running", ![r].leased = TRUE, ![r].attempts = @ + 1]
      /\ worker' = [worker EXCEPT ![w] = [Idle EXCEPT !.at = "leased", !.job = r,
                                                     !.attempt = rollback[r].attempts + 1]]
      /\ UNCHANGED <<head, release, publish, lock, retries>>
  BY DEF LeaseJob
<1>2. /\ worker \in [Workers -> Worker] /\ rollback \in [Rollbacks -> Rollback] /\ WorkerHolds(w)
  BY DEF IInv, TypeOK
<1> DEFINE y == [rollback[r] EXCEPT !.phase = "running", !.leased = TRUE, !.attempts = @ + 1]
           x == [Idle EXCEPT !.at = "leased", !.job = r, !.attempt = rollback[r].attempts + 1]
<1>3. /\ y \in Rollback /\ y.phase = "running" /\ y.expects = rollback[r].expects
      /\ y.attempts = rollback[r].attempts + 1 /\ y.max = rollback[r].max
  <2>1. rollback[r] \in Rollback /\ rollback[r].attempts + 1 \in Nat
    BY <1>2 DEF Rollback
  <2>2. y = [rollback[r] EXCEPT !.phase = "running", !.leased = TRUE, !.attempts = rollback[r].attempts + 1]
    BY <2>1
  <2> HIDE DEF y
  <2> QED BY <2>1, <2>2 DEF Rollback
<1>4. x \in Worker /\ x.at = "leased" /\ x.job = r /\ x.already = FALSE /\ x.published = FALSE
  <2>1. rollback[r].attempts + 1 \in Nat
    BY <1>2 DEF Rollback
  <2> QED BY <2>1, IdleWorker DEF Worker, Places, Idle
<1>5. rollback' = [rollback EXCEPT ![r] = y] /\ worker' = [worker EXCEPT ![w] = x]
  BY <1>1, <1>2
<1> HIDE DEF x, y
<1>6. /\ rollback' \in [Rollbacks -> Rollback] /\ rollback'[r] = y
      /\ \A u \in Rollbacks \ {r} : rollback'[u] = rollback[u]
      /\ worker' \in [Workers -> Worker] /\ worker'[w] = x
      /\ \A v \in Workers \ {w} : worker'[v] = worker[v]
  BY <1>2, <1>3, <1>4, <1>5
<1>7. WorkerHolds(w)'
  BY <1>3, <1>4, <1>6 DEF WorkerHolds, Job, Own
<1>8. Job(w) \notin Rollbacks
  BY <1>1, <1>2, IdleWorker, RollbackAssumption DEF WorkerHolds, Job
<1>9. Keeps(w)
  BY <1>1, <1>3, <1>6 DEF Keeps, Signed, Own
<1>10. TypeOK'
  <2>1. excused' \cup slipped' \subseteq Rollbacks
    BY HistoryTyped
  <2>2. \A u \in Rollbacks : rollback'[u].attempts <= rollback'[u].max
    BY <1>1, <1>2, <1>3, <1>6 DEF IInv, TypeOK, Rollback
  <2> QED BY <1>1, <1>6, <2>1, <2>2 DEF IInv, TypeOK
<1>11. HeadHolds' /\ \A p \in Packages : ReleaseHolds(p)' /\ AskedFor(p)'
  BY <1>1 DEF IInv, HeadHolds, ReleaseHolds, AskedFor
<1> QED BY <1>6, <1>7, <1>8, <1>9, <1>10, <1>11, OthersKept


----------------------------------------------------------------------------
(* Operators, leases and publish jobs *)

(* A row of the rollbacks changes while no worker does.                    *)
LEMMA RowPreserves ==
  ASSUME IInv, NEW r \in Rollbacks, NEW y \in Rollback, rollback' = [rollback EXCEPT ![r] = y],
         y.attempts <= y.max, y.phase \in {"none", "succeeded"} => y.phase = rollback[r].phase,
         rollback[r].phase # "none" => y.expects = rollback[r].expects,
         UNCHANGED <<head, release, publish, lock, worker>>, retries' \in 0 .. MaxRetries,
         Recorded
  PROVE  IInv'
<1>1. /\ rollback' \in [Rollbacks -> Rollback] /\ rollback'[r] = y
      /\ \A u \in Rollbacks \ {r} : rollback'[u] = rollback[u]
  BY DEF IInv, TypeOK
<1>2. Keeps(NoOne)
  BY <1>1 DEF Keeps, Signed, Own
<1>3. TypeOK'
  <2>1. excused' \cup slipped' \subseteq Rollbacks
    BY HistoryTyped
  <2>2. \A u \in Rollbacks : rollback'[u].attempts <= rollback'[u].max
    BY <1>1 DEF IInv, TypeOK
  <2> QED BY <1>1, <2>1, <2>2 DEF IInv, TypeOK
<1>4. HeadHolds' /\ \A p \in Packages : ReleaseHolds(p)' /\ AskedFor(p)'
  BY DEF IInv, HeadHolds, ReleaseHolds, AskedFor
<1> QED BY <1>2, <1>3, <1>4, RollbackAssumption, OthersKept

(* What requests, operators and time do to a rollback's row.               *)
LEMMA RollbackRowsPreserve ==
  ASSUME IInv, NEW r \in Rollbacks, Recorded,
         \/ RequestRollback(r) \/ CancelOperationJob(r) \/ RetryOperationJob(r)
         \/ JobLapses(r) \/ Retire(r)
  PROVE  IInv'
<1> PICK z \in Rollback : z = rollback[r] /\ z.attempts <= z.max
  BY DEF IInv, TypeOK
<1>1. /\ rollback \in [Rollbacks -> Rollback] /\ retries \in 0 .. MaxRetries
      /\ head.revision \in Nat /\ z.attempts \in Nat /\ z.max \in Nat
  BY DEF IInv, TypeOK, Rollback
<1>2. CASE RequestRollback(r)
  <2> DEFINE y == [z EXCEPT !.phase = "pending", !.expects = head.revision]
  <2>1. /\ y \in Rollback /\ y.attempts = z.attempts /\ y.max = z.max /\ y.phase = "pending"
    BY <1>1 DEF Rollback
  <2>2. /\ rollback' = [rollback EXCEPT ![r] = y] /\ z.phase = "none"
        /\ UNCHANGED <<head, release, publish, lock, worker, retries>>
    BY <1>1, <1>2 DEF RequestRollback
  <2> HIDE DEF y
  <2> QED BY <1>1, <2>1, <2>2, RowPreserves
<1>3. CASE CancelOperationJob(r)
  <2> DEFINE y == [z EXCEPT !.phase = "failed", !.cancelled = TRUE]
  <2>1. /\ y \in Rollback /\ y.attempts = z.attempts /\ y.max = z.max /\ y.phase = "failed"
        /\ y.expects = z.expects
    BY <1>1 DEF Rollback, Ended
  <2>2. /\ rollback' = [rollback EXCEPT ![r] = y]
        /\ UNCHANGED <<head, release, publish, lock, worker, retries>>
    BY <1>1, <1>3 DEF CancelOperationJob
  <2> HIDE DEF y
  <2> QED BY <1>1, <2>1, <2>2, RowPreserves
<1>4. CASE RetryOperationJob(r)
  <2> DEFINE y == [z EXCEPT !.phase = "pending", !.cancelled = FALSE, !.max = z.attempts + MaxAttempts]
  <2>1. /\ z.attempts + MaxAttempts \in Nat /\ z.attempts <= z.attempts + MaxAttempts
        /\ retries < MaxRetries => retries + 1 \in 0 .. MaxRetries
    BY <1>1, RollbackAssumption
  <2>2. /\ y \in Rollback /\ y.attempts = z.attempts /\ y.max = z.attempts + MaxAttempts
        /\ y.phase = "pending" /\ y.expects = z.expects
    BY <1>1, <2>1 DEF Rollback
  <2>3. /\ rollback' = [rollback EXCEPT ![r] = y] /\ retries < MaxRetries /\ retries' = retries + 1
        /\ UNCHANGED <<head, release, publish, lock, worker>>
    BY <1>1, <1>4 DEF RetryOperationJob
  <2> HIDE DEF y
  <2> QED BY <1>1, <2>1, <2>2, <2>3, RowPreserves
<1>5. CASE JobLapses(r)
  <2> DEFINE y == [z EXCEPT !.leased = FALSE]
  <2>1. /\ y \in Rollback /\ y.attempts = z.attempts /\ y.max = z.max /\ y.phase = z.phase
        /\ y.expects = z.expects
    BY <1>1 DEF Rollback
  <2>2. /\ rollback' = [rollback EXCEPT ![r] = y]
        /\ UNCHANGED <<head, release, publish, lock, worker, retries>>
    BY <1>1, <1>5 DEF JobLapses
  <2> HIDE DEF y
  <2> QED BY <1>1, <2>1, <2>2, RowPreserves
<1>6. CASE Retire(r)
  <2> DEFINE y == [z EXCEPT !.phase = "dead"]
  <2>1. /\ y \in Rollback /\ y.attempts = z.attempts /\ y.max = z.max /\ y.phase = "dead"
        /\ y.expects = z.expects
    BY <1>1 DEF Rollback, Ended
  <2>2. /\ rollback' = [rollback EXCEPT ![r] = y]
        /\ UNCHANGED <<head, release, publish, lock, worker, retries>>
    BY <1>1, <1>6 DEF Retire
  <2> HIDE DEF y
  <2> QED BY <1>1, <2>1, <2>2, RowPreserves
<1> QED BY <1>2, <1>3, <1>4, <1>5, <1>6


(* A lock runs out under whoever holds it: nothing is relied on it.        *)
LEMMA LockLapsesPreserves ==
  ASSUME IInv, NEW s \in DOMAIN lock, LockLapses(s), Recorded
  PROVE  IInv'
<1>1. /\ UNCHANGED <<head, release, rollback, publish, worker, retries>>
      /\ lock' \in [Rollbacks \cup {Channel} -> Workers \cup {NoOne}]
  BY DEF LockLapses, IInv, TypeOK
<1>2. Keeps(NoOne)
  BY <1>1 DEF Keeps, Signed, Own
<1>3. excused' \cup slipped' \subseteq Rollbacks
  BY HistoryTyped
<1>4. TypeOK'
  BY <1>1, <1>3 DEF IInv, TypeOK
<1>5. HeadHolds' /\ \A p \in Packages : ReleaseHolds(p)' /\ AskedFor(p)'
  BY <1>1 DEF IInv, HeadHolds, ReleaseHolds, AskedFor
<1> QED BY <1>1, <1>2, <1>4, <1>5, RollbackAssumption, OthersKept

(* A publish job changes, of what was asked for nothing.                   *)
LEMMA PublishRowPreserves ==
  ASSUME IInv, NEW j \in Packages, NEW y \in Publish, publish' = [publish EXCEPT ![j] = y],
         y.phase # "none", y.package \in Packages,
         publish[j].phase # "none" => y.content = publish[j].content /\ y.expects = publish[j].expects
                                      /\ y.package = publish[j].package,
         j \in Rollbacks => publish[j].phase # "none",
         UNCHANGED <<head, release, rollback, lock, worker>>, retries' \in 0 .. MaxRetries,
         Recorded
  PROVE  IInv'
<1>1. /\ publish' \in [Packages -> Publish] /\ publish'[j] = y /\ Rollbacks \subseteq Packages
      /\ \A u \in Packages \ {j} : publish'[u] = publish[u]
  BY DEF IInv, TypeOK, Packages
<1>2. Keeps(NoOne)
  BY <1>1 DEF Keeps, Signed, Own
<1>3. TypeOK'
  <2>1. excused' \cup slipped' \subseteq Rollbacks
    BY HistoryTyped
  <2> QED BY <1>1, <2>1 DEF IInv, TypeOK
<1>4. HeadHolds' /\ \A p \in Packages : ReleaseHolds(p)' /\ AskedFor(p)'
  BY <1>1 DEF IInv, HeadHolds, ReleaseHolds, AskedFor
<1> QED BY <1>2, <1>3, <1>4, RollbackAssumption, OthersKept

(* Publish jobs of others, and the failures and retries of any.            *)
LEMMA PublishRowsPreserve ==
  ASSUME IInv, Recorded,
         \/ \E o \in Orders, p \in Packages : RequestPublish(o, p)
         \/ \E j \in Packages : RetryPublish(j) \/ PublishFails(j)
  PROVE  IInv'
<1>1. /\ publish \in [Packages -> Publish] /\ release \in [Packages -> Release]
      /\ retries \in 0 .. MaxRetries /\ head.revision \in Nat
  BY DEF IInv, TypeOK
<1>2. CASE \E o \in Orders, p \in Packages : RequestPublish(o, p)
  <2> PICK o \in Orders, p \in Packages : RequestPublish(o, p)
    BY <1>2
  <2> DEFINE y == [phase |-> "open", package |-> p, content |-> release[p].content, expects |-> head.revision]
  <2>1. y \in Publish /\ y.phase = "open" /\ y.package = p
    BY <1>1 DEF Publish, Release
  <2>2. /\ publish' = [publish EXCEPT ![o] = y] /\ publish[o].phase = "none"
        /\ UNCHANGED <<head, release, rollback, lock, worker, retries>>
    BY DEF RequestPublish
  <2> HIDE DEF y
  <2>3. o \in Packages /\ o \notin Rollbacks
    BY RollbackAssumption DEF Packages
  <2> QED BY <1>1, <2>1, <2>2, <2>3, PublishRowPreserves
<1>3. CASE \E j \in Packages : RetryPublish(j) \/ PublishFails(j)
  <2> PICK j \in Packages : RetryPublish(j) \/ PublishFails(j)
    BY <1>3
  <2>1. PICK phase \in {"open", "failed"} :
          /\ publish' = [publish EXCEPT ![j].phase = phase] /\ publish[j].phase # "none"
          /\ UNCHANGED <<head, release, rollback, lock, worker>>
          /\ retries' \in 0 .. MaxRetries
    BY <1>1, RollbackAssumption DEF RetryPublish, PublishFails
  <2> DEFINE y == [publish[j] EXCEPT !.phase = phase]
  <2>2. /\ y \in Publish /\ y.phase = phase /\ y.package = publish[j].package
        /\ y.content = publish[j].content /\ y.expects = publish[j].expects
    BY <1>1 DEF Publish
  <2>3. publish' = [publish EXCEPT ![j] = y]
    BY <1>1, <2>1
  <2> HIDE DEF y
  <2>4. publish[j].package \in Packages
    BY <2>1 DEF IInv, AskedFor
  <2> QED BY <2>1, <2>2, <2>3, <2>4, PublishRowPreserves
<1> QED BY <1>2, <1>3

(* A release is published once, as the very next revision.                 *)
LEMMA CommitPublishPreserves ==
  ASSUME IInv, NEW j \in Packages, CommitPublish(j), Recorded
  PROVE  IInv'
<1> DEFINE p == publish[j].package
           n == head.revision + 1
<1>1. /\ publish[j].phase = "open" /\ release[p].status = "checked"
      /\ head' = [revision |-> n, package |-> p]
      /\ release' = [release EXCEPT ![p].status = "published", ![p].at = n]
      /\ publish' = [publish EXCEPT ![j].phase = "succeeded"]
      /\ UNCHANGED <<rollback, lock, worker, retries>>
  BY DEF CommitPublish, AsRequested
<1>2. /\ p \in Packages /\ publish \in [Packages -> Publish] /\ release \in [Packages -> Release]
      /\ head.revision \in Nat /\ n \in Nat \ {0} /\ Rollbacks \subseteq Packages
  BY <1>1 DEF IInv, TypeOK, AskedFor, Packages
<1> HIDE DEF n, p
<1> DEFINE new == [release[p] EXCEPT !.status = "published", !.at = n]
           y == [publish[j] EXCEPT !.phase = "succeeded"]
<1>3. /\ new \in Release /\ new.status = "published" /\ new.at = n /\ new.content = release[p].content
      /\ y \in Publish /\ y.phase = "succeeded" /\ y.package = publish[j].package /\ y.content = publish[j].content
      /\ y.expects = publish[j].expects
  BY <1>2 DEF Release, Publish
<1>4. release' = [release EXCEPT ![p] = new] /\ publish' = [publish EXCEPT ![j] = y]
  BY <1>1, <1>2
<1> HIDE DEF new, y
<1>5. /\ release' \in [Packages -> Release] /\ release'[p] = new
      /\ \A u \in Packages \ {p} : release'[u] = release[u]
      /\ publish' \in [Packages -> Publish] /\ publish'[j] = y
      /\ \A u \in Packages \ {j} : publish'[u] = publish[u]
  BY <1>2, <1>3, <1>4
<1>6. release[p].at = 0
  BY <1>1, <1>2 DEF IInv, ReleaseHolds
<1>7. Keeps(NoOne)
  <2>1. ASSUME NEW u \in Packages
        PROVE  /\ release[u].at # 0 => release'[u].at = release[u].at
               /\ Signed(u) => Signed(u)'
               /\ publish[u].phase # "none" =>
                    /\ publish'[u].phase # "none" /\ publish'[u].content = publish[u].content
                    /\ publish'[u].package = publish[u].package /\ publish'[u].expects = publish[u].expects
               /\ release'[u].content = release[u].content
               /\ publish[u].phase = "none" => publish'[u].phase = "none"
    BY <1>1, <1>3, <1>5, <1>6 DEF Signed
  <2>2. ASSUME NEW v \in Workers, worker[v].at = "checked", Job(v) \in Rollbacks,
               Own(v).at = 0, release'[Job(v)].at # 0
        PROVE  Job(v) \in slipped' \/ release'[Job(v)].at = rollback[Job(v)].expects + 1
    <3>1. Job(v) = p
      BY <1>2, <1>5, <2>2 DEF Own
    <3>2. CASE j = p
      <4>1. head.revision = publish[p].expects /\ publish[p].expects = rollback[p].expects
        BY <1>1, <2>2, <3>1, <3>2 DEF IInv, PublishHolds, CommitPublish, AsRequested
      <4> QED BY <1>3, <1>5, <3>1, <4>1 DEF n
    <3>3. CASE j # p
      <4>1. publish'[p] = publish[p] /\ release'[p].at # release[p].at
        BY <1>2, <1>5, <2>2, <3>1, <3>3 DEF Own
      <4>2. p \in Slipping
        BY <2>2, <3>1, <4>1 DEF Slipping, Job
      <4> QED BY <3>1, <4>2 DEF Recorded
    <3> QED BY <3>2, <3>3
  <2> QED BY <1>1, <1>2, <2>1, <2>2 DEF Keeps
<1>8. TypeOK'
  <2>1. excused' \cup slipped' \subseteq Rollbacks
    BY HistoryTyped
  <2> QED BY <1>1, <1>2, <1>5, <2>1 DEF IInv, TypeOK
<1>9. HeadHolds'
  <2>1. head'.package = p /\ head'.revision = n /\ release'[p].at = n
    BY <1>1, <1>3, <1>5
  <2> QED BY <2>1 DEF HeadHolds
<1>10. ASSUME NEW u \in Packages PROVE ReleaseHolds(u)' /\ AskedFor(u)'
  <2>1. ReleaseHolds(u)'
    BY <1>2, <1>3, <1>5 DEF IInv, ReleaseHolds
  <2>2. AskedFor(u)'
    BY <1>1, <1>3, <1>5 DEF IInv, AskedFor
  <2> QED BY <2>1, <2>2
<1> QED BY <1>1, <1>7, <1>8, <1>9, <1>10, RollbackAssumption, OthersKept

----------------------------------------------------------------------------
(* The theorems *)

(* The channel has its first head, and the operators' packages are ready.  *)
LEMMA InitIInv == Init => IInv
<1> SUFFICES ASSUME Init PROVE IInv
  OBVIOUS
<1>1. /\ head = [revision |-> 1, package |-> None]
      /\ \A p \in Packages : publish[p] = NoPublish
      /\ \A r \in Rollbacks : rollback[r] = NoRollback
      /\ \A w \in Workers : worker[w] = Idle
  BY DEF Init
<1>2. ASSUME NEW p \in Packages
      PROVE  /\ release[p] \in Release /\ release[p].at = 0 /\ release[p].status # "published"
  BY RollbackAssumption DEF Init, Absent, Release, Packages
<1>3. NoRollback \in Rollback /\ NoRollback.phase = "none" /\ NoRollback.attempts <= NoRollback.max
  BY RollbackAssumption DEF NoRollback, Rollback
<1>4. NoPublish \in Publish /\ NoPublish.phase = "none"
  BY RollbackAssumption DEF NoPublish, Publish
<1>5. TypeOK
  BY <1>1, <1>2, <1>3, <1>4, IdleWorker, RollbackAssumption DEF Init, TypeOK
<1>6. HeadHolds /\ AloneHolds
  BY <1>1, IdleWorker, RollbackAssumption DEF HeadHolds, AloneHolds, Job
<1>7. /\ \A p \in Packages : ReleaseHolds(p) /\ AskedFor(p)
      /\ \A r \in Rollbacks : RollbackHolds(r) /\ PublishHolds(r)
  BY <1>1, <1>2, <1>3, <1>4 DEF ReleaseHolds, AskedFor, RollbackHolds, PublishHolds, Packages
<1>8. \A w \in Workers : WorkerHolds(w)
  BY <1>1, IdleWorker DEF WorkerHolds
<1> QED BY <1>5, <1>6, <1>7, <1>8 DEF IInv

(* Every step keeps the inductive invariant.                               *)
LEMMA NextIInv == IInv /\ [Next]_vars => IInv'
<1> SUFFICES ASSUME IInv, [Next]_vars PROVE IInv'
  OBVIOUS
<1>1. CASE UNCHANGED vars
  <2>1. TypeOK' /\ HeadHolds' /\ AloneHolds' /\ (\A w \in Workers : WorkerHolds(w)')
    BY <1>1 DEF vars, IInv, TypeOK, HeadHolds, AloneHolds, Job, WorkerHolds, Own, Signed, Replaced
  <2>2. /\ \A p \in Packages : ReleaseHolds(p)' /\ AskedFor(p)'
        /\ \A r \in Rollbacks : RollbackHolds(r)' /\ PublishHolds(r)'
    BY <1>1 DEF vars, IInv, ReleaseHolds, AskedFor, RollbackHolds, PublishHolds, Signed, Replaced
  <2> QED BY <2>1, <2>2 DEF IInv
<1>2. CASE Next
  <2>1. Recorded
    BY <1>2 DEF Next, Watched
  <2>2. ASSUME NEW w \in Workers, Work(w) \/ GivesUp(w) PROVE IInv'
    BY <2>1, <2>2, LockChannelPreserves, CompareHeadPreserves, OpenReleasePreserves, CopyFilesPreserves,
       SignReleasePreserves, CheckReleasePreserves, ReadReleasePreserves, ConsiderPreserves, EnqueuePublishPreserves,
       AwaitPreserves, GivesUpPreserves DEF Work, Stage
  <2>3. ASSUME NEW r \in Rollbacks, Lease(r) PROVE IInv'
    BY <2>1, <2>3, LeaseJobPreserves DEF Lease
  <2>4. ASSUME NEW r \in Rollbacks, RequestRollback(r) \/ CancelOperationJob(r) \/ RetryOperationJob(r)
                                    \/ JobLapses(r) \/ Retire(r)
        PROVE  IInv'
    BY <2>1, <2>4, RollbackRowsPreserve
  <2>5. ASSUME \/ \E o \in Orders, p \in Packages : RequestPublish(o, p)
               \/ \E j \in Packages : RetryPublish(j) \/ PublishFails(j)
        PROVE  IInv'
    BY <2>1, <2>5, PublishRowsPreserve
  <2> QED BY <1>2, <2>1, <2>2, <2>3, <2>4, <2>5, LockLapsesPreserves, CommitPublishPreserves
          DEF Next, Watched, Operator
<1> QED BY <1>1, <1>2

(* The inductive invariant holds in every reachable state.                 *)
THEOREM Invariance == Spec => []IInv
BY InitIInv, NextIInv, PTL DEF Spec

(* Jobs, releases, locks and workers have their types.                     *)
THEOREM TypeCorrect == Spec => []TypeOK
<1>1. IInv => TypeOK
  BY DEF IInv
<1> QED BY Invariance, <1>1, PTL

(* A rollback that says so has rolled the channel back, over the head its  *)
(* operator saw, whoever published the release and in whatever attempt,    *)
(* unless a job other than its own did while a worker was between its      *)
(* check of the release and its last read of it.                           *)
THEOREM RollbacksReplaceTheirHead == Spec => []RollbackReplacedItsHead
<1>1. IInv => RollbackReplacedItsHead
  BY DEF IInv, RollbackHolds, Replaced, RollbackReplacedItsHead
<1> QED BY Invariance, <1>1, PTL

(* What was enqueued for publishing no later attempt signs again, unless   *)
(* two workers have run the rollback at once or one of them no longer      *)
(* trusted the signature.                                                  *)
THEOREM ReleasesAreKept == Spec => []RetriesKeepTheRelease
<1>1. IInv => RetriesKeepTheRelease
  BY DEF IInv, PublishHolds, RetriesKeepTheRelease
<1> QED BY Invariance, <1>1, PTL

(* Whatever a worker does to the release it stages, it publishes nothing.  *)
LEMMA WorkPublishesNothing ==
  ASSUME IInv, NEW w \in Workers, Work(w) \/ GivesUp(w)
  PROVE  head' = head /\ PublishedReleases' = PublishedReleases
<1>1. release \in [Packages -> Release]
  BY DEF IInv, TypeOK
<1>2. head' = head /\ \A p \in Packages : release'[p].at = release[p].at
  <2>1. CASE UNCHANGED <<head, release>>
    BY <2>1
  <2>2. CASE ~UNCHANGED <<head, release>>
    <3>1. OpenRelease(w) \/ SignRelease(w) \/ CheckRelease(w)
      BY <2>2 DEF Work, Stage, GivesUp, LockChannel, CompareHead, CopyFiles, ReadRelease, FindPublished,
                  Consider, EnqueuePublish, AwaitPublish, ConfirmHead, Staging
    <3>2. /\ head' = head
          /\ \/ release' = release
             \/ \E status \in {"draft", "broken", "checked"} :
                  release' = [release EXCEPT ![Job(w)].status = status]
             \/ release' = [release EXCEPT ![Job(w)].status = "staged", ![Job(w)].content = @ + 1]
      BY <3>1 DEF OpenRelease, SignRelease, CheckRelease, Staging
    <3> QED BY <1>1, <3>2 DEF Release
  <2> QED BY <2>1, <2>2
<1> QED BY <1>2 DEF PublishedReleases

(* A publish job that commits makes one release the next revision.         *)
LEMMA CommitPublishes ==
  ASSUME IInv, NEW j \in Packages, CommitPublish(j)
  PROVE  \E p \in Packages : Promise!Publish(p)
<1> DEFINE p == publish[j].package
           n == head.revision + 1
<1>1. /\ publish[j].phase = "open" /\ release[p].status = "checked"
      /\ head' = [revision |-> n, package |-> p]
      /\ release' = [release EXCEPT ![p].status = "published", ![p].at = n]
  BY DEF CommitPublish, AsRequested
<1>2. /\ p \in Packages /\ release \in [Packages -> Release]
      /\ head.revision \in Nat /\ release[p].at = 0
  BY <1>1 DEF IInv, TypeOK, AskedFor, ReleaseHolds
<1>3. /\ head'.revision - 1 = (head.revision - 1) + 1 /\ head'.package = p
  BY <1>1, <1>2
<1>4. release'[p].at = n /\ n # 0 /\ \A u \in Packages \ {p} : release'[u] = release[u]
  BY <1>1, <1>2 DEF Release
<1>5. p \notin PublishedReleases /\ PublishedReleases' = PublishedReleases \cup {p}
  BY <1>2, <1>4 DEF PublishedReleases
<1> QED BY <1>2, <1>3, <1>5 DEF Promise!Publish

(* Rollbacks, retried and interrupted as they are, keep the promise of the *)
(* channel: each revision of the head is of a release never published      *)
(* before.                                                                 *)
THEOREM ChannelImplemented == Spec => ImplementsReleaseChannel
<1>1. Init => Promise!Init
  <2> SUFFICES ASSUME Init PROVE Promise!Init
    OBVIOUS
  <2>1. head.revision - 1 = 0 /\ head.package = None
    BY DEF Init
  <2>2. \A p \in Packages : release[p].at = 0
    BY DEF Init, Absent
  <2> QED BY <2>1, <2>2 DEF Promise!Init, PublishedReleases
<1>2. IInv /\ [Next]_vars => [Promise!Next]_<<head.revision - 1, head.package, PublishedReleases>>
  <2> SUFFICES ASSUME IInv, [Next]_vars
               PROVE  [Promise!Next]_<<head.revision - 1, head.package, PublishedReleases>>
    OBVIOUS
  <2>1. ASSUME NEW w \in Workers, Work(w) \/ GivesUp(w)
        PROVE  head' = head /\ PublishedReleases' = PublishedReleases
    BY <2>1, WorkPublishesNothing
  <2>2. ASSUME NEW j \in Packages, CommitPublish(j) PROVE Promise!Next
    BY <2>2, CommitPublishes DEF Promise!Next
  <2>3. \/ \E w \in Workers : Work(w) \/ GivesUp(w)
        \/ \E j \in Packages : CommitPublish(j)
        \/ UNCHANGED <<head, release>>
    BY DEF Next, vars, Watched, Operator, RequestRollback, CancelOperationJob, RetryOperationJob,
           RequestPublish, RetryPublish, Lease, LeaseJob, JobLapses, Retire, LockLapses, PublishFails
  <2>4. CASE UNCHANGED <<head, release>>
    BY <2>4 DEF PublishedReleases
  <2> QED BY <2>1, <2>2, <2>3, <2>4
<1> QED BY <1>1, <1>2, Invariance, PTL DEF Spec, ImplementsReleaseChannel, Promise!Spec
====

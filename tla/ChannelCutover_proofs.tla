---- MODULE ChannelCutover_proofs ----
(***************************************************************************)
(* Proofs about ChannelCutover, for any number of releases, migrations and *)
(* publish jobs, and whatever state the channel starts in.                 *)
(*                                                                         *)
(* A route's hold on the head is inductive once the route knows itself     *)
(* (RouteKnowsItself).  The order of the generations is not: the check     *)
(* that keeps it is made outside the transaction that publishes.  What     *)
(* saves it is that a head's revision, once passed, does not come back, so *)
(* that a job whose check is stale fails the comparison of revisions; and  *)
(* the one step that does take revisions back, a rollback that deletes the *)
(* head, can only come when nothing was published since the checks.        *)
(***************************************************************************)
EXTENDS ChannelCutover, SequenceTheorems, TLAPS

----------------------------------------------------------------------------
(* The inductive invariant *)

OpenPhases == {"open", "compared", "checked"}
Phases == {"none", "published", "conflict", "abandoned"} \cup OpenPhases
HeadRow == [revision : Nat, release : Releases \cup {None}, digest : BOOLEAN]
RouteRow == [state : {"none", "staged", "active", "cancelled", "rolled_back"},
             run : Runs \cup {None}, revision : Nat, target : Releases \cup {None},
             baseline : HeadRow, activated : Nat]
PlanRow == [state : {"none", "planned", "completed"}, revision : Nat, fresh : BOOLEAN]
RequestRow == [phase : Phases, release : Releases \cup {None}, expected : Nat, moves : Nat]

RowTypes == /\ published \in Seq(Releases) /\ generation \in [Releases -> Nat]
            /\ head \in HeadRow /\ route \in RouteRow /\ plan \in PlanRow
            /\ request \in [Publishers -> RequestRow]
            /\ moves \in Nat /\ before \in Releases \cup {None}

(* The head is a published release, published once, or no row at all.      *)
HeadIsPublished == /\ IsInjective(published)
                   /\ head.revision = 0 <=> head = NoHead
                   /\ head.revision > 0 => head.release \in Published

(* A route that is staged or active is to a published release, from the    *)
(* head that was served when it was staged; and it holds the head.         *)
RouteKnowsItself ==
  /\ route.revision = CASE route.state = "none" -> 0
                        [] route.state = "staged" -> 1
                        [] route.state \in {"active", "cancelled"} -> 2
                        [] route.state = "rolled_back" -> 3
  /\ Fenced => /\ route.target \in Published
               /\ route.baseline.revision = 0 <=> route.baseline = NoHead
               /\ route.baseline.revision > 0 => route.baseline.release \in Published
               /\ route.baseline.release = before
  /\ route.state = "staged" => head = route.baseline
  /\ route.state = "active" => HeadIsTarget /\ route.activated = route.baseline.revision + 1

(* A rollback has deleted the head, and nobody has published since.        *)
Deleted == route.state = "rolled_back" /\ head.revision = 0 /\ published # << >>

(* What a job has read of the head is the head's, or is past and will not  *)
(* come back.                                                              *)
RequestAgrees(p) == request[p].phase \in OpenPhases =>
  /\ request[p].release \in Releases /\ generation[request[p].release] > 0
  /\ request[p].expected <= head.revision \/ (Deleted /\ request[p].expected = 1)
  /\ request[p].moves <= moves
  /\ request[p].moves = moves => head.revision = request[p].expected
  /\ head.revision = request[p].expected /\ head.revision > 0 => request[p].moves = moves
RequestsAgree == \A p \in Publishers : RequestAgrees(p)

(* A check that has become stale belongs to a job whose revision is past.  *)
ChecksHold == \A p \in Publishers : request[p].phase = "checked" =>
  Newer(request[p].release) \/ head.revision > request[p].expected

(* While the head has never been replaced by a publisher, or the route may *)
(* still be rolled back to that time, no check is stale.                   *)
Untouched == head.revision = 0 \/ (Fenced /\ route.baseline.revision = 0)
EarlyChecksHold == Untouched =>
  \A p \in Publishers : request[p].phase = "checked" => Newer(request[p].release)

(* Before the first release there is nothing to move.                      *)
NothingYet == published = << >> => moves = 0 /\ head = NoHead /\ route.state = "none"

IInv == /\ RowTypes /\ HeadIsPublished /\ RouteKnowsItself /\ RequestsAgree
        /\ ChecksHold /\ EarlyChecksHold /\ NothingYet /\ PublishedInOrder

----------------------------------------------------------------------------
(* Sequences of releases *)

(* A release that is new to a sequence is put at its end.                  *)
LEMMA AppendShape ==
  ASSUME NEW S, NEW s \in Seq(S), NEW r \in S, IsInjective(s), r \notin ToSet(s)
  PROVE  /\ Append(s, r) \in Seq(S) /\ Append(s, r) # << >> /\ IsInjective(Append(s, r))
         /\ ToSet(Append(s, r)) = ToSet(s) \cup {r}
         /\ DOMAIN Append(s, r) = 1 .. Len(s) + 1 /\ DOMAIN s = 1 .. Len(s)
         /\ Append(s, r)[Len(s) + 1] = r
         /\ \A i \in 1 .. Len(s) : Append(s, r)[i] = s[i]
<1>1. /\ Append(s, r) \in Seq(S) /\ Append(s, r) # << >> /\ Len(s) \in Nat
      /\ DOMAIN Append(s, r) = 1 .. Len(s) + 1 /\ DOMAIN s = 1 .. Len(s)
      /\ Append(s, r)[Len(s) + 1] = r
      /\ \A i \in 1 .. Len(s) : Append(s, r)[i] = s[i]
  OBVIOUS
<1>2. ToSet(Append(s, r)) = ToSet(s) \cup {r}
  <2>1. ASSUME NEW i \in DOMAIN Append(s, r) PROVE Append(s, r)[i] \in ToSet(s) \cup {r}
    <3>1. i \in 1 .. Len(s) \/ i = Len(s) + 1
      BY <1>1
    <3> QED BY <1>1, <3>1 DEF ToSet
  <2>2. ToSet(s) \subseteq ToSet(Append(s, r)) /\ r \in ToSet(Append(s, r))
    BY <1>1 DEF ToSet
  <2> QED BY <2>1, <2>2 DEF ToSet
<1>3. IsInjective(Append(s, r))
  <2>1. ASSUME NEW i \in 1 .. Len(s) + 1, NEW j \in 1 .. Len(s) + 1, Append(s, r)[i] = Append(s, r)[j]
        PROVE  i = j
    <3>1. \A k \in 1 .. Len(s) : s[k] # r
      BY <1>1 DEF ToSet
    <3>2. (i \in 1 .. Len(s) \/ i = Len(s) + 1) /\ (j \in 1 .. Len(s) \/ j = Len(s) + 1)
      BY <1>1
    <3> QED BY <1>1, <2>1, <3>1, <3>2 DEF IsInjective
  <2> QED BY <1>1, <2>1 DEF IsInjective
<1> QED BY <1>1, <1>2, <1>3

(* The last release published is one of those published.                   *)
LEMMA LastIsOne ==
  ASSUME NEW S, NEW s \in Seq(S), s # << >>
  PROVE  Last(s) \in ToSet(s)
BY DEF Last, ToSet

(* The head that CommitDurablePublish compares with.                       *)
LEMMA BootstrappedShape ==
  ASSUME IInv
  PROVE  /\ Bootstrapped \in HeadRow
         /\ head.revision > 0 \/ published = << >> => Bootstrapped = head
         /\ head.revision = 0 /\ published # << >> => Bootstrapped.revision = 1
<1>1. RowTypes
  BY DEF IInv
<1>2. CASE head.revision = 0 /\ published # << >>
  <2>1. Last(published) \in Releases
    BY <1>1, <1>2, LastIsOne DEF RowTypes, ToSet
  <2> QED BY <1>2, <2>1 DEF Bootstrapped, HeadRow
<1> QED BY <1>1, <1>2 DEF Bootstrapped, RowTypes, HeadRow

----------------------------------------------------------------------------
(* Signing *)

(* A release that is signed is not published yet, and no job has it.       *)
LEMMA SignPreserves ==
  ASSUME IInv, NEW r \in Releases, NEW g \in Nat, Sign(r, g)
  PROVE  IInv'
<1>1. /\ r \notin Published /\ generation[r] = 0 /\ generation' = [generation EXCEPT ![r] = g]
      /\ UNCHANGED <<published, head, moves, request, route, plan, before>>
  BY DEF Sign, migrationVars
<1>2. RowTypes /\ generation \in [Releases -> Nat] /\ published \in Seq(Releases)
  BY DEF IInv, RowTypes
<1>3. Published \subseteq Releases /\ Published' = Published
  BY <1>1, <1>2 DEF Published, ToSet
<1>4. \A q \in Published : generation'[q] = generation[q]
  BY <1>1, <1>2, <1>3
<1>5. RowTypes' /\ HeadIsPublished'
  BY <1>1, <1>2, <1>3 DEF IInv, RowTypes, HeadIsPublished
<1>6. RouteKnowsItself' /\ NothingYet'
  BY <1>1, <1>3 DEF IInv, RouteKnowsItself, NothingYet, Fenced, HeadIsTarget
<1>7. ASSUME NEW p \in Publishers, request[p].phase \in OpenPhases
      PROVE  /\ request[p].release \in Releases /\ generation'[request[p].release] > 0
             /\ generation'[request[p].release] = generation[request[p].release]
  BY <1>1, <1>2, <1>7 DEF IInv, RequestsAgree, RequestAgrees
<1>8. RequestsAgree'
  BY <1>1, <1>7 DEF IInv, RequestsAgree, RequestAgrees, Deleted
<1>9. ASSUME NEW p \in Publishers, request[p].phase = "checked", Newer(request[p].release)
      PROVE  Newer(request[p].release)'
  BY <1>1, <1>3, <1>4, <1>7, <1>9 DEF Newer, OpenPhases
<1>10. ChecksHold' /\ EarlyChecksHold'
  BY <1>1, <1>9 DEF IInv, ChecksHold, EarlyChecksHold, Untouched, Fenced
<1>11. PublishedInOrder'
  <2>1. \A i \in DOMAIN published : published[i] \in Published
    BY DEF Published, ToSet
  <2> QED BY <1>1, <1>4, <2>1 DEF IInv, PublishedInOrder
<1> QED BY <1>5, <1>6, <1>8, <1>10, <1>11 DEF IInv

----------------------------------------------------------------------------
(* Publish jobs *)

(* A step of one job that leaves the head and the routes alone.            *)
LEMMA JobPreserves ==
  ASSUME IInv, NEW p \in Publishers, NEW row \in RequestRow,
         request' = [request EXCEPT ![p] = row], UNCHANGED <<channelVars, migrationVars>>,
         RequestAgrees(p)', row.phase = "checked" => Newer(row.release)
  PROVE  IInv'
<1>1. UNCHANGED <<published, generation, head, moves, route, plan, before>>
  BY DEF channelVars, migrationVars
<1>2. request' \in [Publishers -> RequestRow] /\ request'[p] = row
      /\ \A q \in Publishers \ {p} : request'[q] = request[q]
  BY DEF IInv, RowTypes
<1>3. RowTypes' /\ HeadIsPublished' /\ RouteKnowsItself' /\ NothingYet' /\ PublishedInOrder'
  BY <1>1, <1>2 DEF IInv, RowTypes, HeadIsPublished, RouteKnowsItself, NothingYet, PublishedInOrder,
                    Published, Fenced, HeadIsTarget
<1>4. RequestsAgree'
  BY <1>1, <1>2 DEF IInv, RequestsAgree, RequestAgrees, Deleted
<1>5. ChecksHold' /\ EarlyChecksHold'
  <2>1. ASSUME NEW q \in Publishers, request'[q].phase = "checked"
        PROVE  /\ Newer(request'[q].release) \/ head.revision > request'[q].expected
               /\ Untouched => Newer(request'[q].release)
    BY <1>2, <2>1 DEF IInv, ChecksHold, EarlyChecksHold
  <2> QED BY <1>1, <1>2, <2>1 DEF ChecksHold, EarlyChecksHold, Untouched, Fenced, Newer, Published
<1> QED BY <1>3, <1>4, <1>5 DEF IInv

(* A new request reads the head as it is.                                  *)
LEMMA EnqueuePreserves ==
  ASSUME IInv, NEW p \in Publishers, NEW r \in Releases, Enqueue(p, r)
  PROVE  IInv'
<1> DEFINE row == [phase |-> "open", release |-> r, expected |-> head.revision, moves |-> moves]
<1>1. RowTypes /\ head.revision \in Nat /\ moves \in Nat /\ generation[r] > 0
  BY DEF IInv, RowTypes, HeadRow, Enqueue
<1>2. row \in RequestRow
  BY <1>1 DEF RequestRow, Phases, OpenPhases
<1>3. request' = [request EXCEPT ![p] = row] /\ UNCHANGED <<channelVars, migrationVars>>
  BY DEF Enqueue
<1>4. request'[p] = row /\ UNCHANGED <<published, generation, head, moves, route, plan, before>>
  BY <1>1, <1>3 DEF RowTypes, channelVars, migrationVars
<1>5. RequestAgrees(p)'
  BY <1>1, <1>4 DEF RequestAgrees, OpenPhases
<1> QED BY <1>2, <1>3, <1>5, JobPreserves

(* A job that goes on keeps what it has read.                              *)
LEMMA StepsPreserve ==
  ASSUME IInv, NEW p \in Publishers, NEW phase \in Phases \ {"none"}, Steps(p, phase),
         UNCHANGED <<channelVars, migrationVars>>, request[p].phase \in OpenPhases,
         phase = "checked" => Newer(request[p].release)
  PROVE  IInv'
<1> DEFINE row == [request[p] EXCEPT !.phase = phase]
<1>1. RowTypes /\ request[p] \in RequestRow /\ RequestAgrees(p)
  BY DEF IInv, RowTypes, RequestsAgree
<1>2. row \in RequestRow /\ row.phase = phase /\ row.release = request[p].release
      /\ row.expected = request[p].expected /\ row.moves = request[p].moves
  BY <1>1 DEF RequestRow
<1>3. request' = [request EXCEPT ![p] = row]
  BY DEF Steps
<1>4. request'[p] = row /\ UNCHANGED <<published, generation, head, moves, route, plan, before>>
  BY <1>1, <1>3 DEF RowTypes, channelVars, migrationVars
<1> HIDE DEF row
<1>5. RequestAgrees(p)'
  BY <1>1, <1>2, <1>4 DEF RequestAgrees, Deleted
<1> QED BY <1>2, <1>3, <1>5, JobPreserves

(* The steps of a publish job that publish nothing.                        *)
LEMMA UnpublishedPreserves ==
  ASSUME IInv, NEW p \in Publishers,
         \/ \E r \in Releases : Enqueue(p, r)
         \/ CompareHead(p) \/ CheckGeneration(p) \/ ConflictAtCommit(p) \/ Retry(p) \/ GiveUp(p)
  PROVE  IInv'
<1> USE DEF Phases, OpenPhases
<1>1. CASE \E r \in Releases : Enqueue(p, r)
  BY <1>1, EnqueuePreserves
<1>2. CASE CompareHead(p)
  <2>1. PICK phase \in {"compared", "conflict"} : Steps(p, phase)
    BY <1>2 DEF CompareHead
  <2> QED BY <1>2, <2>1, StepsPreserve DEF CompareHead
<1>3. CASE CheckGeneration(p)
  BY <1>3, StepsPreserve DEF CheckGeneration
<1>4. CASE ConflictAtCommit(p)
  BY <1>4, StepsPreserve DEF ConflictAtCommit
<1>5. CASE Retry(p) \/ GiveUp(p)
  BY <1>5, StepsPreserve DEF Retry, GiveUp
<1> QED BY <1>1, <1>2, <1>3, <1>4, <1>5

(* What a job that may publish has checked is still true: nothing has been *)
(* published since.                                                        *)
LEMMA CheckIsFresh ==
  ASSUME IInv, NEW p \in Publishers, request[p].phase = "checked", Expected(p)
  PROVE  Newer(request[p].release)
<1>1. RowTypes /\ head.revision \in Nat /\ request[p].expected \in Nat
  BY DEF IInv, RowTypes, HeadRow, RequestRow
<1>2. CASE head.revision = 0
  BY <1>2 DEF IInv, EarlyChecksHold, Untouched
<1>3. CASE head.revision > 0
  BY <1>1, <1>3, BootstrappedShape DEF IInv, ChecksHold, Expected
<1> QED BY <1>1, <1>2, <1>3

(* Publishing: the head moves past every revision anybody has read.        *)
LEMMA CommitPreserves ==
  ASSUME IInv, NEW p \in Publishers, CommitDurablePublish(p)
  PROVE  IInv'
<1> DEFINE r == request[p].release
           B == Bootstrapped
<1>1. /\ request[p].phase = "checked" /\ r \notin Published /\ Expected(p) /\ ~Fenced
      /\ head' = [revision |-> B.revision + 1, release |-> r, digest |-> TRUE]
      /\ moves' = moves + 1 /\ published' = Append(published, r)
      /\ request' = [request EXCEPT ![p].phase = "published"]
      /\ UNCHANGED <<generation, route, plan, before>>
  BY DEF CommitDurablePublish, SetHead, Advance, Steps, migrationVars
<1>2. /\ RowTypes /\ B \in HeadRow /\ B.revision \in Nat /\ head.revision \in Nat /\ moves \in Nat
      /\ published \in Seq(Releases) /\ generation \in [Releases -> Nat]
      /\ request \in [Publishers -> RequestRow] /\ IsInjective(published)
  BY BootstrappedShape DEF IInv, RowTypes, HeadRow, HeadIsPublished
<1>3. r \in Releases /\ generation[r] > 0 /\ Newer(r)
  BY <1>1, CheckIsFresh DEF IInv, RequestsAgree, RequestAgrees, OpenPhases
<1>4. /\ published' \in Seq(Releases) /\ published' # << >> /\ IsInjective(published')
      /\ Published' = Published \cup {r}
      /\ DOMAIN published' = 1 .. Len(published) + 1 /\ DOMAIN published = 1 .. Len(published)
      /\ published'[Len(published) + 1] = r
      /\ \A i \in 1 .. Len(published) : published'[i] = published[i]
  BY <1>1, <1>2, <1>3, AppendShape DEF Published
<1>5. /\ head' \in HeadRow /\ head'.revision = B.revision + 1 /\ head'.release = r
      /\ head'.revision > 0 /\ head' # NoHead
  BY <1>1, <1>2, <1>3 DEF HeadRow, NoHead
<1>6. /\ request' \in [Publishers -> RequestRow] /\ request'[p].phase = "published"
      /\ \A q \in Publishers \ {p} : request'[q] = request[q]
  BY <1>1, <1>2 DEF RequestRow, Phases
<1>7. RowTypes'
  BY <1>1, <1>2, <1>4, <1>5, <1>6 DEF RowTypes
<1>8. HeadIsPublished' /\ NothingYet'
  BY <1>4, <1>5 DEF HeadIsPublished, NothingYet
<1>9. RouteKnowsItself' /\ ~Fenced'
  BY <1>1 DEF IInv, RouteKnowsItself, Fenced
<1>10. ASSUME NEW q \in Publishers \ {p}, request[q].phase \in OpenPhases
       PROVE  request[q].expected < head'.revision
  <2>1. request[q].expected \in Nat
    BY <1>2 DEF RequestRow
  <2>2. request[q].expected <= head.revision \/ (Deleted /\ request[q].expected = 1)
    BY <1>10 DEF IInv, RequestsAgree, RequestAgrees
  <2>3. head.revision <= B.revision /\ (Deleted => B.revision = 1)
    BY <1>2, BootstrappedShape DEF Deleted
  <2> QED BY <1>2, <1>5, <2>1, <2>2, <2>3
<1>11. RequestsAgree'
  <2>1. ASSUME NEW q \in Publishers \ {p} PROVE RequestAgrees(q)'
    <3>1. request[q].expected \in Nat /\ request[q].moves \in Nat
      BY <1>2 DEF RequestRow
    <3> QED BY <1>1, <1>2, <1>5, <1>6, <1>10, <3>1 DEF IInv, RequestsAgree, RequestAgrees
  <2>2. RequestAgrees(p)'
    BY <1>6 DEF RequestAgrees, OpenPhases
  <2> QED BY <2>1, <2>2 DEF RequestsAgree
<1>12. ChecksHold' /\ EarlyChecksHold'
  BY <1>5, <1>6, <1>9, <1>10 DEF ChecksHold, EarlyChecksHold, Untouched, OpenPhases
<1>13. PublishedInOrder'
  <2>1. ASSUME NEW i \in 1 .. Len(published) + 1, NEW j \in 1 .. Len(published) + 1, i < j
        PROVE  \/ generation[published'[i]] < generation[published'[j]]
               \/ generation[published'[i]] = 0 /\ generation[published'[j]] = 0
    <3>1. Len(published) \in Nat
      BY <1>2
    <3>2. CASE j \in 1 .. Len(published)
      BY <1>4, <2>1, <3>1, <3>2 DEF IInv, PublishedInOrder
    <3>3. CASE j = Len(published) + 1
      <4>1. i \in 1 .. Len(published) /\ published[i] \in Published
        BY <1>4, <2>1, <3>1, <3>3 DEF Published, ToSet
      <4> QED BY <1>3, <1>4, <3>3, <4>1 DEF Newer
    <3> QED BY <3>1, <3>2, <3>3
  <2> QED BY <1>1, <1>4, <2>1 DEF PublishedInOrder
<1> QED BY <1>7, <1>8, <1>9, <1>11, <1>12, <1>13 DEF IInv

----------------------------------------------------------------------------
(* Routes *)

(* A step of route and plan that leaves the head and the jobs alone.       *)
LEMMA RoutePreserves ==
  ASSUME IInv, UNCHANGED <<channelVars, request>>,
         route' \in RouteRow, plan' \in PlanRow, before' \in Releases \cup {None},
         RouteKnowsItself', route.state # "rolled_back" \/ route' = route,
         Untouched' => Untouched, published # << >> \/ route' = route
  PROVE  IInv'
<1>1. UNCHANGED <<published, generation, head, moves, request>>
  BY DEF channelVars
<1>2. RowTypes' /\ HeadIsPublished' /\ NothingYet' /\ PublishedInOrder'
  BY <1>1 DEF IInv, RowTypes, HeadIsPublished, NothingYet, PublishedInOrder, Published
<1>3. RequestsAgree'
  <2>1. Deleted => Deleted'
    BY <1>1 DEF Deleted
  <2> QED BY <1>1, <2>1 DEF IInv, RequestsAgree, RequestAgrees
<1>4. ChecksHold' /\ EarlyChecksHold'
  BY <1>1 DEF IInv, ChecksHold, EarlyChecksHold, Newer, Published
<1> QED BY <1>2, <1>3, <1>4 DEF IInv

(* The baseline is the head that is served.                                *)
LEMMA StagePreserves ==
  ASSUME IInv, NEW run \in Runs, NEW r \in Releases, Stage(run, r, head.revision)
  PROVE  IInv'
<1>1. /\ r \in Published /\ route.state = "none"
      /\ route' = [state |-> "staged", run |-> run, revision |-> 1, target |-> r,
                   baseline |-> head, activated |-> 0]
      /\ before' = head.release /\ UNCHANGED <<channelVars, plan, request>>
      /\ UNCHANGED <<published, generation, head, moves>>
  BY DEF Stage, channelVars
<1>2. RowTypes /\ head \in HeadRow /\ head.release \in Releases \cup {None} /\ HeadIsPublished
  BY DEF IInv, RowTypes, HeadRow
<1>3. route' \in RouteRow
  BY <1>1, <1>2 DEF RouteRow
<1>4. published # << >>
  BY <1>1 DEF Published, ToSet
<1>5. RouteKnowsItself'
  BY <1>1, <1>2 DEF RouteKnowsItself, HeadIsPublished, Fenced, Published, HeadIsTarget, NoHead
<1>6. Untouched' => Untouched
  BY <1>1 DEF Untouched
<1> QED BY <1>1, <1>2, <1>3, <1>4, <1>5, <1>6, RoutePreserves DEF RowTypes

(* A row whose state moves on keeps its run, its target and its baseline.  *)
MovesTo(row, moved, state, n) ==
  /\ moved \in RouteRow /\ moved.state = state /\ moved.revision = n
  /\ moved.baseline = row.baseline /\ moved.target = row.target

(* A route that goes on keeps its target, its baseline and its run.        *)
LEMMA RouteMoves ==
  \A row \in RouteRow, state \in {"active", "cancelled", "rolled_back"}, n \in Nat :
    MovesTo(row, [row EXCEPT !.state = state, !.revision = n], state, n)
BY DEF MovesTo, RouteRow

(* Cancelling gives up the fence on a head that has not moved.             *)
LEMMA CancelPreserves ==
  ASSUME IInv, NEW run \in Runs, NEW n \in Nat, Cancel(run, n)
  PROVE  IInv'
<1>1. /\ route.state = "staged" /\ route.revision = 1
      /\ route' = [route EXCEPT !.state = "cancelled", !.revision = route.revision + 1]
      /\ UNCHANGED <<channelVars, plan, request, before>>
      /\ UNCHANGED <<published, generation, head, moves>>
  BY DEF Cancel, channelVars, IInv, RouteKnowsItself
<1>2. RowTypes /\ route \in RouteRow /\ NothingYet /\ route.revision + 1 = 2
  BY <1>1 DEF IInv, RowTypes
<1>3. /\ route' \in RouteRow /\ route'.state = "cancelled" /\ route'.revision = 2
      /\ route'.baseline = route.baseline
  <2>1. route.revision + 1 \in Nat
    BY <1>2
  <2>2. MovesTo(route, [route EXCEPT !.state = "cancelled", !.revision = route.revision + 1],
                "cancelled", route.revision + 1)
    BY <1>2, <2>1, RouteMoves
  <2> QED BY <1>1, <1>2, <2>2 DEF MovesTo
<1>4. RouteKnowsItself' /\ (Untouched' => Untouched)
  BY <1>1, <1>3 DEF RouteKnowsItself, Fenced, Untouched
<1>5. published # << >>
  BY <1>1, <1>2 DEF NothingYet
<1> QED BY <1>1, <1>2, <1>3, <1>4, <1>5, RoutePreserves DEF RowTypes

(* A plan is made, or ages: the route is as it was.                        *)
LEMMA PlansPreserve ==
  ASSUME IInv, (\E run \in Runs, n \in Nat : PlanRollback(run, n)) \/ PlanAges
  PROVE  IInv'
<1>1. UNCHANGED <<channelVars, route, request, before>> /\ UNCHANGED <<published, generation, head, moves>>
  BY DEF PlanRollback, PlanAges, channelVars
<1>2. RowTypes /\ route \in RouteRow /\ plan \in PlanRow /\ before \in Releases \cup {None}
  BY DEF IInv, RowTypes
<1>3. plan' \in PlanRow
  <2>1. CASE \E run \in Runs, n \in Nat : PlanRollback(run, n)
    BY <1>2, <2>1 DEF PlanRollback, RouteRow, PlanRow
  <2>2. CASE PlanAges
    BY <1>2, <2>2 DEF PlanAges, PlanRow
  <2> QED BY <2>1, <2>2
<1>4. RouteKnowsItself' /\ (Untouched' => Untouched)
  BY <1>1 DEF IInv, RouteKnowsItself, Untouched, Fenced, Published, HeadIsTarget
<1> QED BY <1>1, <1>2, <1>3, <1>4, RoutePreserves

(* A head that moves on to a published release, or away with the route     *)
(* that has put it there, leaves behind whoever has read it.               *)
LEMMA HeadMovesPreserve ==
  ASSUME IInv, UNCHANGED <<published, generation, request, before>>, moves' = moves + 1,
         head' \in HeadRow, route' \in RouteRow, plan' \in PlanRow, RouteKnowsItself', published # << >>,
         Fenced,
         \/ /\ head'.revision = head.revision + 1 /\ head'.release \in Published
            /\ Untouched' => Untouched
         \/ /\ route.baseline.revision = 0 /\ head.revision = 1
            /\ head' = NoHead /\ route'.state = "rolled_back"
  PROVE  IInv'
<1>1. /\ RowTypes /\ HeadIsPublished /\ head.revision \in Nat /\ moves \in Nat
      /\ request \in [Publishers -> RequestRow]
  BY DEF IInv, RowTypes, HeadRow
<1>2. RowTypes' /\ NothingYet' /\ PublishedInOrder'
  BY <1>1 DEF IInv, RowTypes, NothingYet, PublishedInOrder
<1>3. HeadIsPublished'
  BY <1>1 DEF HeadIsPublished, NoHead, Published
<1>4. ASSUME NEW p \in Publishers, request[p].phase \in OpenPhases
      PROVE  /\ request[p].expected \in Nat /\ request[p].moves \in Nat
             /\ request[p].release \in Releases /\ generation[request[p].release] > 0
             /\ request[p].expected <= head.revision /\ request[p].moves <= moves
  BY <1>1, <1>4 DEF IInv, RequestsAgree, RequestAgrees, RequestRow, Deleted, Fenced
<1>5. RequestsAgree'
  <2>1. CASE head'.revision = head.revision + 1
    BY <1>1, <1>4, <2>1 DEF RequestsAgree, RequestAgrees
  <2>2. CASE head.revision = 1 /\ head' = NoHead /\ route'.state = "rolled_back"
    <3>1. head'.revision = 0 /\ Deleted'
      BY <2>2 DEF Deleted, NoHead
    <3> QED BY <1>1, <1>4, <2>2, <3>1 DEF RequestsAgree, RequestAgrees
  <2> QED BY <2>1, <2>2
<1>6. ASSUME NEW p \in Publishers, request'[p].phase = "checked"
      PROVE  /\ Newer(request[p].release) \/ head'.revision > request[p].expected
             /\ Untouched' => Newer(request[p].release)
  <2>1. request[p].expected <= head.revision /\ request[p].expected \in Nat
    BY <1>4, <1>6 DEF OpenPhases
  <2>2. CASE head'.revision = head.revision + 1
    BY <1>1, <1>6, <2>1, <2>2 DEF IInv, EarlyChecksHold, NoHead
  <2>3. CASE route.baseline.revision = 0
    BY <1>6, <2>3 DEF IInv, EarlyChecksHold, Untouched
  <2> QED BY <2>2, <2>3
<1>7. ChecksHold' /\ EarlyChecksHold'
  BY <1>6 DEF ChecksHold, EarlyChecksHold, Newer, Published
<1> QED BY <1>2, <1>3, <1>5, <1>7 DEF IInv

(* Activating moves the head from the baseline to the target.              *)
LEMMA ActivatePreserves ==
  ASSUME IInv, NEW run \in Runs, NEW n \in Nat, Activate(run, n)
  PROVE  IInv'
<1>1. /\ route.state = "staged" /\ head = route.baseline /\ route.revision = 1
      /\ head' = [revision |-> head.revision + 1, release |-> route.target, digest |-> TRUE]
      /\ moves' = moves + 1
      /\ route' = [route EXCEPT !.state = "active", !.revision = route.revision + 1,
                                !.activated = head.revision + 1]
      /\ UNCHANGED <<published, generation, plan, request, before>>
  BY DEF Activate, SetHead, Advance, IInv, RouteKnowsItself
<1>2. /\ RowTypes /\ route \in RouteRow /\ plan \in PlanRow /\ head \in HeadRow
      /\ head.revision \in Nat /\ head.revision + 1 \in Nat /\ route.revision + 1 = 2
  BY <1>1 DEF IInv, RowTypes, HeadRow
<1>3. route.target \in Published /\ Fenced
  BY <1>1 DEF IInv, RouteKnowsItself, Fenced
<1>4. route.target \in Releases /\ published # << >>
  BY <1>2, <1>3 DEF RowTypes, Published, ToSet
<1>5. /\ route' \in RouteRow /\ route'.state = "active" /\ route'.revision = 2
      /\ route'.baseline = route.baseline /\ route'.target = route.target
      /\ route'.activated = head.revision + 1
  <2>1. \A n1 \in Nat, a \in Nat :
          LET active == [route EXCEPT !.state = "active", !.revision = n1, !.activated = a]
          IN  MovesTo(route, active, "active", n1) /\ active.activated = a
    BY <1>2 DEF MovesTo, RouteRow
  <2>2. route.revision + 1 \in Nat
    BY <1>2
  <2> DEFINE active == [route EXCEPT !.state = "active", !.revision = route.revision + 1,
                                     !.activated = head.revision + 1]
  <2>3. MovesTo(route, active, "active", route.revision + 1) /\ active.activated = head.revision + 1
    BY <1>2, <2>1, <2>2
  <2>4. route' = active
    BY <1>1
  <2> QED BY <1>2, <2>3, <2>4 DEF MovesTo
<1>6. head' \in HeadRow /\ head'.revision = head.revision + 1 /\ head'.release \in Published
  BY <1>1, <1>2, <1>3, <1>4 DEF HeadRow
<1>7. RouteKnowsItself'
  BY <1>1, <1>3, <1>5 DEF IInv, RouteKnowsItself, Fenced, HeadIsTarget, Published
<1>8. Untouched' => Untouched
  BY <1>1, <1>2, <1>3, <1>5, <1>6 DEF Untouched
<1> QED BY <1>1, <1>2, <1>3, <1>4, <1>5, <1>6, <1>7, <1>8, HeadMovesPreserve

(* A rollback restores the baseline, or deletes a head there was none before. *)
LEMMA CommitRollbackPreserves ==
  ASSUME IInv, NEW run \in Runs, NEW n \in Nat, CommitRollback(run, n)
  PROVE  IInv'
<1>1. /\ route.state = "active" /\ HeadIsTarget /\ BaselineHolds /\ route.revision = 2
      /\ head' = RestoredHead /\ moves' = moves + 1
      /\ route' = [route EXCEPT !.state = "rolled_back", !.revision = route.revision + 1]
      /\ plan' = [plan EXCEPT !.state = "completed"]
      /\ UNCHANGED <<published, generation, request, before>>
  BY DEF CommitRollback, SetHead, IInv, RouteKnowsItself
<1>2. /\ RowTypes /\ route \in RouteRow /\ plan \in PlanRow /\ head \in HeadRow /\ head.revision \in Nat
      /\ route.baseline \in HeadRow /\ route.baseline.revision \in Nat /\ route.revision + 1 = 3
  BY <1>1 DEF IInv, RowTypes, HeadRow, RouteRow
<1>3. /\ route.target \in Published /\ Fenced
      /\ route.activated = route.baseline.revision + 1 /\ head.revision = route.activated
  BY <1>1 DEF IInv, RouteKnowsItself, Fenced, HeadIsTarget
<1>4. published # << >>
  BY <1>3 DEF Published, ToSet
<1>5. route' \in RouteRow /\ route'.state = "rolled_back" /\ route'.revision = 3 /\ plan' \in PlanRow
  <2>1. plan' \in PlanRow
    BY <1>1, <1>2 DEF PlanRow
  <2>2. route.revision + 1 \in Nat
    BY <1>2
  <2>3. MovesTo(route, [route EXCEPT !.state = "rolled_back", !.revision = route.revision + 1],
                "rolled_back", route.revision + 1)
    BY <1>2, <2>2, RouteMoves
  <2> QED BY <1>1, <1>2, <2>1, <2>3 DEF MovesTo
<1>6. RouteKnowsItself'
  BY <1>5 DEF RouteKnowsItself, Fenced
<1>7. CASE route.baseline.revision = 0
  <2>1. head' = NoHead /\ NoHead \in HeadRow
    BY <1>1, <1>7 DEF RestoredHead, NoHead, HeadRow
  <2> QED BY <1>1, <1>3, <1>4, <1>5, <1>6, <1>7, <2>1, HeadMovesPreserve
<1>8. CASE route.baseline.revision > 0
  <2>1. /\ head' = [revision |-> head.revision + 1, release |-> route.baseline.release,
                    digest |-> route.baseline.digest]
        /\ route.baseline.release \in Published
    BY <1>1, <1>2, <1>8 DEF RestoredHead, Advance, BaselineHolds
  <2>2. head' \in HeadRow /\ head'.revision = head.revision + 1 /\ head'.release \in Published
    BY <1>2, <2>1 DEF HeadRow
  <2>3. Untouched' => Untouched
    BY <1>2, <1>5, <2>2 DEF Untouched, Fenced
  <2> QED BY <1>1, <1>3, <1>4, <1>5, <1>6, <2>2, <2>3, HeadMovesPreserve
<1> QED BY <1>2, <1>7, <1>8

----------------------------------------------------------------------------
(* The theorems *)

(* It holds of each state a channel may start in.                          *)
LEMMA InitIInv == Init => IInv
<1> SUFFICES ASSUME Init PROVE IInv
  OBVIOUS
<1>1. PICK kind \in Starts, r \in Releases : Start(kind, r)
  BY DEF Init
<1>2. /\ route = NoRoute /\ plan = NoPlan /\ request = [p \in Publishers |-> NoRequest]
      /\ moves = 0 /\ before = None
  BY DEF Init
<1>3. /\ published \in {<< >>, <<r>>} /\ generation \in [Releases -> {0, 1}]
      /\ head \in {NoHead, [revision |-> 1, release |-> r, digest |-> TRUE],
                           [revision |-> 1, release |-> r, digest |-> FALSE]}
      /\ head # NoHead => published = <<r>>
  BY <1>1, CutoverAssumption DEF Start, NoHead
<1>4. /\ published \in Seq(Releases) /\ DOMAIN published \subseteq {1} /\ IsInjective(published)
      /\ published = <<r>> => Published = {r}
  <2>1. CASE published = << >>
    <3>1. DOMAIN published = {} /\ published # <<r>>
      BY <2>1
    <3> QED BY <2>1, <3>1 DEF IsInjective
  <2>2. CASE published = <<r>>
    <3>1. DOMAIN published = {1} /\ published[1] = r
      BY <2>2
    <3> QED BY <2>2, <3>1 DEF IsInjective, Published, ToSet
  <2> QED BY <1>3, <2>1, <2>2
<1>5. RowTypes
  <2>1. NoHead \in HeadRow /\ head \in HeadRow
    <3>1. \A d \in BOOLEAN : [revision |-> 1, release |-> r, digest |-> d] \in HeadRow
      BY DEF HeadRow
    <3>2. NoHead \in HeadRow
      BY DEF HeadRow, NoHead
    <3> QED BY <1>3, <3>1, <3>2
  <2>2. NoRoute \in RouteRow /\ NoPlan \in PlanRow /\ NoRequest \in RequestRow
    BY <2>1 DEF RouteRow, PlanRow, RequestRow, NoRoute, NoPlan, NoRequest, Phases
  <2>3. generation \in [Releases -> Nat]
    BY <1>3
  <2> QED BY <1>2, <1>4, <2>1, <2>2, <2>3 DEF RowTypes
<1>6. HeadIsPublished /\ RouteKnowsItself /\ NothingYet
  BY <1>2, <1>3, <1>4 DEF HeadIsPublished, RouteKnowsItself, NothingYet, NoHead, NoRoute, Fenced
<1>7. RequestsAgree /\ ChecksHold /\ EarlyChecksHold
  BY <1>2 DEF RequestsAgree, RequestAgrees, ChecksHold, EarlyChecksHold, NoRequest, OpenPhases
<1>8. PublishedInOrder
  BY <1>4 DEF PublishedInOrder
<1> QED BY <1>5, <1>6, <1>7, <1>8 DEF IInv

(* Every action preserves the invariant.                                   *)
LEMMA NextIInv == IInv /\ [Next]_vars => IInv'
<1> SUFFICES ASSUME IInv, [Next]_vars PROVE IInv'
  OBVIOUS
<1>1. ASSUME NEW r \in Releases, NEW g \in 1 .. Cardinality(Releases) + 1, Sign(r, g) PROVE IInv'
  <2>1. g \in Nat
    BY <1>1
  <2> QED BY <1>1, <2>1, SignPreserves
<1>2. ASSUME NEW p \in Publishers, Job(p) PROVE IInv'
  BY <1>2, UnpublishedPreserves, CommitPreserves DEF Job
<1>3. CASE Migration
  <2>1. PICK run \in Runs : \/ \E r \in Releases : Stage(run, r, head.revision)
                            \/ \E n \in Nat : \/ Cancel(run, n) \/ Activate(run, n)
                                              \/ PlanRollback(run, n) \/ CommitRollback(run, n)
    BY <1>3 DEF Migration, Revisions
  <2> QED BY <2>1, StagePreserves, CancelPreserves, ActivatePreserves, PlansPreserve, CommitRollbackPreserves
<1>4. CASE PlanAges
  BY <1>4, PlansPreserve
<1>5. CASE UNCHANGED vars
  BY <1>5 DEF vars, IInv, RowTypes, HeadIsPublished, RouteKnowsItself, RequestsAgree, RequestAgrees, Deleted,
              ChecksHold, EarlyChecksHold, Untouched, NothingYet, PublishedInOrder, Published, Fenced,
              HeadIsTarget, Newer
<1> QED BY <1>1, <1>2, <1>3, <1>4, <1>5 DEF Next

(* Only a job's own steps touch its request, and only the migration's the  *)
(* route.                                                                  *)
LEMMA JobMoves ==
  ASSUME IInv, NEW p \in Publishers, Job(p)
  PROVE  route' = route /\ \A q \in Publishers \ {p} : request'[q] = request[q]
<1>1. request \in [Publishers -> RequestRow]
  BY DEF IInv, RowTypes
<1>2. ASSUME NEW r \in Releases, Enqueue(p, r)
      PROVE  route' = route /\ \A q \in Publishers \ {p} : request'[q] = request[q]
  BY <1>1, <1>2 DEF Enqueue, migrationVars
<1>3. CASE CompareHead(p) \/ CheckGeneration(p) \/ Retry(p) \/ GiveUp(p)
  <2>1. route' = route /\ \E phase \in Phases : Steps(p, phase)
    BY <1>3 DEF CompareHead, CheckGeneration, Retry, GiveUp, migrationVars, Phases, OpenPhases
  <2> QED BY <1>1, <2>1 DEF Steps
<1>4. CASE CommitDurablePublish(p) \/ ConflictAtCommit(p)
  <2>1. route' = route /\ \E phase \in Phases : Steps(p, phase)
    BY <1>4 DEF CommitDurablePublish, ConflictAtCommit, migrationVars, Phases
  <2> QED BY <1>1, <2>1 DEF Steps
<1> QED BY <1>2, <1>3, <1>4 DEF Job

(* A step is one job's, or changes no request.                             *)
LEMMA WhoMoves ==
  ASSUME IInv, [Next]_vars
  PROVE  \/ UNCHANGED <<request, route>>
         \/ \E p \in Publishers : /\ Job(p) /\ route' = route
                                  /\ \A q \in Publishers \ {p} : request'[q] = request[q]
         \/ request' = request /\ \E run \in Runs :
              \/ \E r \in Releases : Stage(run, r, head.revision)
              \/ \E n \in Nat : Cancel(run, n) \/ Activate(run, n) \/ CommitRollback(run, n)
<1>1. CASE UNCHANGED vars
  BY <1>1 DEF vars
<1>2. CASE PlanAges \/ \E r \in Releases : \E g \in 1 .. Cardinality(Releases) + 1 : Sign(r, g)
  BY <1>2 DEF PlanAges, Sign, migrationVars
<1>3. ASSUME NEW p \in Publishers, Job(p)
      PROVE  route' = route /\ \A q \in Publishers \ {p} : request'[q] = request[q]
  BY <1>3, JobMoves
<1>4. CASE Migration
  <2>1. PICK run \in Runs : \/ \E r \in Releases : Stage(run, r, head.revision)
                            \/ \E n \in Nat : \/ Cancel(run, n) \/ Activate(run, n)
                                              \/ PlanRollback(run, n) \/ CommitRollback(run, n)
    BY <1>4 DEF Migration, Revisions
  <2>2. ASSUME NEW n \in Nat, PlanRollback(run, n) PROVE UNCHANGED <<request, route>>
    BY <2>2 DEF PlanRollback
  <2>3. ASSUME NEW n \in Nat, Cancel(run, n) \/ Activate(run, n) \/ CommitRollback(run, n)
        PROVE  request' = request
    BY <2>3 DEF Cancel, Activate, CommitRollback
  <2>4. ASSUME NEW r \in Releases, Stage(run, r, head.revision) PROVE request' = request
    BY <2>4 DEF Stage
  <2> QED BY <2>1, <2>2, <2>3, <2>4
<1> QED BY <1>1, <1>2, <1>3, <1>4 DEF Next

(* The inductive invariant holds in every reachable state.                 *)
THEOREM Invariance == Spec => []IInv
<1>1. Init => IInv
  BY InitIInv
<1>2. IInv /\ [Next]_vars => IInv'
  BY NextIInv
<1> QED BY <1>1, <1>2, PTL DEF Spec

(* Every variable keeps its type; no release is published twice.           *)
THEOREM TypeCorrect == Spec => []TypeOK
<1>1. IInv => TypeOK
  <2> SUFFICES ASSUME IInv PROVE TypeOK
    OBVIOUS
  <2>1. route.revision \in Revisions
    BY DEF IInv, RowTypes, RouteRow, RouteKnowsItself, Revisions
  <2> QED BY <2>1 DEF IInv, RowTypes, HeadIsPublished, TypeOK, HeadRow, RouteRow, PlanRow, RequestRow,
                      Phases, OpenPhases
<1> QED BY <1>1, Invariance, PTL

(* While a route is staged the head is its baseline, while it is active    *)
(* its target, whatever publishers were under way (the trigger of 0099).   *)
THEOREM TheRouteHolds == Spec => []RouteHoldsTheHead
<1>1. IInv => RouteHoldsTheHead
  BY DEF IInv, RouteKnowsItself, RouteHoldsTheHead
<1> QED BY <1>1, Invariance, PTL

(* Releases are published in the order of their generations, though        *)
(* checkGameReleasePublishGeneration is called outside the transaction.    *)
THEOREM InOrder == Spec => []PublishedInOrder
<1>1. IInv => PublishedInOrder
  BY DEF IInv
<1> QED BY <1>1, Invariance, PTL

(* Where no head without a digest was left to it, an active route can be   *)
(* rolled back to what CommitMigrationRollback will accept.                *)
THEOREM RollbackPossible ==
  ASSUME "legacy" \notin Starts
  PROVE  Spec => []RollbackStaysPossible
<1> DEFINE J == /\ head.revision > 0 => head.digest
                /\ Fenced /\ route.baseline.revision > 0 => route.baseline.digest
<1>1. Init => J
  <2> SUFFICES ASSUME Init PROVE J
    OBVIOUS
  <2>1. PICK kind \in Starts, r \in Releases : Start(kind, r)
    BY DEF Init
  <2>2. head = NoHead \/ head = [revision |-> 1, release |-> r, digest |-> TRUE]
    BY <2>1, CutoverAssumption DEF Start
  <2> QED BY <2>2 DEF Init, NoHead, NoRoute, Fenced
<1>2. J /\ IInv /\ [Next]_vars => J'
  <2> SUFFICES ASSUME J, IInv, [Next]_vars PROVE J'
    OBVIOUS
  <2>1. route \in RouteRow /\ head \in HeadRow /\ head.revision \in Nat
    BY DEF IInv, RowTypes, HeadRow
  <2>2. CASE UNCHANGED <<head, route>>
    BY <2>2 DEF Fenced
  <2>3. ASSUME NEW p \in Publishers, CommitDurablePublish(p) PROVE J'
    BY <2>3 DEF CommitDurablePublish, SetHead, Advance, migrationVars, Fenced
  <2>4. ASSUME NEW run \in Runs, NEW r \in Releases, Stage(run, r, head.revision) PROVE J'
    BY <2>4 DEF Stage, channelVars
  <2>5. ASSUME NEW run \in Runs, NEW n \in Nat, Cancel(run, n) PROVE J'
    BY <2>1, <2>5 DEF Cancel, channelVars, Fenced, RouteRow
  <2>6. ASSUME NEW run \in Runs, NEW n \in Nat, Activate(run, n) PROVE J'
    BY <2>1, <2>6 DEF Activate, SetHead, Advance, Fenced, RouteRow
  <2>7. ASSUME NEW run \in Runs, NEW n \in Nat, CommitRollback(run, n) PROVE J'
    <3>1. /\ head' = RestoredHead /\ BaselineHolds
          /\ route' = [route EXCEPT !.state = "rolled_back", !.revision = route.revision + 1]
      BY <2>7 DEF CommitRollback, SetHead
    <3>2. route'.state = "rolled_back" /\ route.baseline.revision \in Nat
      BY <2>1, <3>1 DEF RouteRow, HeadRow
    <3>3. head'.revision > 0 => head'.digest
      BY <3>1, <3>2 DEF RestoredHead, Advance, NoHead, BaselineHolds
    <3> QED BY <3>2, <3>3 DEF Fenced
  <2>8. Next => \/ UNCHANGED <<head, route>>
                \/ \E p \in Publishers : CommitDurablePublish(p)
                \/ \E run \in Runs : \/ \E r \in Releases : Stage(run, r, head.revision)
                                     \/ \E n \in Nat : Cancel(run, n) \/ Activate(run, n) \/ CommitRollback(run, n)
    BY DEF Next, Sign, Job, Enqueue, CompareHead, CheckGeneration, ConflictAtCommit, Retry, GiveUp,
           Migration, PlanRollback, PlanAges, channelVars, migrationVars, Revisions
  <2> QED BY <2>2, <2>3, <2>4, <2>5, <2>6, <2>7, <2>8 DEF vars
<1>3. J /\ IInv => RollbackStaysPossible
  BY DEF IInv, RouteKnowsItself, RollbackStaysPossible, BaselineHolds, Fenced
<1> QED BY <1>1, <1>2, <1>3, Invariance, PTL DEF Spec

(* A rollback serves what was served when the route was staged, and the    *)
(* head it puts back is not one that a job under way has read              *)
(* (CommitMigrationRollback takes a revision that is new).                 *)
THEOREM RollbackRestoresTheHead == Spec => RollbackRestores
<1> DEFINE Restores == route.state # "rolled_back" /\ route'.state = "rolled_back"
             => /\ head'.release = before
                /\ \A p \in Publishers :
                     request[p].phase \in {"open", "compared", "checked"}
                       => head'.revision = 0 \/ head'.revision # request[p].expected
<1>1. IInv /\ [Next]_vars => Restores
  <2> SUFFICES ASSUME IInv, [Next]_vars, route.state # "rolled_back", route'.state = "rolled_back"
               PROVE  /\ head'.release = before
                      /\ \A p \in Publishers : request[p].phase \in OpenPhases
                           => head'.revision = 0 \/ head'.revision # request[p].expected
    BY DEF OpenPhases
  <2>1. /\ route \in RouteRow /\ head \in HeadRow /\ head.revision \in Nat
        /\ request \in [Publishers -> RequestRow]
    BY DEF IInv, RowTypes, HeadRow
  <2>2. PICK run \in Runs, n \in Nat : CommitRollback(run, n)
    <3>1. ASSUME NEW run \in Runs, NEW r \in Releases PROVE ~Stage(run, r, head.revision)
      BY DEF Stage
    <3>2. ASSUME NEW run \in Runs, NEW n \in Nat PROVE ~Cancel(run, n) /\ ~Activate(run, n)
      BY <2>1 DEF Cancel, Activate, RouteRow
    <3> QED BY <3>1, <3>2, WhoMoves
  <2>3. head' = RestoredHead /\ route.state = "active" /\ HeadIsTarget
    BY <2>2 DEF CommitRollback, SetHead
  <2>4. /\ route.baseline.release = before
        /\ route.baseline.revision = 0 <=> route.baseline = NoHead
    BY <2>3 DEF IInv, RouteKnowsItself, Fenced
  <2>5. CASE route.baseline.revision = 0
    BY <2>3, <2>4, <2>5 DEF RestoredHead, NoHead
  <2>6. CASE route.baseline.revision # 0
    <3>1. head'.revision = head.revision + 1 /\ head'.release = before
      BY <2>3, <2>4, <2>6 DEF RestoredHead, Advance
    <3>2. ASSUME NEW p \in Publishers, request[p].phase \in OpenPhases
          PROVE  request[p].expected \in Nat /\ request[p].expected <= head.revision
      BY <2>1, <2>3, <3>2 DEF IInv, RequestsAgree, RequestAgrees, Deleted, RequestRow
    <3> QED BY <2>1, <3>1, <3>2
  <2> QED BY <2>5, <2>6
<1>2. IInv /\ [Next]_vars => [Restores]_vars
  BY <1>1
<1> QED BY <1>2, Invariance, PTL DEF Spec, RollbackRestores

(* Whoever publishes replaces the very head it has read, unless the        *)
(* channel has published and its head is missing (CommitDurablePublish).   *)
THEOREM ReplacesWhatItRead == Spec => ReplacesTheHeadItRead
<1> DEFINE Replaces == \A p \in Publishers :
             request[p].phase # "published" /\ request'[p].phase = "published"
               => request[p].moves = moves \/ Headless
<1>1. IInv /\ [Next]_vars => Replaces
  <2> SUFFICES ASSUME IInv, [Next]_vars, NEW p \in Publishers,
                      request[p].phase # "published", request'[p].phase = "published", ~Headless
               PROVE  request[p].moves = moves
    OBVIOUS
  <2>1. /\ request \in [Publishers -> RequestRow] /\ head.revision \in Nat
        /\ request[p].moves \in Nat /\ moves \in Nat
    BY DEF IInv, RowTypes, HeadRow, RequestRow
  <2>2. CommitDurablePublish(p)
    <3>1. Job(p)
      BY WhoMoves
    <3>2. ASSUME NEW r \in Releases PROVE ~Enqueue(p, r)
      BY <2>1 DEF Enqueue
    <3>3. ASSUME NEW phase \in Phases \ {"published"} PROVE ~Steps(p, phase)
      BY <2>1 DEF Steps, RequestRow
    <3>4. ~CompareHead(p) /\ ~CheckGeneration(p) /\ ~ConflictAtCommit(p) /\ ~Retry(p) /\ ~GiveUp(p)
      BY <3>3 DEF CompareHead, CheckGeneration, ConflictAtCommit, Retry, GiveUp, Phases, OpenPhases
    <3> QED BY <3>1, <3>2, <3>4 DEF Job
  <2>3. request[p].phase \in OpenPhases /\ head.revision = request[p].expected
    BY <2>1, <2>2, BootstrappedShape DEF CommitDurablePublish, OpenPhases, Expected, Headless
  <2>4. CASE head.revision > 0
    BY <2>3, <2>4 DEF IInv, RequestsAgree, RequestAgrees
  <2>5. CASE published = << >>
    BY <2>1, <2>3, <2>5 DEF IInv, NothingYet, RequestsAgree, RequestAgrees
  <2> QED BY <2>1, <2>4, <2>5 DEF Headless
<1>2. IInv /\ [Next]_vars => [Replaces]_vars
  BY <1>1
<1> QED BY <1>2, Invariance, PTL DEF Spec, ReplacesTheHeadItRead

(* A job is told of a conflict only when somebody has changed the head     *)
(* since it was read, but for a missing head (ErrConflict).                *)
THEOREM NoFalseConflicts == Spec => ConflictsAreReal
<1> DEFINE Real == \A p \in Publishers :
             request[p].phase # "conflict" /\ request'[p].phase = "conflict"
               => request[p].moves # moves \/ Headless
<1>1. IInv /\ [Next]_vars => Real
  <2> SUFFICES ASSUME IInv, [Next]_vars, NEW p \in Publishers,
                      request[p].phase # "conflict", request'[p].phase = "conflict", ~Headless
               PROVE  request[p].moves # moves
    OBVIOUS
  <2>1. request \in [Publishers -> RequestRow] /\ head.revision \in Nat
    BY DEF IInv, RowTypes, HeadRow
  <2>2. CompareHead(p) \/ ConflictAtCommit(p)
    <3>1. Job(p)
      BY WhoMoves
    <3>2. ASSUME NEW r \in Releases PROVE ~Enqueue(p, r)
      BY <2>1 DEF Enqueue
    <3>3. ASSUME NEW phase \in Phases \ {"conflict"} PROVE ~Steps(p, phase)
      BY <2>1 DEF Steps, RequestRow
    <3>4. ~CheckGeneration(p) /\ ~CommitDurablePublish(p) /\ ~Retry(p) /\ ~GiveUp(p)
      BY <3>3 DEF CheckGeneration, CommitDurablePublish, Retry, GiveUp, Phases, OpenPhases
    <3> QED BY <3>1, <3>2, <3>4 DEF Job
  <2>3. request[p].phase \in OpenPhases /\ head.revision # request[p].expected
    <3>1. CASE CompareHead(p)
      BY <2>1, <3>1 DEF CompareHead, Steps, OpenPhases, RequestRow
    <3>2. CASE ConflictAtCommit(p)
      BY <2>1, <3>2, BootstrappedShape DEF ConflictAtCommit, OpenPhases, Expected, Headless
    <3> QED BY <2>2, <3>1, <3>2
  <2> QED BY <2>3 DEF IInv, RequestsAgree, RequestAgrees
<1>2. IInv /\ [Next]_vars => [Real]_vars
  BY <1>1
<1> QED BY <1>2, Invariance, PTL DEF Spec, ConflictsAreReal
====

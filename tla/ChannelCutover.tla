---- MODULE ChannelCutover ----
(***************************************************************************)
(* Moving a channel from Gravit to Never and back, while it is published   *)
(* to (repository/migration_cutover.go and migration_rollback.go, over the *)
(* trigger on channel_heads of migrations 0098 and 0099).  An operator     *)
(* stages a published release over the channel's head, which fences every  *)
(* other writer of the head; activates it, or cancels; plans a rollback    *)
(* and commits it, which puts the old head back or, when the channel had   *)
(* none, deletes the head.  Meanwhile publish jobs read the head's         *)
(* revision and, some time later, commit if it is what they have read.     *)
(*                                                                         *)
(* One channel other than stable.  Every transaction locks the project's   *)
(* row first and is one step; jobs are leased as DurablePublish says.      *)
(* Rehearsals, receipts and snapshots are the operator's: a request whose  *)
(* evidence does not hold changes nothing.                                 *)
(***************************************************************************)
EXTENDS Naturals, FiniteSets, Sequences, SequencesExt

CONSTANTS
  Releases,    \* packages of the channel
  Runs,        \* migrations of its project
  Publishers,  \* publish jobs
  Starts,      \* which of the four states below the channel may start in
  None

ASSUME CutoverAssumption ==
  /\ None \notin Releases \cup Runs
  /\ Starts \subseteq {"new", "whole", "legacy", "headless"}

VARIABLES
  published,   \* published releases of the channel, in their order
  generation,  \* gameReleaseGeneration in a release's signed manifest, or 0
  head,        \* channel_heads; revision 0 is no row
  route,       \* migration_cutovers_03311: one row per channel, for ever
  plan,        \* migration_rollbacks_03312
  request,     \* what a job is to publish, what it has read, how far it is
  moves,       \* history: how often the head has changed
  before       \* history: the release that was served when the route was staged

vars == <<published, generation, head, route, plan, request, moves, before>>
channelVars == <<published, generation, head, moves>>
migrationVars == <<route, plan, before>>

NoHead == [revision |-> 0, release |-> None, digest |-> FALSE]
NoRoute == [state |-> "none", run |-> None, revision |-> 0, target |-> None,
            baseline |-> NoHead, activated |-> 0]
NoPlan == [state |-> "none", revision |-> 0, fresh |-> FALSE]
NoRequest == [phase |-> "none", release |-> None, expected |-> 0, moves |-> 0]

Published == ToSet(published)

(* A new channel; one with a head; one whose head was filled in by         *)
(* migration 0060 and has no digest; and one a replica older than that     *)
(* table has published to after it was filled in.  Releases of that time   *)
(* have no generation.                                                     *)
Start(kind, r) ==
  /\ published = IF kind = "new" THEN << >> ELSE <<r>>
  /\ head = IF kind \in {"new", "headless"} THEN NoHead
            ELSE [revision |-> 1, release |-> r, digest |-> kind = "whole"]
  /\ generation = [q \in Releases |-> IF kind = "whole" /\ q = r THEN 1 ELSE 0]

Init ==
  /\ \E kind \in Starts, r \in Releases : Start(kind, r)
  /\ route = NoRoute /\ plan = NoPlan
  /\ request = [p \in Publishers |-> NoRequest]
  /\ moves = 0 /\ before = None

----------------------------------------------------------------------------
(* The fence: the trigger on channel_heads *)

(* Mutant: the trigger of migration 0098, which lets an active channel be. *)
FencedWhileStaged == route.state = "staged"

Fenced == route.state \in {"staged", "active"}

SetHead(h) == head' = h /\ moves' = moves + 1

(* Mutant: the row is put back as it was, with its revision. *)
Reset(h, r, known) == [revision |-> IF r = route.baseline.release THEN route.baseline.revision
                                    ELSE h.revision + 1, release |-> r, digest |-> known]

Advance(h, r, known) == [revision |-> h.revision + 1, release |-> r, digest |-> known]

----------------------------------------------------------------------------
(* Publish jobs *)

(* nextGameReleaseGeneration: one more than the highest in a list of the   *)
(* channel's releases that was read some time ago.                         *)
Highest == CHOOSE g \in {generation[r] : r \in Releases} :
             \A r \in Releases : generation[r] <= g

Sign(r, g) ==
  /\ r \notin Published /\ generation[r] = 0 /\ g <= Highest + 1
  /\ generation' = [generation EXCEPT ![r] = g]
  /\ UNCHANGED <<published, head, moves, request, migrationVars>>

Steps(p, phase) == request' = [request EXCEPT ![p].phase = phase]

(* enqueuePublishJob0213 reads the head for the job. *)
Enqueue(p, r) ==
  /\ request[p].phase = "none" /\ r \notin Published /\ generation[r] > 0
  /\ request' = [request EXCEPT ![p] = [phase |-> "open", release |-> r,
                                         expected |-> head.revision, moves |-> moves]]
  /\ UNCHANGED <<channelVars, migrationVars>>

(* executeDurablePublishJob0213: the worker compares the head, ...         *)
CompareHead(p) ==
  /\ request[p].phase = "open"
  /\ Steps(p, IF head.revision = request[p].expected THEN "compared" ELSE "conflict")
  /\ UNCHANGED <<channelVars, migrationVars>>

(* Mutant: a release of any generation may follow. *)
AnyGeneration(r) == TRUE

Newer(r) == \A q \in Published : generation[q] < generation[r]

(* ... checkGameReleasePublishGeneration, whose refusal leaves the job to  *)
(* be retried, ...                                                         *)
CheckGeneration(p) ==
  /\ request[p].phase = "compared" /\ Newer(request[p].release)
  /\ Steps(p, "checked")
  /\ UNCHANGED <<channelVars, migrationVars>>

(* Mutant: the head is filled in again, ON CONFLICT DO UPDATE. *)
FilledInAgain ==
  IF published # << >> THEN [revision |-> 1, release |-> Last(published), digest |-> FALSE]
  ELSE head

(* ... and CommitDurablePublish.  It fills a missing head in from the      *)
(* newest published release, in the transaction that goes on to compare    *)
(* the revision once more.                                                 *)
Bootstrapped ==
  IF head.revision = 0 /\ published # << >>
  THEN [revision |-> 1, release |-> Last(published), digest |-> FALSE]
  ELSE head

(* Mutant: whatever the head is now, it is replaced. *)
AnyRevision(p) == TRUE

Expected(p) == Bootstrapped.revision = request[p].expected

CommitDurablePublish(p) ==
  /\ request[p].phase = "checked" /\ request[p].release \notin Published
  /\ Expected(p) /\ ~Fenced
  /\ SetHead(Advance(Bootstrapped, request[p].release, TRUE))
  /\ published' = Append(published, request[p].release)
  /\ Steps(p, "published")
  /\ UNCHANGED <<generation, migrationVars>>

(* ErrConflict settles the job; what was filled in is rolled back. *)
ConflictAtCommit(p) ==
  /\ request[p].phase = "checked" /\ request[p].release \notin Published
  /\ ~Expected(p) /\ (Bootstrapped # head => ~Fenced)
  /\ Steps(p, "conflict")
  /\ UNCHANGED <<channelVars, migrationVars>>

(* The trigger's error, the generation check's, a crash: the job's lease   *)
(* runs out and it is taken up again, or its attempts are used up.         *)
Retry(p) ==
  /\ request[p].phase \in {"compared", "checked"}
  /\ Steps(p, "open")
  /\ UNCHANGED <<channelVars, migrationVars>>

GiveUp(p) ==
  /\ request[p].phase = "open"
  /\ Steps(p, "abandoned")
  /\ UNCHANGED <<channelVars, migrationVars>>

----------------------------------------------------------------------------
(* StageMigrationCutover, CancelMigrationCutover, ActivateMigrationCutover *)

(* The channel's one row is free until the first route is staged, and      *)
(* never again.                                                            *)
Stage(run, r, revision) ==
  /\ r \in Published /\ head.revision = revision
  /\ route.state = "none"
  /\ route' = [state |-> "staged", run |-> run, revision |-> 1, target |-> r,
               baseline |-> head, activated |-> 0]
  /\ before' = head.release
  /\ UNCHANGED <<channelVars, plan, request>>

Cancel(run, expected) ==
  /\ route.run = run /\ route.state = "staged" /\ route.revision = expected
  /\ route' = [route EXCEPT !.state = "cancelled", !.revision = @ + 1]
  /\ UNCHANGED <<channelVars, plan, request, before>>

Activate(run, expected) ==
  /\ route.run = run /\ route.state = "staged" /\ route.revision = expected
  /\ head.revision = route.baseline.revision
  /\ SetHead(Advance(head, route.target, TRUE))
  /\ route' = [route EXCEPT !.state = "active", !.revision = @ + 1,
                            !.activated = head.revision + 1]
  /\ UNCHANGED <<published, generation, plan, request, before>>

----------------------------------------------------------------------------
(* PlanMigrationRollback, CommitMigrationRollback *)

(* rollbackHead03312 *)
HeadIsTarget ==
  head = [revision |-> route.activated, release |-> route.target, digest |-> TRUE]

PlanRollback(run, expected) ==
  /\ route.run = run /\ route.state = "active" /\ route.revision = expected
  /\ HeadIsTarget
  /\ plan.state \in {"none", "planned"}
  /\ plan' = [state |-> "planned", revision |-> route.revision, fresh |-> TRUE]
  /\ UNCHANGED <<channelVars, route, request, before>>

(* Ten minutes after it was stored. *)
PlanAges ==
  /\ plan.state = "planned" /\ plan.fresh
  /\ plan' = [plan EXCEPT !.fresh = FALSE]
  /\ UNCHANGED <<channelVars, route, request, before>>

(* The release to go back to is published, and its digest is the head's. *)
BaselineHolds ==
  route.baseline.revision > 0
    => route.baseline.release \in Published /\ route.baseline.digest

RestoredHead ==
  IF route.baseline.revision = 0 THEN NoHead
  ELSE Advance(head, route.baseline.release, route.baseline.digest)

CommitRollback(run, expected) ==
  /\ route.run = run /\ plan.state = "planned" /\ plan.fresh /\ plan.revision = expected
  /\ route.state = "active" /\ route.revision = expected
  /\ HeadIsTarget /\ BaselineHolds
  /\ SetHead(RestoredHead)
  /\ route' = [route EXCEPT !.state = "rolled_back", !.revision = @ + 1]
  /\ plan' = [plan EXCEPT !.state = "completed"]
  /\ UNCHANGED <<published, generation, request, before>>

----------------------------------------------------------------------------
Job(p) ==
  \/ \E r \in Releases : Enqueue(p, r)
  \/ CompareHead(p) \/ CheckGeneration(p) \/ CommitDurablePublish(p)
  \/ ConflictAtCommit(p) \/ Retry(p) \/ GiveUp(p)

Revisions == 0 .. 3  \* no route gets past 3

Migration ==
  \E run \in Runs :
    \/ \E r \in Releases : Stage(run, r, head.revision)
    \/ \E n \in Revisions : \/ Cancel(run, n) \/ Activate(run, n)
                            \/ PlanRollback(run, n) \/ CommitRollback(run, n)

Next ==
  \/ \E r \in Releases : \E g \in 1 .. Cardinality(Releases) + 1 : Sign(r, g)
  \/ \E p \in Publishers : Job(p)
  \/ Migration \/ PlanAges

Spec == Init /\ [][Next]_vars

----------------------------------------------------------------------------
(* Properties *)

TypeOK ==
  /\ published \in Seq(Releases) /\ IsInjective(published)
  /\ head.revision \in Nat /\ head.release \in Releases \cup {None}
  /\ head.revision = 0 <=> head = NoHead
  /\ route.state \in {"none", "staged", "active", "cancelled", "rolled_back"}
  /\ route.revision \in Revisions /\ route.run \in Runs \cup {None}
  /\ plan.state \in {"none", "planned", "completed"}
  /\ \A p \in Publishers :
       request[p].phase \in {"none", "open", "compared", "checked", "published", "conflict",
                             "abandoned"}
  /\ generation \in [Releases -> Nat]

(* From the moment a route is staged until it is cancelled or rolled back, *)
(* the head does what the migration says and nothing else: it is the       *)
(* baseline while staged, the target while active, whatever publishers     *)
(* were under way.                                                         *)
RouteHoldsTheHead ==
  /\ route.state = "staged" => head = route.baseline
  /\ route.state = "active" => HeadIsTarget

(* A rollback serves what was served before the migration touched the      *)
(* channel, and a publisher that has read the head at any time before the  *)
(* rollback does not take the restored one for it.                         *)
RollbackRestores ==
  [][route.state # "rolled_back" /\ route'.state = "rolled_back"
       => /\ head'.release = before
          /\ \A p \in Publishers :
               request[p].phase \in {"open", "compared", "checked"}
                 => head'.revision = 0 \/ head'.revision # request[p].expected]_vars

(* The channel has published and its head is missing. *)
Headless == head.revision = 0 /\ published # << >>

(* Whoever publishes replaces the very head it has read: in between the    *)
(* head has not changed, not even back and forth (model.ChannelHead is     *)
(* there so that revisions can be compared and swapped).  Over a missing   *)
(* head, which the commit fills in at revision 1 whatever it was before,   *)
(* the code does not keep to that.                                         *)
ReplacesTheHeadItRead ==
  [][\A p \in Publishers :
       request[p].phase # "published" /\ request'[p].phase = "published"
         => request[p].moves = moves \/ Headless]_vars

(* Releases are published in the order of their generations, though the    *)
(* check is made outside the transaction that publishes.                   *)
PublishedInOrder ==
  \A i, j \in DOMAIN published : i < j =>
    \/ generation[published[i]] < generation[published[j]]
    \/ generation[published[i]] = 0 /\ generation[published[j]] = 0

(* Once a channel has taken generations up its head goes to no older one:  *)
(* launchers would refuse it (the comment on                               *)
(* checkGameReleasePublishGeneration).                                     *)
HeadNeverGoesBack ==
  [][head.release # None /\ head'.release # None
       => generation[head'.release] >= generation[head.release]]_vars

(* A publisher is told of a conflict only when somebody has changed the    *)
(* head since it was read; over a missing head the code tells everybody.   *)
ConflictsAreReal ==
  [][\A p \in Publishers :
       request[p].phase # "conflict" /\ request'[p].phase = "conflict"
         => request[p].moves # moves \/ Headless]_vars

(* What an active route would be rolled back to can be: it is published    *)
(* and was recorded so that CommitMigrationRollback will find it whole, or *)
(* else the players stay on the new server for ever.  A channel that       *)
(* starts as "legacy" does not have it.                                    *)
RollbackStaysPossible == route.state = "active" => BaselineHolds
====

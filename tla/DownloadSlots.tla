---- MODULE DownloadSlots ----
(***************************************************************************)
(* The launcher's download scheduler (runtime/src/download_scheduler.rs)   *)
(* and the lease on one object of the shared cache (content_cache.rs).     *)
(*                                                                         *)
(* A run downloads the files of one installation; runs of one process      *)
(* share its slots.  A worker holds a slot of the process for as long as   *)
(* it lives, a slot of its host in the run and one in the process while it *)
(* talks to that host, and the lease on the object while it looks for it   *)
(* in the cache, fetches it from one source after another and publishes    *)
(* it.  A retry at the same source keeps everything and is part of the     *)
(* attempt; bytes, hashes and progress are left out.                       *)
(***************************************************************************)
EXTENDS Naturals, Sequences, FiniteSets

CONSTANTS
  Runs, Jobs, Hosts, Objects,
  RunOf, ObjectOf, SourcesOf,  \* of a job; SourcesOf[j] is a sequence of hosts
  Rank,                        \* of a job, by priority and place in the manifest
  GlobalLimit, RunLimit,       \* workers of the process and of a run
  HostLimit, RunHostLimit,     \* slots of a host, in the process and in a run
  Nobody

ASSUME SlotAssumption ==
  /\ RunOf \in [Jobs -> Runs] /\ ObjectOf \in [Jobs -> Objects]
  /\ \A j \in Jobs : SourcesOf[j] \in Seq(Hosts) /\ SourcesOf[j] # <<>>
  /\ Nobody \notin Jobs \cup Hosts /\ Rank \in [Jobs -> Nat]
  /\ {GlobalLimit, RunLimit, HostLimit, RunHostLimit} \subseteq Nat \ {0}

VARIABLES
  at,         \* where a job is
  source,     \* the number of its source
  runSlot,    \* the host whose slot of the run it holds
  hostSlot,   \* the host whose slot of the process it holds
  owner,      \* who has the lease on an object
  cached,     \* the objects of the cache
  directive   \* what the user wants of a run

vars == <<at, source, runSlot, hostSlot, owner, cached, directive>>

Working == {"lease", "restore", "fetch", "local", "shared"}
Ended == {"done", "failed", "stopped"}
Workers == {j \in Jobs : at[j] \in Working}
Host(j) == SourcesOf[j][source[j]]

Init == /\ at = [j \in Jobs |-> "pending"]
        /\ source = [j \in Jobs |-> 1]
        /\ runSlot = [j \in Jobs |-> Nobody]
        /\ hostSlot = [j \in Jobs |-> Nobody]
        /\ owner = [o \in Objects |-> Nobody]
        /\ cached = {}
        /\ directive = [r \in Runs |-> "running"]

RunSlotFree(r, h) == Cardinality({j \in Jobs : RunOf[j] = r /\ runSlot[j] = h}) < RunHostLimit
HostSlotFree(h) == Cardinality({j \in Jobs : hostSlot[j] = h}) < HostLimit
Running(j) == directive[RunOf[j]] = "running"
Goes(j, place) == at' = [at EXCEPT ![j] = place]

(* run_with_store: the first job that waits and whose slots are free.      *)
Startable(j) ==
  /\ at[j] = "pending"
  /\ RunSlotFree(RunOf[j], Host(j)) /\ HostSlotFree(Host(j))
  /\ Cardinality(Workers) < GlobalLimit
MayStart(j) ==
  /\ Running(j) /\ Startable(j)
  /\ Cardinality({i \in Workers : RunOf[i] = RunOf[j]}) < RunLimit
  /\ \A i \in Jobs : RunOf[i] = RunOf[j] /\ Rank[i] < Rank[j] => ~Startable(i)
Start(j) ==
  /\ MayStart(j)
  /\ runSlot' = [runSlot EXCEPT ![j] = Host(j)]
  /\ hostSlot' = [hostSlot EXCEPT ![j] = Host(j)]
  /\ Goes(j, "lease")
  /\ UNCHANGED <<source, owner, cached, directive>>

(* CacheStore::lock, then CacheLease::restore *)
Lease(j) ==
  /\ at[j] = "lease" /\ Running(j) /\ owner[ObjectOf[j]] = Nobody
  /\ owner' = [owner EXCEPT ![ObjectOf[j]] = j]
  /\ Goes(j, "restore")
  /\ UNCHANGED <<source, runSlot, hostSlot, cached, directive>>

(* The worker ends: whatever it holds is dropped. *)
Ends(j, how) ==
  /\ Goes(j, how)
  /\ runSlot' = [runSlot EXCEPT ![j] = Nobody]
  /\ hostSlot' = [hostSlot EXCEPT ![j] = Nobody]
  /\ owner' = [o \in Objects |-> IF owner[o] = j THEN Nobody ELSE owner[o]]
  /\ UNCHANGED <<source, directive>>

(* The object is copied to its place.  One that is missing, or damaged and *)
(* so removed, is fetched; anything may fail.                              *)
Restore(j) ==
  /\ at[j] = "restore"
  /\ \/ ObjectOf[j] \in cached /\ Ends(j, "done") /\ UNCHANGED cached
     \/ /\ cached' = cached \ {ObjectOf[j]}
        /\ Goes(j, "fetch") /\ UNCHANGED <<source, runSlot, hostSlot, owner, directive>>
     \/ Ends(j, "failed") /\ UNCHANGED cached

(* The file is there; the cache may have no room for it. *)
Fetched(j) ==
  /\ at[j] = "fetch"
  /\ cached' \in {cached, cached \cup {ObjectOf[j]}}
  /\ Ends(j, "done")

(* Mutant: the slots of the host before are kept until the mirror's are    *)
(* there.                                                                  *)
SourceFailsHolding(j) ==
  /\ at[j] = "fetch" /\ Running(j)
  /\ IF source[j] = Len(SourcesOf[j]) THEN Ends(j, "failed")
     ELSE /\ source' = [source EXCEPT ![j] = @ + 1]
          /\ Goes(j, "local")
          /\ UNCHANGED <<runSlot, hostSlot, owner, directive>>
  /\ UNCHANGED cached

(* The source's last attempt has failed: its slots go back before those of *)
(* the mirror are waited for.                                              *)
SourceFails(j) ==
  /\ at[j] = "fetch" /\ Running(j)
  /\ IF source[j] = Len(SourcesOf[j]) THEN Ends(j, "failed")
     ELSE /\ source' = [source EXCEPT ![j] = @ + 1]
          /\ runSlot' = [runSlot EXCEPT ![j] = Nobody]
          /\ hostSlot' = [hostSlot EXCEPT ![j] = Nobody]
          /\ Goes(j, "local")
          /\ UNCHANGED <<owner, directive>>
  /\ UNCHANGED cached

TakeRunSlot(j) ==
  /\ at[j] = "local" /\ RunSlotFree(RunOf[j], Host(j))
  /\ runSlot' = [runSlot EXCEPT ![j] = Host(j)]
  /\ Goes(j, "shared")
  /\ UNCHANGED <<source, hostSlot, owner, cached, directive>>

TakeHostSlot(j) ==
  /\ at[j] = "shared" /\ HostSlotFree(Host(j))
  /\ hostSlot' = [hostSlot EXCEPT ![j] = Host(j)]
  /\ Goes(j, "fetch")
  /\ UNCHANGED <<source, runSlot, owner, cached, directive>>

(* Mutant: a worker that is interrupted starts over, as after an error.    *)
InterruptedAgain(j) ==
  /\ ~Running(j) /\ at[j] \in {"lease", "local", "shared", "fetch"}
  /\ Ends(j, "lease")
  /\ UNCHANGED cached

(* Every wait ends with the directive. *)
Interrupted(j) ==
  /\ ~Running(j) /\ at[j] \in {"lease", "local", "shared", "fetch"}
  /\ Ends(j, "stopped")
  /\ UNCHANGED cached

(* The user pauses or cancels a run; a download that paused is resumed by  *)
(* another run.                                                            *)
Stop(r) ==
  /\ directive[r] = "running"
  /\ \E d \in {"paused", "cancelled"} : directive' = [directive EXCEPT ![r] = d]
  /\ UNCHANGED <<at, source, runSlot, hostSlot, owner, cached>>

Waits(j) == Lease(j) \/ TakeRunSlot(j) \/ TakeHostSlot(j)
Moves(j) == Restore(j) \/ Fetched(j) \/ SourceFails(j) \/ Interrupted(j)
RunEnded(r) == \A j \in Jobs : RunOf[j] = r =>
                 at[j] \in Ended \cup (IF directive[r] = "running" THEN {} ELSE {"pending"})
AllEnd == (\A r \in Runs : RunEnded(r)) /\ UNCHANGED vars

Next == \/ \E j \in Jobs : Start(j) \/ Waits(j) \/ Moves(j)
        \/ \E r \in Runs : Stop(r)
        \/ AllEnd

Spec == Init /\ [][Next]_vars

(* A free slot or lease is handed to a waiter, an attempt has a deadline,  *)
(* and a run looks for work whenever a worker ends.  Since a job only ever *)
(* moves on, none can be passed over for ever.                             *)
Fairness == \A j \in Jobs : WF_vars(Start(j) \/ Waits(j) \/ Moves(j))
FairSpec == Spec /\ Fairness

----------------------------------------------------------------------------
TypeOK == /\ at \in [Jobs -> Working \cup Ended \cup {"pending"}]
          /\ source \in [Jobs -> Nat] /\ \A j \in Jobs : source[j] \in 1 .. Len(SourcesOf[j])
          /\ runSlot \in [Jobs -> Hosts \cup {Nobody}]
          /\ hostSlot \in [Jobs -> Hosts \cup {Nobody}]
          /\ owner \in [Objects -> Jobs \cup {Nobody}]
          /\ cached \subseteq Objects
          /\ directive \in [Runs -> {"running", "paused", "cancelled"}]

(* Nobody can move, and there is a run that is not over.                   *)
Blocked(j) ==
  /\ ~MayStart(j) /\ at[j] \notin {"restore", "fetch"}
  /\ at[j] = "lease" => Running(j) /\ owner[ObjectOf[j]] # Nobody
  /\ at[j] = "local" => Running(j) /\ ~RunSlotFree(RunOf[j], Host(j))
  /\ at[j] = "shared" => Running(j) /\ ~HostSlotFree(Host(j))
Stuck == (\A j \in Jobs : Blocked(j)) /\ \E r \in Runs : ~RunEnded(r)

(* If nobody can move, then because workers wait in a circle: for objects  *)
(* that are kept by workers who wait for a mirror, and those for slots of  *)
(* hosts that are kept by workers who wait for an object.                  *)
OnlyLeasesBlock == Stuck =>
  /\ \E i \in Jobs : at[i] = "lease"
  /\ \A i \in Jobs : at[i] = "lease" => at[owner[ObjectOf[i]]] \in {"local", "shared"}
  /\ \A k \in Jobs : at[k] \in {"local", "shared"} =>
       \E i \in Jobs : at[i] = "lease" /\ hostSlot[i] = Host(k)

(* Every run ends: workers that change to one another's hosts do not wait  *)
(* for each other, and a source that fails keeps no other file back.       *)
EveryRunEnds == \A r \in Runs : <>RunEnded(r)

(* Whatever a worker waits for, a run that is paused or cancelled ends.    *)
StopsAreObeyed == \A r \in Runs : directive[r] # "running" ~> RunEnded(r)
====

---- MODULE Launcher_proofs ----
(***************************************************************************)
(* Proofs about the launcher: first about ClientRelease, for any paths,    *)
(* manifests and generations and any number of installations; then about   *)
(* DownloadJournal, for any jobs, presses and generations; then about an   *)
(* instance of DownloadSlots, for any runs, files, sources and limits.     *)
(*                                                                         *)
(* That the files are of one release is inductive once it is known, for    *)
(* every step of a switch or of a recovery, which files are of which of    *)
(* the two releases (FilesHold); that a recovery can put the release       *)
(* before back needs the backup to hold it since before the journal named  *)
(* it (JournalHolds, StageHolds), and that no installation writes into the *)
(* backup of another (IdsHold).                                            *)
(***************************************************************************)
EXTENDS ClientRelease, DownloadJournal, Sequences, FiniteSetTheorems, WellFoundedInduction, TLAPS

----------------------------------------------------------------------------
(* The inductive invariant *)

(* The file is the release's, or as the player has made it; or the release *)
(* has none, and it may be left from a recovery that was stopped.          *)
Fits(r, p) == live[p] \in {Expected(r, p), "junk"} \/ (halfway /\ p \notin Installed(r))

(* What the backup has of a file is what the release before had signed; of *)
(* a release that is being repaired it may be a damaged file.              *)
Saved(b, previous, next, p) ==
  \/ backup[b][p] = Expected(previous, p)
  \/ backup[b][p] = "junk" /\ previous.manifest = next.manifest

NotOlder(m) == mark # NoManifest =>
  m # NoManifest /\ (m = mark \/ Generation[m] > Generation[mark])

Real(r) == r = NoRelease \/ r.manifest \in Manifests

(* Where the process is says what the journal says.                        *)
ControlHolds ==
  /\ proc.at = "idle" => proc = Idle
  /\ proc.at \notin {"publish", "repoint"}
  /\ game # NoManifest => /\ proc = Idle /\ Settled
                          /\ active = played /\ active.manifest \in {game, NoManifest}
  /\ proc.at \in {"accept", "ready", "write"} => Settled
  /\ proc.at \in {"restore", "checkpoint", "settle", "switch"} => ~Settled
  /\ proc.at \in {"write", "switch"} => proc.op = "commit"
  /\ proc.at \in {"ready", "write", "switch"} => ~proc.recovering
  /\ proc.op = "commit" => ~stage.fresh

(* A journal that is not settled names two releases, one of them active,   *)
(* and a backup of the first.                                              *)
JournalHolds ==
  /\ Real(active) /\ Real(journal.previous)
  /\ ~Settled =>
       /\ journal.next.manifest \in Manifests /\ journal.previous # journal.next
       /\ journal.backup \in 1 .. MaxInstalls
       /\ active \in {journal.previous, journal.next}
       /\ \A p \in Paths : Saved(journal.backup, journal.previous, journal.next, p)
       /\ NotOlder(journal.previous.manifest) /\ NotOlder(journal.next.manifest)

(* Which files are of which release.                                       *)
FilesHold ==
  /\ Settled => Whole(active)
  /\ ~Settled => \A p \in Paths \ Entries(journal) : Fits(journal.next, p)
  /\ journal.state = "switching" /\ Published /\ proc.at \in {"idle", "recover"}
       => \A p \in Paths \ Installed(journal.next) : Fits(journal.next, p)
  /\ proc.at = "restore" => \A p \in Paths \ proc.todo : Fits(journal.previous, p)
  /\ proc.at = "checkpoint" => journal.state = "switching" /\ Published /\ Whole(active)
  /\ proc.at = "settle" => Whole(active)
  /\ proc.at = "switch" => /\ journal.state = "switching" /\ active = journal.previous
                           /\ \A p \in Paths \ proc.todo : Fits(journal.next, p)

(* Between its backup and the journal an installation has saved the active *)
(* release.                                                                *)
StageHolds ==
  proc.at = "write" =>
    /\ stage.release.manifest \in Manifests /\ NotOlder(stage.release.manifest)
    /\ \A p \in Paths : Saved(stage.release.id, active, stage.release, p)

(* An installation that has not written to the journal has an id that      *)
(* nobody else has.                                                        *)
Uncommitted ==
  \/ stage.fresh
  \/ proc.op = "commit" /\ ((proc.recovering /\ ~proc.failed) \/ proc.at \in {"ready", "write"})
Earlier(j, n) == j.previous.id < n /\ j.next.id < n /\ j.backup < n
Below(n) == active.id < n /\ Earlier(journal, n) /\ \A k \in 0 .. 1 : Earlier(good[k], n)
IdsHold ==
  /\ Below(installs + 1)
  /\ Uncommitted => /\ stage.release.manifest \in Manifests
                    /\ stage.release.id \in 1 .. installs /\ Below(stage.release.id)

GoodSlot(j) ==
  /\ j.previous.manifest \in Manifests /\ j.previous.manifest # j.next.manifest
  /\ j.backup \in 1 .. MaxInstalls
  /\ \A p \in Paths : backup[j.backup][p] = Expected(j.previous, p)
SlotsHold == \A k \in 0 .. 1 : good[k] = NoJournal \/ GoodSlot(good[k])

MarkHolds == /\ mark # NoManifest => Generation[mark] > 0
             /\ Settled => NotOlder(active.manifest)

IInv == /\ TypeOK /\ ControlHolds /\ JournalHolds /\ FilesHold /\ StageHolds
        /\ IdsHold /\ SlotsHold /\ MarkHolds

----------------------------------------------------------------------------
(* Releases and files *)

(* What a release has not is the same for all that have it not.            *)
LEMMA NotInstalled ==
  ASSUME NEW r, NEW p \in Paths, p \notin Installed(r)
  PROVE  Expected(r, p) = "absent"
BY DEF Installed, Expected

(* What a release has at a path is some content.                           *)
LEMMA ExpectedIsContent ==
  ASSUME NEW r, NEW p \in Paths, Real(r)
  PROVE  Expected(r, p) \in Contents
BY DEF Expected, Contents, Real, NoRelease

(* A file outside two releases fits both or none.                          *)
LEMMA FitsBoth ==
  ASSUME NEW r, NEW s, NEW p \in Paths, p \notin Installed(r) \cup Installed(s), Fits(r, p)
  PROVE  Fits(s, p)
BY NotInstalled DEF Fits

(* Whole, as every file by itself.                                         *)
LEMMA WholeFits ==
  ASSUME NEW r
  PROVE  Whole(r) <=> \A p \in Paths : Fits(r, p)
BY DEF Whole, Fits

(* The checkpoint last known good is one of the two slots.                 *)
LEMMA LastIsASlot == \E k \in 0 .. 1 : LastKnownGood = good[k]
BY DEF LastKnownGood

----------------------------------------------------------------------------
(* Steps that leave the files and the journal alone *)

Places == {"idle", "recover", "restore", "repoint", "checkpoint", "settle", "accept", "ready", "write",
           "switch", "publish"}
(* The fields of a process.                                                *)
LEMMA ProcessFields ==
  ASSUME NEW x \in Process
  PROVE  /\ x.at \in Places /\ x.todo \in SUBSET Paths
         /\ x.op \in {"none", "recover", "commit", "rollback"}
         /\ x.recovering \in BOOLEAN /\ x.failed \in BOOLEAN
BY DEF Process, Places

Halfway == /\ halfway' = (halfway \/ (TakesBack /\ proc' = Idle))
           /\ played' = IF game' = NoManifest THEN NoRelease
                        ELSE IF game = NoManifest THEN active ELSE played

(* What was active when the game was started is a release.                 *)
LEMMA PlayedTyped ==
  ASSUME IInv, Halfway
  PROVE  played' \in Release
BY ReleaseAssumption DEF IInv, TypeOK, Halfway, Release, NoRelease

(* Wherever the process goes without touching a file, what is known of the *)
(* files is still known, if it goes where that is what has to be known.    *)
LEMMA FilesKept ==
  ASSUME FilesHold, JournalHolds, ControlHolds, TypeOK, Halfway, UNCHANGED <<live, active, journal>>,
         proc'.at \in {"idle", "recover", "restore", "checkpoint", "accept", "ready", "write"},
         proc'.at \in {"idle", "recover"} /\ proc.at = "restore" => proc' = Idle,
         proc'.at = "restore" => proc'.todo = Entries(journal) /\ ~Settled,
         proc'.at = "checkpoint" => /\ proc.at = "recover" /\ journal.state = "switching"
                                    /\ Published /\ Verified(journal.next)
  PROVE  FilesHold'
<1>1. ASSUME NEW r, NEW p \in Paths, Fits(r, p)
      PROVE  live'[p] \in {Expected(r, p), "junk"} \/ (halfway' /\ p \notin Installed(r))
  BY <1>1 DEF Fits, Halfway
<1>2. Settled => Whole(active)'
  BY <1>1 DEF FilesHold, Whole, Fits
<1>3. ~Settled => \A p \in Paths \ Entries(journal) : Fits(journal.next, p)'
  BY <1>1 DEF FilesHold, Fits
<1>4. journal.state = "switching" /\ Published /\ proc'.at \in {"idle", "recover"}
        => \A p \in Paths \ Installed(journal.next) : Fits(journal.next, p)'
  <2> SUFFICES ASSUME journal.state = "switching", Published, proc'.at \in {"idle", "recover"},
                      NEW p \in Paths \ Installed(journal.next), ~halfway'
               PROVE  Fits(journal.next, p)'
    BY DEF Fits
  <2>1. ~Settled /\ proc.at # "restore"
    BY DEF Settled, Halfway, TakesBack, Published
  <2>2. proc.at # "switch"
    BY <2>1 DEF FilesHold, JournalHolds, Published
  <2>3. proc.at \in Places
    BY ProcessFields DEF TypeOK
  <2>4. proc.at \in {"idle", "recover", "checkpoint", "settle"}
    BY <2>1, <2>2, <2>3 DEF ControlHolds, Places
  <2>5. Fits(journal.next, p)
    BY <2>1, <2>4 DEF FilesHold, Whole, Fits, Published
  <2> QED BY <1>1, <2>5 DEF Fits
<1>5. proc'.at = "restore" => \A p \in Paths \ proc'.todo : Fits(journal.previous, p)'
  <2>1. ASSUME ~Settled, NEW p \in Paths \ Entries(journal)
        PROVE  Fits(journal.previous, p)
    BY <2>1, FitsBoth DEF FilesHold, Entries
  <2> QED BY <1>1, <2>1 DEF Fits
<1>6. proc'.at = "checkpoint" => Whole(active)'
  <2>1. ASSUME proc'.at = "checkpoint", NEW p \in Paths
        PROVE  Fits(journal.next, p)
    BY <2>1 DEF FilesHold, Verified, Fits
  <2> QED BY <1>1, <2>1 DEF Whole, Published, Fits
<1> QED BY <1>2, <1>3, <1>4, <1>5, <1>6 DEF FilesHold, Settled, Published, Entries

(* The journal's releases and the backup are as they were.                 *)
LEMMA JournalKept ==
  ASSUME JournalHolds, UNCHANGED <<backup, active, journal, mark>>
  PROVE  JournalHolds'
BY DEF JournalHolds, Settled, Saved, NotOlder

(* Ids that were earlier still are.                                        *)
LEMMA IdsKept ==
  ASSUME IdsHold, UNCHANGED <<active, journal, good, installs>>,
         Uncommitted' => Uncommitted /\ stage'.release = stage.release
  PROVE  IdsHold'
BY DEF IdsHold, Below, Earlier

(* Slots depend on the backups and on what they hold.                      *)
LEMMA SlotsKept ==
  ASSUME SlotsHold, UNCHANGED <<backup, good>>
  PROVE  SlotsHold'
BY DEF SlotsHold, GoodSlot

(* A step of the process alone, which is to leave the place before the     *)
(* journal is written or not to come there.                                *)
LEMMA ProcStep ==
  ASSUME IInv, Halfway, UNCHANGED <<live, backup, active, journal, good, mark, installs>>,
         stage' \in [release : Release, files : SUBSET Paths, fresh : BOOLEAN],
         proc' \in Process, game' \in Manifests \cup {NoManifest},
         answer' \in {"none", "done", "refused", "restored", "pending"},
         ControlHolds', Uncommitted' => Uncommitted /\ stage'.release = stage.release,
         proc'.at \in {"idle", "recover", "restore", "checkpoint", "accept", "ready"},
         proc'.at \in {"idle", "recover"} /\ proc.at = "restore" => proc' = Idle,
         proc'.at = "restore" => proc'.todo = Entries(journal) /\ ~Settled,
         proc'.at = "checkpoint" => /\ proc.at = "recover" /\ journal.state = "switching"
                                    /\ Published /\ Verified(journal.next)
  PROVE  IInv'
<1>1. FilesHold'
  BY FilesKept DEF IInv
<1>2. JournalHolds' /\ IdsHold' /\ SlotsHold'
  BY JournalKept, IdsKept, SlotsKept DEF IInv
<1>3. StageHolds' /\ MarkHolds'
  BY DEF IInv, StageHolds, MarkHolds, NotOlder, Settled
<1>4. TypeOK'
  <2>1. halfway' \in BOOLEAN
    BY DEF Halfway, IInv, TypeOK
  <2> QED BY PlayedTyped, <2>1 DEF IInv, TypeOK
<1> QED BY <1>1, <1>2, <1>3, <1>4 DEF IInv

(* A process that goes elsewhere is a process.                             *)
MovesTo(x, y, place, todo) ==
  /\ y \in Process /\ y.at = place /\ y.todo = todo
  /\ y.op = x.op /\ y.recovering = x.recovering /\ y.failed = x.failed

(* A process that goes on keeps its operation.                             *)
LEMMA ProcessMoves ==
  \A x \in Process, place \in Places, todo \in SUBSET Paths :
    /\ MovesTo(x, [x EXCEPT !.at = place], place, x.todo)
    /\ MovesTo(x, [x EXCEPT !.at = place, !.todo = todo], place, todo)
    /\ MovesTo(x, [x EXCEPT !.todo = todo], x.at, todo)
<1> SUFFICES ASSUME NEW x \in Process, NEW place \in Places, NEW todo \in SUBSET Paths
             PROVE  /\ MovesTo(x, [x EXCEPT !.at = place], place, x.todo)
                    /\ MovesTo(x, [x EXCEPT !.at = place, !.todo = todo], place, todo)
                    /\ MovesTo(x, [x EXCEPT !.todo = todo], x.at, todo)
  OBVIOUS
<1>1. MovesTo(x, [x EXCEPT !.at = place], place, x.todo)
  BY DEF Process, Places, MovesTo
<1>2. MovesTo(x, [x EXCEPT !.at = place, !.todo = todo], place, todo)
  BY DEF Process, Places, MovesTo
<1>3. MovesTo(x, [x EXCEPT !.todo = todo], x.at, todo)
  BY DEF Process, Places, MovesTo
<1> QED BY <1>1, <1>2, <1>3

(* A journal's entries are paths.                                          *)
LEMMA EntriesArePaths ==
  ASSUME NEW j
  PROVE  Entries(j) \in SUBSET Paths
BY DEF Entries, Installed

(* recover_locked, whichever way it goes, finds what it needs.             *)
LEMMA RecoverPreserves ==
  ASSUME IInv, Halfway, Recover
  PROVE  IInv'
<1>1. /\ proc.at = "recover" /\ UNCHANGED <<live, stage, backup, active, journal, good, mark, game, installs, answer>>
      /\ proc \in Process /\ Entries(journal) \in SUBSET Paths
  BY EntriesArePaths DEF Recover, disk, IInv, TypeOK
<1>2. proc # Idle /\ game = NoManifest
  BY <1>1 DEF Idle, IInv, ControlHolds
<1>3. CASE Settled
  <2>1. proc' = [proc EXCEPT !.at = "accept"]
    BY <1>3 DEF Recover, Goes
  <2>2. MovesTo(proc, proc', "accept", proc.todo)
    BY <1>1, <2>1, ProcessMoves DEF Places
  <2>3. ControlHolds' /\ (Uncommitted' => Uncommitted)
    BY <1>1, <1>2, <1>3, <2>2 DEF IInv, ControlHolds, Uncommitted, Settled, MovesTo
  <2> QED BY <1>1, <2>2, <2>3, ProcStep DEF IInv, TypeOK, MovesTo
<1>4. CASE ~Settled /\ journal.state # "reverting" /\ Published /\ Verified(journal.next)
  <2>1. proc' = [proc EXCEPT !.at = "checkpoint"] /\ journal.state = "switching"
    <3>1. journal.state \in {"none", "switching", "reverting", "complete"}
      BY DEF IInv, TypeOK, Journal
    <3> QED BY <1>4, <3>1 DEF Recover, Goes, Settled
  <2>2. MovesTo(proc, proc', "checkpoint", proc.todo)
    BY <1>1, <2>1, ProcessMoves DEF Places
  <2>3. ControlHolds' /\ (Uncommitted' => Uncommitted)
    BY <1>1, <1>2, <1>4, <2>2 DEF IInv, ControlHolds, Uncommitted, Settled, MovesTo
  <2> QED BY <1>1, <1>4, <2>1, <2>2, <2>3, ProcStep DEF IInv, TypeOK, MovesTo
<1>5. CASE ~Settled /\ ~(journal.state # "reverting" /\ Published /\ Verified(journal.next))
  <2>1. proc' = [proc EXCEPT !.at = "restore", !.todo = Entries(journal)]
    BY <1>5 DEF Recover, Goes
  <2>2. MovesTo(proc, proc', "restore", Entries(journal))
    BY <1>1, <2>1, ProcessMoves DEF Places
  <2>3. ControlHolds' /\ (Uncommitted' => Uncommitted)
    BY <1>1, <1>2, <1>5, <2>2 DEF IInv, ControlHolds, Uncommitted, Settled, MovesTo
  <2> QED BY <1>1, <1>5, <2>2, <2>3, ProcStep DEF IInv, TypeOK, MovesTo
<1> QED BY <1>3, <1>4, <1>5

(* No operation is under way in an idle process.                           *)
LEMMA IdleProcess == Idle \in Process /\ Idle.at = "idle" /\ Idle.op = "none"
BY DEF Idle, Process

(* A process that ends, dies or is told of an error leaves the disk as it  *)
(* is; if it was taking a published release back, it is halfway.           *)
LEMMA EndPreserves ==
  ASSUME IInv, Halfway, proc' = Idle, UNCHANGED <<disk, game, installs>>, proc.at # "idle",
         answer' \in {"none", "done", "refused", "restored", "pending"}
  PROVE  IInv'
<1>1. /\ UNCHANGED <<live, stage, backup, active, journal, good, mark, game, installs>>
      /\ proc'.at = "idle" /\ proc'.op = "none" /\ proc' \in Process
  BY IdleProcess DEF disk
<1>2. game = NoManifest
  BY IdleProcess DEF IInv, ControlHolds
<1>3. ControlHolds' /\ (Uncommitted' => Uncommitted)
  BY <1>1, <1>2 DEF IInv, ControlHolds, Uncommitted
<1> QED BY <1>1, <1>3, ProcStep DEF IInv, TypeOK

(* An error or a death, at any place.                                      *)
LEMMA FailsPreserve ==
  ASSUME IInv, Halfway, Fails \/ Dies
  PROVE  IInv'
<1>1. CASE proc' = Idle
  BY <1>1, EndPreserves DEF Fails, Dies, Ends, IInv, TypeOK
<1>2. CASE proc' # Idle
  <2>1. /\ Fails /\ proc.op = "commit" /\ ~proc.recovering
        /\ proc.at \in {"switch", "publish", "checkpoint", "settle", "accept"}
        /\ proc' = [proc EXCEPT !.at = "recover", !.recovering = TRUE, !.failed = TRUE, !.todo = {}]
        /\ UNCHANGED answer
    BY <1>2 DEF Fails, Dies, Ends
  <2>2. /\ UNCHANGED <<live, stage, backup, active, journal, good, mark, game, installs>>
        /\ proc \in Process
    BY <2>1 DEF Fails, disk, IInv, TypeOK
  <2>3. /\ proc' \in Process /\ proc'.at = "recover" /\ proc'.op = "commit" /\ proc'.failed /\ proc'.recovering
    BY <2>1, <2>2 DEF Process
  <2>4. game = NoManifest
    BY <2>1, IdleProcess DEF IInv, ControlHolds
  <2>5. ControlHolds' /\ (Uncommitted' => Uncommitted)
    BY <2>1, <2>2, <2>3, <2>4 DEF IInv, ControlHolds, Uncommitted
  <2> QED BY <2>1, <2>2, <2>3, <2>5, ProcStep DEF IInv, TypeOK
<1> QED BY <1>1, <1>2

(* Whoever takes the lock starts with a recovery; an installation is       *)
(* committed once.                                                         *)
LEMMA LocksPreserve ==
  ASSUME IInv, Halfway, NEW op \in {"recover", "commit", "rollback"}, Locks(op)
  PROVE  IInv'
<1>1. /\ proc = Idle /\ game = NoManifest /\ (op = "commit" => stage.fresh)
      /\ proc' = [Idle EXCEPT !.op = op, !.at = "recover", !.recovering = TRUE]
      /\ stage' = IF op = "commit" THEN [stage EXCEPT !.fresh = FALSE] ELSE stage
      /\ UNCHANGED <<live, backup, active, journal, good, mark, game, installs, answer>>
  BY DEF Locks
<1>2. proc' \in Process /\ proc'.at = "recover" /\ proc'.op = op
  BY <1>1 DEF Idle, Process
<1>3. stage \in [release : Release, files : SUBSET Paths, fresh : BOOLEAN]
  BY DEF IInv, TypeOK
<1>4. /\ stage' \in [release : Release, files : SUBSET Paths, fresh : BOOLEAN]
      /\ stage'.release = stage.release /\ (stage'.fresh => stage.fresh /\ op # "commit")
  BY <1>1, <1>3
<1>5. ControlHolds' /\ (Uncommitted' => Uncommitted)
  BY <1>1, <1>2, <1>4 DEF IInv, ControlHolds, Uncommitted
<1> QED BY <1>1, <1>2, <1>4, <1>5, IdleProcess, ProcStep DEF IInv, TypeOK

(* A game starts only over a settled journal.                              *)
LEMMA GamesPreserve ==
  ASSUME IInv, Halfway, (\E m \in Manifests : Launch(m)) \/ GameEnds
  PROVE  IInv'
<1>1. /\ UNCHANGED <<live, stage, backup, active, journal, good, mark, proc, installs, answer>>
      /\ game' \in Manifests \cup {NoManifest} /\ proc = Idle
      /\ game' # NoManifest => /\ game = NoManifest /\ Settled
                               /\ active.manifest \in {game', NoManifest}
  BY DEF Launch, GameEnds, disk, IInv, ControlHolds, NoRelease
<1>2. ControlHolds' /\ (Uncommitted' => Uncommitted)
  BY <1>1 DEF IInv, ControlHolds, Uncommitted, Settled, Halfway
<1> QED BY <1>1, <1>2, IdleProcess, ProcStep DEF IInv, TypeOK

(* What the player damages fits every release; what it puts back, while    *)
(* the journal is settled, fits the active one.                            *)
LEMMA PlayerPreserves ==
  ASSUME IInv, Halfway, NEW q \in Paths, Player(q)
  PROVE  IInv'
<1>1. PICK file \in {"junk"} \cup (IF Settled THEN {Expected(active, q)} ELSE {}) :
        live' = [live EXCEPT ![q] = file]
  BY DEF Player
<1>2. /\ UNCHANGED <<stage, backup, active, journal, good, mark, proc, game, installs, answer>>
      /\ live \in [Paths -> Contents]
  BY DEF Player, IInv, TypeOK
<1>3. file \in Contents /\ (file = "junk" \/ (Settled /\ file = Expected(active, q)))
  BY <1>1, ExpectedIsContent DEF Contents, IInv, JournalHolds
<1>4. live' \in [Paths -> Contents] /\ (halfway => halfway') /\ halfway' \in BOOLEAN
  BY <1>1, <1>2, <1>3 DEF Halfway, IInv, TypeOK
<1>5. ASSUME NEW r, NEW p \in Paths, Fits(r, p), r = active \/ ~Settled
      PROVE  live'[p] \in {Expected(r, p), "junk"} \/ (halfway' /\ p \notin Installed(r))
  BY <1>1, <1>2, <1>3, <1>4, <1>5 DEF Fits
<1>6. FilesHold'
  <2>1. CASE Settled
    <3>1. Whole(active)'
      BY <1>2, <1>5, <2>1 DEF IInv, FilesHold, Fits, Whole
    <3> QED BY <1>2, <2>1, <3>1 DEF IInv, ControlHolds, FilesHold, Settled
  <2>2. CASE ~Settled
    BY <1>2, <1>5, <2>2 DEF IInv, FilesHold, Fits, Whole, Settled, Published, Entries
  <2> QED BY <2>1, <2>2
<1>7. TypeOK' /\ ControlHolds' /\ StageHolds' /\ MarkHolds'
  <2>1. TypeOK'
    BY PlayedTyped, <1>2, <1>4 DEF IInv, TypeOK
  <2> QED BY <1>2, <2>1 DEF IInv, ControlHolds, StageHolds, MarkHolds, Settled, Saved, NotOlder, Halfway
<1>8. JournalHolds' /\ IdsHold' /\ SlotsHold'
  BY <1>2, JournalKept, IdsKept, SlotsKept DEF IInv, Uncommitted
<1> QED BY <1>6, <1>7, <1>8 DEF IInv

(* A new installation has an id of its own.                                *)
LEMMA PreparePreserves ==
  ASSUME IInv, Halfway, NEW m \in Manifests, Prepare(m)
  PROVE  IInv'
<1> DEFINE next == [manifest |-> m, id |-> installs + 1]
<1>1. /\ proc = Idle /\ game = NoManifest /\ installs < MaxInstalls /\ installs' = installs + 1
      /\ stage' = [release |-> next, fresh |-> TRUE,
                   files |-> {p \in Installed(next) : ~Reusable(active, next, p)}]
      /\ UNCHANGED <<live, backup, active, journal, good, mark, proc, game, answer>>
  BY DEF Prepare
<1>2. installs \in 0 .. MaxInstalls /\ MaxInstalls \in Nat
  BY ReleaseAssumption DEF IInv, TypeOK
<1>3. installs' \in 0 .. MaxInstalls /\ next \in Release /\ installs \in Nat
  BY <1>1, <1>2 DEF Release
<1>4. stage' \in [release : Release, files : SUBSET Paths, fresh : BOOLEAN]
  <2>1. {p \in Installed(next) : ~Reusable(active, next, p)} \subseteq Paths
    BY DEF Installed
  <2> HIDE DEF next
  <2> QED BY <1>1, <1>3, <2>1
<1>5. TypeOK' /\ ControlHolds'
  <2>1. halfway' \in BOOLEAN
    BY DEF Halfway, IInv, TypeOK
  <2>2. TypeOK'
    BY PlayedTyped, <1>1, <1>3, <1>4, <2>1 DEF IInv, TypeOK
  <2> QED BY <1>1, <2>2, IdleProcess DEF IInv, ControlHolds
<1>6. FilesHold'
  BY <1>1, IdleProcess, FilesKept DEF IInv
<1>7. JournalHolds' /\ SlotsHold' /\ StageHolds' /\ MarkHolds'
  <2>1. JournalHolds' /\ SlotsHold'
    BY <1>1, JournalKept, SlotsKept DEF IInv
  <2> QED BY <1>1, <2>1, IdleProcess DEF IInv, StageHolds, MarkHolds, NotOlder, Settled
<1>8. IdsHold'
  <2>1. /\ active.id \in Nat /\ journal.previous.id \in Nat /\ journal.next.id \in Nat /\ journal.backup \in Nat
        /\ \A k \in 0 .. 1 : /\ good[k].previous.id \in Nat /\ good[k].next.id \in Nat
                                /\ good[k].backup \in Nat
    BY DEF IInv, TypeOK, Journal, Release
  <2>2. Below(installs + 1) /\ stage'.release.id = installs + 1 /\ stage'.release.manifest = m
    BY <1>1 DEF IInv, IdsHold
  <2> QED BY <1>1, <1>3, <2>1, <2>2 DEF IdsHold, Below, Earlier
<1> QED BY <1>5, <1>6, <1>7, <1>8 DEF IInv

----------------------------------------------------------------------------
(* A recovery *)

(* The process that goes on has the lock, and nobody plays.                *)
LEMMA AtWork ==
  ASSUME IInv, Halfway, proc.at # "idle", proc'.at # "idle"
  PROVE  /\ game = NoManifest /\ halfway' = halfway /\ proc # Idle /\ proc' # Idle
         /\ proc \in Process /\ halfway \in BOOLEAN
BY IdleProcess DEF IInv, ControlHolds, Halfway, TypeOK

(* What a journal's backup holds is some content.                          *)
LEMMA SavedIsContent ==
  ASSUME IInv, ~Settled, NEW p \in Paths
  PROVE  backup[journal.backup][p] \in Contents
BY DEF IInv, TypeOK, JournalHolds

(* What is put back fits the release before.                               *)
LEMMA RestorePreserves ==
  ASSUME IInv, Halfway, NEW p \in Paths, Restore(p)
  PROVE  IInv'
<1>1. /\ proc.at = "restore" /\ p \in proc.todo /\ ~Settled
      /\ live' = [live EXCEPT ![p] = backup[journal.backup][p]]
      /\ proc' = [proc EXCEPT !.todo = proc.todo \ {p}]
      /\ UNCHANGED <<stage, backup, active, journal, good, mark, game, installs, answer>>
  BY DEF Restore, IInv, ControlHolds
<1>2. proc \in Process /\ proc.todo \in SUBSET Paths /\ proc.at \in Places
  BY ProcessFields DEF IInv, TypeOK
<1>3. MovesTo(proc, proc', "restore", proc.todo \ {p})
  BY <1>1, <1>2, ProcessMoves
<1>4. /\ game = NoManifest /\ halfway' = halfway /\ proc' # Idle /\ halfway \in BOOLEAN /\ proc # Idle
  BY <1>1, <1>3, AtWork DEF MovesTo
<1>5. live' \in [Paths -> Contents] /\ live'[p] = backup[journal.backup][p]
      /\ \A q \in Paths \ {p} : live'[q] = live[q]
  BY <1>1, SavedIsContent DEF IInv, TypeOK
<1>6. Saved(journal.backup, journal.previous, journal.next, p)
  BY <1>1 DEF IInv, JournalHolds
<1>7. FilesHold'
  <2>1. ASSUME NEW q \in Paths \ Entries(journal) PROVE Fits(journal.next, q)'
    <3>1. CASE q = p
      <4>1. Expected(journal.previous, p) = Expected(journal.next, p)
        BY <3>1, NotInstalled DEF Entries
      <4> QED BY <1>1, <1>5, <1>6, <3>1, <4>1 DEF Saved, Fits
    <3>2. CASE q # p
      BY <1>1, <1>4, <1>5, <3>2 DEF IInv, FilesHold, Fits
    <3> QED BY <3>1, <3>2
  <2>2. ASSUME NEW q \in Paths \ proc'.todo PROVE Fits(journal.previous, q)'
    <3>1. CASE q = p
      BY <1>1, <1>5, <1>6, <3>1 DEF Saved, Fits
    <3>2. CASE q # p
      BY <1>1, <1>3, <1>4, <1>5, <3>2 DEF IInv, FilesHold, Fits, MovesTo
    <3> QED BY <3>1, <3>2
  <2> QED BY <1>1, <1>3, <2>1, <2>2 DEF FilesHold, MovesTo, Settled, Entries
<1>8. TypeOK' /\ ControlHolds' /\ StageHolds' /\ MarkHolds'
  <2>1. TypeOK'
    BY PlayedTyped, <1>1, <1>3, <1>4, <1>5 DEF IInv, TypeOK, MovesTo
  <2> QED BY <1>1, <1>3, <1>4, <2>1 DEF IInv, ControlHolds, StageHolds, MarkHolds, Settled, MovesTo, NotOlder
<1>9. JournalHolds' /\ IdsHold' /\ SlotsHold'
  BY <1>1, <1>3, JournalKept, IdsKept, SlotsKept DEF IInv, Uncommitted, MovesTo
<1> QED BY <1>7, <1>8, <1>9 DEF IInv

(* Once every file is put back, so is the pointer.                         *)
LEMMA RepointPreserves ==
  ASSUME IInv, Halfway, Repoint
  PROVE  IInv'
<1>1. /\ proc.at = "restore" /\ proc.todo = {} /\ ~Settled
      /\ active' = journal.previous /\ proc' = [proc EXCEPT !.at = "settle"]
      /\ UNCHANGED <<live, stage, backup, journal, good, mark, game, installs, answer>>
  BY DEF Repoint, Goes, IInv, ControlHolds
<1>2. proc \in Process /\ MovesTo(proc, proc', "settle", proc.todo)
  BY <1>1, ProcessMoves DEF IInv, TypeOK, Places
<1>3. /\ game = NoManifest /\ halfway' = halfway /\ proc' # Idle /\ halfway \in BOOLEAN /\ proc # Idle
  BY <1>1, <1>2, AtWork DEF MovesTo
<1>4. FilesHold'
  <2>1. Whole(active)'
    BY <1>1, <1>3 DEF IInv, FilesHold, Whole, Fits
  <2>2. ~Settled' /\ \A p \in Paths \ Entries(journal)' : Fits(journal.next, p)'
    BY <1>1, <1>3 DEF IInv, FilesHold, Fits, Settled, Entries
  <2> QED BY <1>2, <2>1, <2>2 DEF FilesHold, MovesTo
<1>5. TypeOK' /\ ControlHolds' /\ StageHolds' /\ MarkHolds'
  <2>1. active' \in Release
    BY <1>1 DEF IInv, TypeOK, Journal
  <2>2. TypeOK'
    BY PlayedTyped, <1>1, <1>2, <1>3, <2>1 DEF IInv, TypeOK, MovesTo
  <2> QED BY <1>1, <1>2, <1>3, <2>2 DEF IInv, ControlHolds, StageHolds, MarkHolds, Settled, MovesTo
<1>6. JournalHolds'
  BY <1>1 DEF IInv, JournalHolds, Settled, Saved, NotOlder
<1>7. SlotsHold' /\ IdsHold'
  BY <1>1, <1>2, SlotsKept DEF IInv, IdsHold, Below, Earlier, Uncommitted, MovesTo
<1> QED BY <1>4, <1>5, <1>6, <1>7 DEF IInv

(* The journal is complete when the files are those of the active release. *)
LEMMA SettlePreserves ==
  ASSUME IInv, Halfway, Settle
  PROVE  IInv'
<1>1. /\ proc.at = "settle" /\ ~Settled
      /\ journal' = [journal EXCEPT !.state = "complete", !.generation = journal.generation + 1]
      /\ proc' = [proc EXCEPT !.at = "accept"]
      /\ UNCHANGED <<live, stage, backup, active, good, mark, game, installs, answer>>
  BY DEF Settle, Completed, Goes, IInv, ControlHolds
<1>2. proc \in Process /\ MovesTo(proc, proc', "accept", proc.todo)
  BY <1>1, ProcessMoves DEF IInv, TypeOK, Places
<1>3. /\ game = NoManifest /\ halfway' = halfway /\ proc' # Idle /\ halfway \in BOOLEAN /\ proc # Idle
  BY <1>1, <1>2, AtWork DEF MovesTo
<1>4. /\ journal' \in Journal /\ journal'.state = "complete" /\ journal'.previous = journal.previous
      /\ journal'.next = journal.next /\ journal'.backup = journal.backup
  <2>1. journal \in Journal /\ journal.generation + 1 \in Nat
    BY DEF IInv, TypeOK, Journal
  <2> QED BY <1>1, <2>1 DEF Journal
<1>5. FilesHold' /\ Settled'
  BY <1>1, <1>2, <1>3, <1>4 DEF IInv, FilesHold, Whole, Settled, MovesTo
<1>6. TypeOK' /\ ControlHolds' /\ StageHolds'
  <2>1. TypeOK'
    BY PlayedTyped, <1>1, <1>2, <1>3, <1>4 DEF IInv, TypeOK, MovesTo
  <2> QED BY <1>1, <1>2, <1>3, <1>4, <1>5, <2>1 DEF IInv, ControlHolds, StageHolds, MovesTo
<1>7. MarkHolds' /\ JournalHolds'
  BY <1>1, <1>4, <1>5 DEF IInv, JournalHolds, MarkHolds, NotOlder, Real
<1>8. SlotsHold' /\ IdsHold'
  BY <1>1, <1>2, <1>4, SlotsKept DEF IInv, IdsHold, Below, Earlier, Uncommitted, MovesTo
<1> QED BY <1>5, <1>6, <1>7, <1>8 DEF IInv

----------------------------------------------------------------------------
(* Checkpoints *)

(* What is kept as a checkpoint is one: the release before the journal's,  *)
(* or, of a release that was repaired, the one before that.                *)
LEMMA CheckpointIsGood ==
  ASSUME IInv, proc.at = "checkpoint", NEW c, c = Checkpoint(Completed)
  PROVE  /\ c = NoJournal \/ (c \in Journal /\ GoodSlot(c))
         /\ \A n \in Nat : Below(n) => c = NoJournal \/ Earlier(c, n)
<1> DEFINE done == Completed
           last == LastKnownGood
<1>1. /\ ~Settled /\ journal \in Journal /\ Real(journal.previous) /\ journal.next.manifest \in Manifests
      /\ journal.backup \in 1 .. MaxInstalls
      /\ \A p \in Paths : Saved(journal.backup, journal.previous, journal.next, p)
  BY DEF IInv, ControlHolds, JournalHolds, TypeOK
<1>2. /\ done \in Journal /\ done.previous = journal.previous /\ done.next = journal.next
      /\ done.backup = journal.backup /\ done.generation \in Nat
  <2>1. journal.generation + 1 \in Nat
    BY <1>1 DEF Journal
  <2> QED BY <1>1, <2>1 DEF Completed, Journal
<1>3. /\ last \in Journal /\ last.generation \in Nat /\ (last = NoJournal \/ GoodSlot(last))
      /\ \A n \in Nat : Below(n) => Earlier(last, n)
  <2>1. PICK k \in 0 .. 1 : last = good[k]
    BY LastIsASlot
  <2>2. good[k] \in Journal
    BY DEF IInv, TypeOK
  <2> QED BY <2>1, <2>2 DEF IInv, SlotsHold, Below, Journal
<1> HIDE DEF done, last
<1>4. CASE journal.previous = NoRelease
  BY <1>2, <1>4 DEF Checkpoint, done
<1>5. CASE journal.previous # NoRelease /\ journal.previous.manifest # journal.next.manifest
  <2>1. c = done
    BY <1>2, <1>5 DEF Checkpoint, done
  <2>2. GoodSlot(done)
    BY <1>1, <1>2, <1>5 DEF GoodSlot, Saved, Real
  <2> QED BY <1>2, <2>1, <2>2 DEF Below, Earlier
<1>6. CASE journal.previous # NoRelease /\ journal.previous.manifest = journal.next.manifest
  <2>1. CASE last.next # journal.previous
    BY <1>2, <1>6, <2>1 DEF Checkpoint, done, last
  <2>2. CASE last.next = journal.previous
    <3> DEFINE g == 1 + (IF last.generation > done.generation THEN last.generation ELSE done.generation)
    <3>1. c = [last EXCEPT !.next = done.next, !.generation = g]
      BY <1>2, <1>6, <2>2 DEF Checkpoint, done, last
    <3>2. g \in Nat
      BY <1>2, <1>3
    <3> HIDE DEF g
    <3>3. /\ c \in Journal /\ c.previous = last.previous /\ c.next = journal.next /\ c.backup = last.backup
      <4>1. done.next \in Release
        BY <1>2 DEF Journal
      <4> QED BY <1>2, <1>3, <3>1, <3>2, <4>1 DEF Journal
    <3>4. GoodSlot(last)
      BY <1>3, <1>6, <2>2 DEF NoJournal
    <3>5. GoodSlot(c)
      BY <1>6, <2>2, <3>3, <3>4 DEF GoodSlot
    <3> QED BY <1>3, <3>3, <3>5 DEF Below, Earlier
  <2> QED BY <2>1, <2>2
<1> QED BY <1>4, <1>5, <1>6

(* A release that was checked becomes the last known good.                 *)
LEMMA KeepCheckpointPreserves ==
  ASSUME IInv, Halfway, KeepCheckpoint
  PROVE  IInv'
<1> DEFINE c == Checkpoint(Completed)
<1>1. /\ proc.at = "checkpoint" /\ ~Settled
      /\ good' = IF c = NoJournal THEN good ELSE [good EXCEPT ![c.generation % 2] = c]
      /\ proc' = [proc EXCEPT !.at = "settle"]
      /\ UNCHANGED <<live, stage, backup, active, journal, mark, game, installs, answer>>
  BY DEF KeepCheckpoint, Goes, IInv, ControlHolds
<1>2. proc \in Process /\ MovesTo(proc, proc', "settle", proc.todo)
  BY <1>1, ProcessMoves DEF IInv, TypeOK, Places
<1>3. /\ game = NoManifest /\ halfway' = halfway /\ proc' # Idle /\ halfway \in BOOLEAN /\ proc # Idle
  BY <1>1, <1>2, AtWork DEF MovesTo
<1>4. /\ c = NoJournal \/ (c \in Journal /\ GoodSlot(c))
      /\ \A n \in Nat : Below(n) => c = NoJournal \/ Earlier(c, n)
  BY <1>1, CheckpointIsGood
<1>5. good \in [0 .. 1 -> Journal] /\ SlotsHold /\ IdsHold /\ installs + 1 \in Nat
  BY ReleaseAssumption DEF IInv, TypeOK
<1>6. c # NoJournal => c.generation % 2 \in 0 .. 1
  <2>1. c # NoJournal => c.generation \in Nat
    BY <1>4 DEF Journal
  <2>2. \A n \in Nat : n % 2 \in 0 .. 1
    OBVIOUS
  <2> QED BY <2>1, <2>2
<1> HIDE DEF c
<1>7. /\ good' \in [0 .. 1 -> Journal]
      /\ \A k \in 0 .. 1 : good'[k] = good[k] \/ (c # NoJournal /\ good'[k] = c)
  BY <1>1, <1>4, <1>5, <1>6
<1>8. SlotsHold'
  BY <1>1, <1>4, <1>5, <1>7 DEF SlotsHold, GoodSlot
<1>9. IdsHold'
  <2>1. ASSUME NEW n \in Nat, Below(n)
        PROVE  active'.id < n /\ Earlier(journal, n)' /\ \A k \in 0 .. 1 : Earlier(good'[k], n)
    BY <1>1, <1>4, <1>7, <2>1 DEF Below, Earlier
  <2>2. Uncommitted' => Uncommitted
    BY <1>1, <1>2 DEF Uncommitted, MovesTo
  <2> QED BY <1>1, <1>5, <2>1, <2>2 DEF IdsHold, Below, Earlier
<1>10. TypeOK' /\ ControlHolds' /\ StageHolds' /\ MarkHolds'
  <2>1. TypeOK'
    BY PlayedTyped, <1>1, <1>2, <1>3, <1>7 DEF IInv, TypeOK, MovesTo
  <2> QED BY <1>1, <1>2, <1>3, <2>1 DEF IInv, ControlHolds, StageHolds, MarkHolds, Settled, MovesTo
<1>11. FilesHold' /\ JournalHolds'
  BY <1>1, <1>2, <1>3, JournalKept
     DEF IInv, FilesHold, Whole, Fits, Settled, MovesTo, Entries
<1> QED BY <1>8, <1>9, <1>10, <1>11 DEF IInv

(* What is accepted is active, and newer than what was accepted before.    *)
LEMMA AcceptPreserves ==
  ASSUME IInv, Halfway, Accept
  PROVE  IInv'
<1>1. /\ proc.at = "accept" /\ Settled /\ Real(active) /\ NotOlder(active.manifest)
      /\ Accepts => Allowed(active.manifest)
      /\ mark' = IF Accepts THEN Accepted(active.manifest) ELSE mark
      /\ UNCHANGED <<live, stage, backup, active, journal, good, game, installs>>
  BY DEF Accept, IInv, ControlHolds, JournalHolds, MarkHolds
<1>2. /\ mark' \in Manifests \cup {NoManifest}
      /\ (mark' # NoManifest => Generation[mark'] > 0) /\ NotOlder(active.manifest)'
  <2>1. mark \in Manifests \cup {NoManifest} /\ (mark # NoManifest => Generation[mark] > 0)
    BY DEF IInv, TypeOK, MarkHolds
  <2>2. CASE ~Accepts
    BY <1>1, <2>1, <2>2 DEF NotOlder
  <2>3. CASE Accepts
    <3>1. active.manifest \in Manifests /\ active.manifest # NoManifest
          /\ Generation[active.manifest] \in Nat
      BY <1>1, <2>3, ReleaseAssumption DEF Accepts, Real
    <3>2. mark' = IF Generation[active.manifest] = 0 THEN mark ELSE active.manifest
      BY <1>1, <2>3 DEF Accepted
    <3> QED BY <1>1, <2>1, <3>1, <3>2 DEF NotOlder
  <2> QED BY <2>2, <2>3
<1>3. proc' # Idle => /\ proc' = [proc EXCEPT !.at = "ready", !.recovering = FALSE] /\ UNCHANGED answer
                      /\ proc.recovering /\ ~proc.failed
  BY DEF Accept, Ends
<1>4. proc' # Idle => /\ proc' \in Process /\ proc'.at = "ready" /\ proc'.op = proc.op
                      /\ ~proc'.recovering /\ proc'.failed = proc.failed
  <2>1. proc \in Process
    BY DEF IInv, TypeOK
  <2> QED BY <1>3, <2>1 DEF Process
<1>5. /\ proc' \in Process /\ proc'.at \in {"idle", "ready"} /\ proc'.op \in {"none", proc.op}
      /\ (proc'.at = "idle" => proc' = Idle) /\ (proc'.at = "ready" => ~proc'.recovering)
  BY <1>4, IdleProcess
<1>6. /\ answer' \in {"none", "done", "refused", "restored", "pending"} /\ halfway' \in BOOLEAN
      /\ game = NoManifest
  BY <1>1, <1>3, IdleProcess DEF Accept, Ends, IInv, TypeOK, Halfway, ControlHolds
<1>7. TypeOK' /\ ControlHolds' /\ StageHolds' /\ MarkHolds'
  <2>1. TypeOK'
    BY PlayedTyped, <1>1, <1>2, <1>5, <1>6 DEF IInv, TypeOK
  <2>2. ControlHolds'
    BY <1>1, <1>5, <1>6 DEF IInv, ControlHolds, Settled
  <2> QED BY <1>1, <1>2, <1>5, <2>1, <2>2 DEF StageHolds, MarkHolds
<1>8. FilesHold' /\ JournalHolds' /\ SlotsHold'
  <2>1. FilesHold'
    BY <1>1, <1>5, FilesKept DEF IInv
  <2> QED BY <1>1, <2>1, SlotsKept DEF IInv, JournalHolds, Settled
<1>9. IdsHold'
  <2>1. Uncommitted' => Uncommitted
    BY <1>1, <1>3, <1>4, IdleProcess DEF Uncommitted
  <2> QED BY <1>1, <2>1, IdsKept DEF IInv
<1> QED BY <1>7, <1>8, <1>9 DEF IInv

----------------------------------------------------------------------------
(* An installation and a rollback *)

(* The backup has the release that is active, and is nobody else's.        *)
LEMMA CommitPreserves ==
  ASSUME IInv, Halfway, Commit
  PROVE  IInv'
<1> DEFINE next == stage.release
           id == stage.release.id
           saved == [p \in Paths |-> IF p \in Installed(active) \cup Installed(stage.release)
                                     THEN live[p] ELSE "absent"]
<1>1. /\ proc.at = "ready" /\ proc.op = "commit" /\ Settled /\ Uncommitted /\ ~stage.fresh
      /\ Allowed(next.manifest) /\ (Verified(active) \/ next.manifest = active.manifest)
      /\ \A p \in Installed(next) \ Installed(active) : live[p] = "absent"
      /\ backup' = [backup EXCEPT ![id] = saved] /\ proc' = [proc EXCEPT !.at = "write"]
      /\ UNCHANGED <<live, stage, active, journal, good, mark, game, installs, answer>>
  BY DEF Commit, Goes, IInv, ControlHolds, Uncommitted
<1>2. /\ next.manifest \in Manifests /\ id \in 1 .. MaxInstalls /\ Below(id) /\ Whole(active)
      /\ live \in [Paths -> Contents] /\ backup \in [1 .. MaxInstalls -> [Paths -> Contents]]
  <2>1. /\ next.manifest \in Manifests /\ id \in 1 .. installs /\ Below(id)
        /\ installs \in 0 .. MaxInstalls
    BY <1>1 DEF IInv, IdsHold, TypeOK
  <2> QED BY <1>1, <2>1, ReleaseAssumption DEF IInv, FilesHold, TypeOK
<1>3. proc \in Process /\ MovesTo(proc, proc', "write", proc.todo)
  BY <1>1, ProcessMoves DEF IInv, TypeOK, Places
<1>4. /\ game = NoManifest /\ halfway' = halfway /\ proc' # Idle /\ halfway \in BOOLEAN /\ proc # Idle
  BY <1>1, <1>3, AtWork DEF MovesTo
<1>5. /\ backup' \in [1 .. MaxInstalls -> [Paths -> Contents]] /\ backup'[id] = saved
      /\ \A i \in 1 .. MaxInstalls : i # id => backup'[i] = backup[i]
  <2>1. saved \in [Paths -> Contents]
    BY <1>2 DEF Contents
  <2> HIDE DEF saved, id
  <2> QED BY <1>1, <1>2, <2>1
<1>6. ASSUME NEW p \in Paths PROVE Saved(stage.release.id, active, stage.release, p)'
  <2>1. saved[p] = Expected(active, p) \/ (saved[p] = "junk" /\ active.manifest = next.manifest)
    <3>1. CASE p \in Installed(active)
      BY <1>1, <1>2, <3>1 DEF Whole, Verified
    <3>2. CASE p \notin Installed(active)
      BY <1>1, <3>2, NotInstalled
    <3> QED BY <3>1, <3>2
  <2> QED BY <1>1, <1>5, <2>1 DEF Saved
<1>7. NotOlder(stage.release.manifest)'
  BY <1>1, <1>2, ReleaseAssumption DEF NotOlder, Allowed
<1>8. TypeOK' /\ ControlHolds' /\ StageHolds' /\ MarkHolds'
  <2>1. TypeOK'
    BY PlayedTyped, <1>1, <1>3, <1>4, <1>5 DEF IInv, TypeOK, MovesTo
  <2>2. StageHolds'
    BY <1>1, <1>2, <1>6, <1>7 DEF StageHolds
  <2> QED BY <1>1, <1>3, <1>4, <2>1, <2>2 DEF IInv, ControlHolds, MarkHolds, Settled, MovesTo, NotOlder
<1>9. FilesHold'
  BY <1>1, <1>3, FilesKept DEF IInv, MovesTo
<1>10. JournalHolds' /\ IdsHold'
  BY <1>1, <1>3, IdsKept DEF IInv, JournalHolds, Settled
<1>11. SlotsHold'
  <2>1. ASSUME NEW k \in 0 .. 1, GoodSlot(good[k])
        PROVE  GoodSlot(good[k])'
    <3>1. good[k].backup \in 1 .. MaxInstalls /\ good[k].backup < id
      BY <1>2, <2>1 DEF GoodSlot, Below, Earlier
    <3>2. backup'[good[k].backup] = backup[good[k].backup]
      BY <1>2, <1>5, <3>1
    <3> QED BY <1>1, <2>1, <3>2 DEF GoodSlot
  <2> QED BY <1>1, <2>1 DEF IInv, SlotsHold
<1> QED BY <1>8, <1>9, <1>10, <1>11 DEF IInv

(* The journal names both releases before a file is switched.              *)
LEMMA WriteAheadPreserves ==
  ASSUME IInv, Halfway, WriteAhead
  PROVE  IInv'
<1> DEFINE next == stage.release
           id == stage.release.id
<1>1. /\ proc.at = "write" /\ proc.op = "commit" /\ Settled /\ Uncommitted /\ ~stage.fresh
      /\ ~proc.recovering
      /\ journal' = [generation |-> journal.generation + 1, state |-> "switching", previous |-> active,
                     next |-> next, backup |-> id]
      /\ proc' = [proc EXCEPT !.at = "switch", !.todo = Entries(journal')]
      /\ UNCHANGED <<live, stage, backup, active, good, mark, game, installs, answer>>
  BY DEF WriteAhead, IInv, ControlHolds, Uncommitted
<1>2. /\ next.manifest \in Manifests /\ id \in 1 .. installs /\ installs \in 0 .. MaxInstalls
      /\ active.id < id /\ MaxInstalls \in Nat /\ next \in Release /\ active \in Release
      /\ active.id \in Nat
  BY <1>1, ReleaseAssumption DEF IInv, IdsHold, Below, TypeOK, Release
<1>3. proc \in Process /\ MovesTo(proc, proc', "switch", Entries(journal'))
  BY <1>1, ProcessMoves, EntriesArePaths DEF IInv, TypeOK, Places
<1>4. /\ game = NoManifest /\ halfway' = halfway /\ proc' # Idle /\ halfway \in BOOLEAN /\ proc # Idle
  BY <1>1, <1>3, AtWork DEF MovesTo
<1>5. /\ journal' \in Journal /\ journal'.state = "switching" /\ journal'.previous = active
      /\ journal'.next = next /\ journal'.backup = id /\ ~Settled'
  <2>1. journal.generation + 1 \in Nat
    BY DEF IInv, TypeOK, Journal
  <2>2. id \in 0 .. MaxInstalls
    BY <1>2
  <2> HIDE DEF next, id
  <2> QED BY <1>1, <1>2, <2>1, <2>2 DEF Journal, Settled
<1>6. JournalHolds'
  <2>1. /\ NotOlder(active.manifest) /\ NotOlder(next.manifest) /\ Real(active)
        /\ \A p \in Paths : Saved(id, active, next, p)
    BY <1>1 DEF IInv, StageHolds, MarkHolds, JournalHolds
  <2>2. active # next /\ id \in 1 .. MaxInstalls
    BY <1>2
  <2> QED BY <1>1, <1>2, <1>5, <2>1, <2>2 DEF JournalHolds, NotOlder, Saved
<1>7. FilesHold'
  <2>1. ASSUME NEW p \in Paths \ Entries(journal') PROVE Fits(journal.next, p)'
    <3>1. Fits(active, p) /\ p \notin Installed(active) \cup Installed(next)
      BY <1>1, <1>5 DEF IInv, FilesHold, Whole, Fits, Entries
    <3>2. Fits(next, p)
      BY <3>1, FitsBoth
    <3> QED BY <1>1, <1>4, <1>5, <3>2 DEF Fits
  <2> QED BY <1>1, <1>3, <1>5, <2>1 DEF FilesHold, MovesTo, Entries
<1>8. TypeOK' /\ ControlHolds' /\ StageHolds' /\ MarkHolds'
  <2>1. TypeOK'
    BY PlayedTyped, <1>1, <1>3, <1>4, <1>5 DEF IInv, TypeOK, MovesTo
  <2> QED BY <1>1, <1>3, <1>4, <1>5, <2>1 DEF IInv, ControlHolds, StageHolds, MarkHolds, MovesTo
<1>9. SlotsHold' /\ IdsHold'
  <2>1. SlotsHold' /\ ~Uncommitted'
    BY <1>1, <1>3, SlotsKept DEF IInv, Uncommitted, MovesTo
  <2>2. Below(installs + 1)'
    BY <1>1, <1>2, <1>5 DEF IInv, IdsHold, Below, Earlier
  <2> QED BY <2>1, <2>2 DEF IdsHold
<1> QED BY <1>6, <1>7, <1>8, <1>9 DEF IInv

(* A file that was switched is the next release's.                         *)
LEMMA SwitchFilePreserves ==
  ASSUME IInv, Halfway, NEW p \in Paths, SwitchFile(p)
  PROVE  IInv'
<1>1. /\ proc.at = "switch" /\ p \in proc.todo /\ ~Settled /\ proc.op = "commit" /\ ~proc.recovering
      /\ proc' = [proc EXCEPT !.todo = proc.todo \ {p}]
      /\ UNCHANGED <<backup, active, journal, good, mark, game, installs, answer>>
      /\ journal.next.manifest \in Manifests /\ live \in [Paths -> Contents]
      /\ stage \in [release : Release, files : SUBSET Paths, fresh : BOOLEAN]
  BY DEF SwitchFile, IInv, ControlHolds, JournalHolds, TypeOK
<1>2. proc \in Process /\ proc.todo \in SUBSET Paths /\ proc.at \in Places
  BY ProcessFields DEF IInv, TypeOK
<1>3. MovesTo(proc, proc', "switch", proc.todo \ {p})
  BY <1>1, <1>2, ProcessMoves
<1>4. /\ game = NoManifest /\ halfway' = halfway /\ proc' # Idle /\ halfway \in BOOLEAN /\ proc # Idle
  BY <1>1, <1>3, AtWork DEF MovesTo
<1>5. live' = live \/ live' = [live EXCEPT ![p] = Expected(journal.next, p)]
  BY NotInstalled DEF SwitchFile
<1>6. /\ live' \in [Paths -> Contents] /\ \A q \in Paths \ {p} : live'[q] = live[q]
      /\ live'[p] = Expected(journal.next, p)
  <2>1. Expected(journal.next, p) \in Contents
    BY <1>1, ExpectedIsContent DEF Real
  <2>2. live[p] = Expected(journal.next, p) \/ live' = [live EXCEPT ![p] = Expected(journal.next, p)]
    BY NotInstalled DEF SwitchFile, Reusable
  <2> QED BY <1>1, <1>5, <2>1, <2>2
<1>7. stage' = stage \/ stage' = [stage EXCEPT !.files = stage.files \ {p}]
  BY DEF SwitchFile
<1>8. /\ stage' \in [release : Release, files : SUBSET Paths, fresh : BOOLEAN]
      /\ stage'.release = stage.release /\ stage'.fresh = stage.fresh
  BY <1>1, <1>7
<1>9. FilesHold'
  <2>1. ASSUME NEW q \in Paths, Fits(journal.next, q) \/ q = p PROVE Fits(journal.next, q)'
    BY <1>1, <1>4, <1>6, <2>1 DEF Fits
  <2>2. \A q \in Paths \ Entries(journal) : Fits(journal.next, q)'
    BY <1>1, <2>1 DEF IInv, FilesHold
  <2>3. \A q \in Paths \ proc'.todo : Fits(journal.next, q)'
    BY <1>1, <1>3, <2>1 DEF IInv, FilesHold, MovesTo
  <2> QED BY <1>1, <1>3, <2>2, <2>3 DEF IInv, FilesHold, MovesTo, Settled, Entries
<1>10. TypeOK' /\ ControlHolds' /\ StageHolds' /\ MarkHolds'
  <2>1. TypeOK'
    BY PlayedTyped, <1>1, <1>3, <1>4, <1>6, <1>8 DEF IInv, TypeOK, MovesTo
  <2> QED BY <1>1, <1>3, <1>4, <1>8, <2>1
          DEF IInv, ControlHolds, StageHolds, MarkHolds, Settled, MovesTo, NotOlder
<1>11. JournalHolds' /\ IdsHold' /\ SlotsHold'
  BY <1>1, <1>3, <1>8, JournalKept, IdsKept, SlotsKept DEF IInv, Uncommitted, MovesTo
<1> QED BY <1>9, <1>10, <1>11 DEF IInv

(* The pointer follows once every file is the next release's.              *)
LEMMA PublishPreserves ==
  ASSUME IInv, Halfway, Publish
  PROVE  IInv'
<1>1. /\ proc.at = "switch" /\ proc.todo = {} /\ ~Settled
      /\ active' = journal.next /\ proc' = [proc EXCEPT !.at = "checkpoint"]
      /\ journal.state = "switching" /\ journal.next.manifest \in Manifests
      /\ UNCHANGED <<live, stage, backup, journal, good, mark, game, installs, answer>>
  BY DEF Publish, Goes, IInv, ControlHolds, FilesHold, JournalHolds
<1>2. proc \in Process /\ MovesTo(proc, proc', "checkpoint", proc.todo)
  BY <1>1, ProcessMoves DEF IInv, TypeOK, Places
<1>3. /\ game = NoManifest /\ halfway' = halfway /\ proc' # Idle /\ halfway \in BOOLEAN /\ proc # Idle
  BY <1>1, <1>2, AtWork DEF MovesTo
<1>4. FilesHold'
  <2>1. Whole(active)'
    BY <1>1, <1>3 DEF IInv, FilesHold, Whole, Fits
  <2>2. ~Settled' /\ \A p \in Paths \ Entries(journal)' : Fits(journal.next, p)'
    BY <1>1, <1>3 DEF IInv, FilesHold, Fits, Settled, Entries
  <2> QED BY <1>1, <1>2, <2>1, <2>2 DEF FilesHold, MovesTo, Published
<1>5. TypeOK' /\ ControlHolds' /\ StageHolds' /\ MarkHolds'
  <2>1. active' \in Release
    BY <1>1 DEF IInv, TypeOK, Journal
  <2>2. TypeOK'
    BY PlayedTyped, <1>1, <1>2, <1>3, <2>1 DEF IInv, TypeOK, MovesTo
  <2> QED BY <1>1, <1>2, <1>3, <2>2 DEF IInv, ControlHolds, StageHolds, MarkHolds, Settled, MovesTo
<1>6. JournalHolds'
  BY <1>1 DEF IInv, JournalHolds, Settled, Saved, NotOlder, Real
<1>7. SlotsHold' /\ IdsHold'
  BY <1>1, <1>2, SlotsKept DEF IInv, IdsHold, Below, Earlier, Uncommitted, MovesTo
<1> QED BY <1>4, <1>5, <1>6, <1>7 DEF IInv

(* A rollback finds in the backup what the checkpoint says, and takes no   *)
(* generation back that was accepted.                                      *)
LEMMA RollbackPreserves ==
  ASSUME IInv, Halfway, Rollback
  PROVE  IInv'
<1> DEFINE last == LastKnownGood
<1>1. /\ proc.at = "ready" /\ proc.op = "rollback" /\ Settled /\ last # NoJournal /\ active # NoRelease
      /\ Generation[active.manifest] = 0 /\ active = last.next
      /\ journal' = [last EXCEPT !.state = "reverting", !.generation = journal.generation + 1]
      /\ proc' = [proc EXCEPT !.at = "restore", !.todo = Entries(journal')]
      /\ Whole(active) /\ Real(active) /\ NotOlder(active.manifest)
      /\ UNCHANGED <<live, stage, backup, active, good, mark, game, installs, answer>>
  BY DEF Rollback, IInv, ControlHolds, FilesHold, JournalHolds, MarkHolds
<1>2. /\ last \in Journal /\ GoodSlot(last) /\ \A n \in Nat : Below(n) => Earlier(last, n)
  <2>1. PICK k \in 0 .. 1 : last = good[k]
    BY LastIsASlot
  <2>2. good[k] \in Journal
    BY DEF IInv, TypeOK
  <2> QED BY <1>1, <2>1, <2>2 DEF IInv, SlotsHold, Below
<1>3. proc \in Process /\ MovesTo(proc, proc', "restore", Entries(journal'))
  BY <1>1, ProcessMoves, EntriesArePaths DEF IInv, TypeOK, Places
<1>4. /\ game = NoManifest /\ halfway' = halfway /\ proc' # Idle /\ halfway \in BOOLEAN /\ proc # Idle
  BY <1>1, <1>3, AtWork DEF MovesTo
<1>5. /\ journal' \in Journal /\ journal'.state = "reverting" /\ journal'.previous = last.previous
      /\ journal'.next = active /\ journal'.backup = last.backup /\ ~Settled'
  <2>1. journal.generation + 1 \in Nat
    BY DEF IInv, TypeOK, Journal
  <2> HIDE DEF last
  <2> QED BY <1>1, <1>2, <2>1 DEF Journal, Settled
<1> HIDE DEF last
<1>6. mark = NoManifest
  <2>1. \A m \in Manifests : Generation[m] \in Nat
    BY ReleaseAssumption
  <2>2. mark \in Manifests \cup {NoManifest} /\ (mark # NoManifest => Generation[mark] > 0)
    BY DEF IInv, TypeOK, MarkHolds
  <2> QED BY <1>1, <2>1, <2>2 DEF NotOlder
<1>7. JournalHolds'
  <2>1. active.manifest \in Manifests
    BY <1>1 DEF Real
  <2> QED BY <1>1, <1>2, <1>5, <1>6, <2>1 DEF JournalHolds, GoodSlot, Saved, NotOlder, Real
<1>8. FilesHold'
  <2>1. ASSUME NEW p \in Paths \ Entries(journal')
        PROVE  Fits(journal.next, p)' /\ Fits(journal.previous, p)'
    <3>1. Fits(active, p) /\ p \notin Installed(active) \cup Installed(last.previous)
      BY <1>1, <1>5 DEF Whole, Fits, Entries
    <3>2. Fits(last.previous, p)
      BY <3>1, FitsBoth
    <3> QED BY <1>1, <1>4, <1>5, <3>1, <3>2 DEF Fits
  <2> QED BY <1>3, <1>5, <2>1 DEF FilesHold, MovesTo, Entries
<1>9. TypeOK' /\ ControlHolds' /\ StageHolds' /\ MarkHolds'
  <2>1. TypeOK'
    BY PlayedTyped, <1>1, <1>3, <1>4, <1>5 DEF IInv, TypeOK, MovesTo
  <2> QED BY <1>1, <1>3, <1>4, <1>5, <1>6, <2>1 DEF IInv, ControlHolds, StageHolds, MarkHolds, MovesTo
<1>10. SlotsHold' /\ IdsHold'
  <2>1. SlotsHold' /\ (Uncommitted' => Uncommitted)
    BY <1>1, <1>3, SlotsKept DEF IInv, Uncommitted, MovesTo
  <2>2. ASSUME NEW n \in Nat, Below(n) PROVE Below(n)'
    BY <1>1, <1>2, <1>5, <2>2 DEF Below, Earlier
  <2>3. installs + 1 \in Nat /\ (Uncommitted => stage.release.id \in Nat)
    BY ReleaseAssumption DEF IInv, TypeOK, IdsHold
  <2>4. Below(installs + 1)'
    BY <1>1, <2>2, <2>3 DEF IInv, IdsHold, Below, Earlier
  <2> QED BY <1>1, <2>1, <2>2, <2>3, <2>4 DEF IInv, IdsHold
<1> QED BY <1>7, <1>8, <1>9, <1>10 DEF IInv

----------------------------------------------------------------------------
(* The invariant holds in every state. *)

(* Before anything is installed.                                           *)
LEMMA InitIInv == Init => IInv
<1> SUFFICES ASSUME Init PROVE IInv
  OBVIOUS
<1>1. NoRelease \in Release /\ NoJournal \in Journal /\ MaxInstalls \in Nat
  BY ReleaseAssumption DEF NoRelease, NoJournal, Release, Journal
<1>2. TypeOK
  <2>1. live \in [Paths -> Contents] /\ backup \in [1 .. MaxInstalls -> [Paths -> Contents]]
    BY DEF Init, Contents
  <2>2. stage \in [release : Release, files : SUBSET Paths, fresh : BOOLEAN]
    BY <1>1 DEF Init, Nothing
  <2>3. active \in Release /\ journal \in Journal /\ good \in [0 .. 1 -> Journal] /\ proc \in Process
    BY <1>1, IdleProcess DEF Init
  <2>4. mark = NoManifest /\ game = NoManifest /\ installs \in 0 .. MaxInstalls
    BY <1>1 DEF Init, NoRelease
  <2> QED BY <2>1, <2>2, <2>3, <2>4 DEF Init, TypeOK
<1>3. ControlHolds /\ StageHolds /\ MarkHolds /\ Settled
  BY DEF Init, ControlHolds, StageHolds, MarkHolds, NotOlder, Idle, Settled, NoJournal, NoRelease
<1>4. JournalHolds /\ SlotsHold
  BY <1>3 DEF Init, JournalHolds, SlotsHold, Real, NoJournal
<1>5. FilesHold
  BY <1>3 DEF Init, FilesHold, Whole, Expected, NoRelease, Idle, Settled
<1>6. IdsHold
  <2>1. ~Uncommitted
    BY DEF Init, Uncommitted, Nothing, Idle
  <2> QED BY <2>1 DEF Init, IdsHold, Below, Earlier, NoJournal, NoRelease
<1> QED BY <1>2, <1>3, <1>4, <1>5, <1>6 DEF IInv

(* Every step, that of the player and of the process that dies included.   *)
LEMMA NextIInv == IInv /\ [Next]_vars => IInv'
<1> SUFFICES ASSUME IInv, [Next]_vars PROVE IInv'
  OBVIOUS
<1>1. CASE UNCHANGED vars
  <2>1. UNCHANGED <<live, stage, backup, active, journal, good, mark, proc, game, installs, answer,
                    halfway, played>>
    BY <1>1 DEF vars
  <2>2. TypeOK' /\ ControlHolds' /\ StageHolds' /\ MarkHolds'
    <3>1. TypeOK'
      BY <2>1 DEF IInv, TypeOK
    <3> QED BY <2>1, <3>1 DEF IInv, ControlHolds, StageHolds, MarkHolds, Settled, Saved, NotOlder
  <2>3. JournalHolds' /\ SlotsHold' /\ IdsHold'
    BY <2>1, JournalKept, SlotsKept, IdsKept DEF IInv, Uncommitted
  <2>4. FilesHold'
    BY <2>1 DEF IInv, FilesHold, Whole, Fits, Settled, Entries, Published
  <2> QED BY <2>2, <2>3, <2>4 DEF IInv
<1>2. CASE Next
  <2>1. Halfway
    BY <1>2 DEF Next, Halfway
  <2>2. CASE Recover \/ Repoint \/ KeepCheckpoint \/ Settle \/ Accept
    BY <2>1, <2>2, RecoverPreserves, RepointPreserves, KeepCheckpointPreserves, SettlePreserves,
       AcceptPreserves
  <2>3. CASE Commit \/ WriteAhead \/ Publish \/ Rollback
    BY <2>1, <2>3, CommitPreserves, WriteAheadPreserves, PublishPreserves, RollbackPreserves
  <2>4. CASE \E p \in Paths : Restore(p) \/ SwitchFile(p) \/ Player(p)
    BY <2>1, <2>4, RestorePreserves, SwitchFilePreserves, PlayerPreserves
  <2>5. CASE Fails \/ Dies
    BY <2>1, <2>5, FailsPreserve
  <2>6. CASE GameEnds \/ \E m \in Manifests : Launch(m)
    BY <2>1, <2>6, GamesPreserve
  <2>7. CASE \E m \in Manifests : Prepare(m)
    BY <2>1, <2>7, PreparePreserves
  <2>8. CASE \E op \in {"recover", "commit", "rollback"} : Locks(op)
    BY <2>1, <2>8, LocksPreserve
  <2> QED BY <1>2, <2>2, <2>3, <2>4, <2>5, <2>6, <2>7, <2>8 DEF Next, Steps
<1> QED BY <1>1, <1>2

(* What is known of journal, files, backups and ids in every state.        *)
THEOREM Invariance == Spec => []IInv
BY InitIInv, NextIInv, PTL DEF Spec

(* Files, journal and process are of the shapes the code gives them.       *)
THEOREM TypeCorrect == Spec => []TypeOK
<1>1. IInv => TypeOK
  BY DEF IInv
<1> QED BY Invariance, <1>1, PTL

(* Whatever dies or fails between two writes, and whatever the player does *)
(* meanwhile, once the journal is settled the files are those of one       *)
(* release.                                                                *)
THEOREM ReleasesWhole == Spec => []ReleasesAreWhole
<1>1. IInv => ReleasesAreWhole
  BY DEF IInv, FilesHold, ReleasesAreWhole
<1> QED BY Invariance, <1>1, PTL

(* While a game runs nobody switches the release under it, nor repairs it: *)
(* the lock it shares keeps every installation, recovery and rollback out. *)
THEOREM GamesKept == Spec => []GamesKeepTheirRelease
<1>1. IInv => GamesKeepTheirRelease
  BY DEF IInv, ControlHolds, FilesHold, GamesKeepTheirRelease
<1> QED BY Invariance, <1>1, PTL

(* The checkpoint a rollback goes by is of another release, and its files  *)
(* are in the backup as they were signed.                                  *)
THEOREM CheckpointsGood == Spec => []CheckpointsAreGood
<1>1. IInv => CheckpointsAreGood
  <2> SUFFICES ASSUME IInv, LastKnownGood # NoJournal
               PROVE  /\ LastKnownGood.previous.manifest \notin {NoManifest, LastKnownGood.next.manifest}
                      /\ \A p \in Paths : backup[LastKnownGood.backup][p] = Expected(LastKnownGood.previous, p)
    BY DEF CheckpointsAreGood
  <2>1. PICK k \in 0 .. 1 : LastKnownGood = good[k]
    BY LastIsASlot
  <2>2. GoodSlot(LastKnownGood)
    BY <2>1 DEF IInv, SlotsHold
  <2> QED BY <2>2, ReleaseAssumption DEF GoodSlot
<1> QED BY Invariance, <1>1, PTL

(* No settled installation is of an older generation than one that was     *)
(* accepted, whether by an installation, a recovery or a rollback.         *)
THEOREM NeverOlder == Spec => []NoOlderGeneration
<1>1. IInv => NoOlderGeneration
  BY DEF IInv, MarkHolds, NotOlder, NoOlderGeneration
<1> QED BY Invariance, <1>1, PTL

----------------------------------------------------------------------------
(* The journal of downloads                                                *)
(*                                                                         *)
(* What is read is the job that was written last, because whoever is alone *)
(* at the files writes the generation after the one that is read, over the *)
(* other file: a file that is removed is never the last one (TurnsTaken).  *)
(* Where several meet, only a file whose successor is on its way is ever   *)
(* gone, unless somebody has asked to erase it (NothingLost).              *)

(* Files and those who write them are of jobs that were started.           *)
BegunHolds ==
  /\ \A i \in Slots : slot[i] # Empty => slot[i].job \in begun
  /\ task.at # "idle" => task.saved # Empty /\ task.saved.job \in begun
  /\ \A p \in Presses : press[p].at # "none" =>
       press[p].saved # Empty /\ press[p].saved.job \in begun
  /\ current # NoJob => current \in begun

(* Nobody erases the files but for a job that is over.                     *)
ErasersAsked ==
  /\ directive = "cancel" \/ task.at \in Erasing => over # {}
  /\ \A p \in Presses : press[p].at \in Erasing => press[p].saved.job \in over

(* Whoever has removed a file is about to put another there.               *)
Renaming(i) ==
  \/ task.at = "rename" /\ SlotOf(task.saved) = i
  \/ \E p \in Presses : press[p].at = "rename" /\ SlotOf(press[p].saved) = i
NothingLost == over = {} /\ faults = 0 /\ current # NoJob =>
  \E i \in Slots : slot[i] # Empty \/ Renaming(i)

(* Who is alone at the files writes the generation after the last one, of  *)
(* the same job unless the task installs it next, and over the older file; *)
(* or erases them for a job that is over.                                  *)
Follows(saved) == saved.generation = Read.generation + 1
TargetEmpty(saved) == slot[SlotOf(saved)] = Empty
OneAtTheFiles == \A a, b \in AtTheFiles : a = b
TaskInTurn ==
  /\ task.at \in Writing =>
       /\ Follows(task.saved)
       /\ IF task.next = "idle" THEN task.saved.job = Read.job ELSE directive # "cancel"
  /\ task.at = "rename" => TargetEmpty(task.saved)
  /\ task.at = "installing" => /\ current = task.saved.job
                               /\ directive = "cancel" => current \in over
  /\ task.at \in Erasing => current \in over
PressInTurn(p) ==
  /\ press[p].at \in Writing =>
       Follows(press[p].saved) /\ press[p].saved.job = Read.job
  /\ press[p].at = "rename" => TargetEmpty(press[p].saved)
  /\ press[p].at \in Erasing => current \in over \cup {NoJob}
TurnsTaken == ~overlapped =>
  OneAtTheFiles /\ TaskInTurn /\ (\A p \in Presses : PressInTurn(p)) /\ JobSurvives

JournalInv == JournalTypeOK /\ BegunHolds /\ ErasersAsked /\ NothingLost /\ TurnsTaken
----------------------------------------------------------------------------
(* The two files *)

(* Generations that follow one another are of different files.             *)
LEMMA Parity ==
  \A n \in Nat : n % 2 \in {0, 1} /\ (n + 1) % 2 # n % 2
BY SMT

(* The empty file is no generation; a generation is of one of two files.   *)
LEMMA SavedFields ==
  ASSUME NEW x \in SavedJobs
  PROVE  /\ x.generation \in Nat \ {0} /\ x.job \in Jobs /\ x # Empty
         /\ SlotOf(x) \in Slots
<1>1. x.generation \in Nat \ {0} /\ x.job \in Jobs
  BY JournalAssumption DEF SavedJobs
<1>2. x.generation % 2 \in {0, 1}
  BY <1>1, Parity
<1> QED BY <1>1, <1>2 DEF Empty, SlotOf, Slots

(* What is read is the last generation there is, or nothing is there.      *)
LEMMA ReadIsLast ==
  ASSUME JournalTypeOK
  PROVE  /\ Read \in SavedJobs \cup {Empty}
         /\ Read.generation \in Nat
         /\ Read = Empty => \A i \in Slots : slot[i] = Empty
         /\ Read # Empty =>
              \E i \in Slots : slot[i] = Read /\ SlotOf(Read) = i
<1>1. /\ slot[0] \in SavedJobs \cup {Empty} /\ slot[1] \in SavedJobs \cup {Empty}
      /\ slot[0] # Empty => SlotOf(slot[0]) = 0
      /\ slot[1] # Empty => SlotOf(slot[1]) = 1
  BY DEF JournalTypeOK, Slots
<1>2. Empty.generation = 0
  BY DEF Empty
<1>3. \A x \in SavedJobs : x.generation \in Nat \ {0}
  BY SavedFields
<1> QED BY <1>1, <1>2, <1>3 DEF Read, Slots

(* Removing the older file leaves the last generation.                     *)
LEMMA RemovingKeepsTheLast ==
  ASSUME JournalTypeOK, NEW x \in SavedJobs,
         Follows(x), RemoveTarget(x)
  PROVE  Read' = Read
<1>1. /\ slot[0] \in SavedJobs \cup {Empty} /\ slot[1] \in SavedJobs \cup {Empty}
      /\ slot[0] # Empty => slot[0].generation % 2 = 0
      /\ slot[1] # Empty => slot[1].generation % 2 = 1
      /\ \A y \in SavedJobs : y.generation \in Nat \ {0}
      /\ Empty.generation = 0 /\ x.generation % 2 \in {0, 1}
  BY SavedFields, Parity DEF JournalTypeOK, Slots, SlotOf, Empty
<1>2. x.generation = Read.generation + 1 /\ Read.generation \in Nat
  BY ReadIsLast DEF Follows
<1>3. x.generation % 2 # Read.generation % 2
  BY <1>2, Parity
<1>4. CASE x.generation % 2 = 0
  <2>1. slot'[0] = Empty /\ slot'[1] = slot[1]
    BY <1>4 DEF RemoveTarget, SlotOf, JournalTypeOK, Slots
  <2>2. slot[0] = Empty \/ Read # slot[0]
    BY <1>1, <1>3, <1>4
  <2> QED BY <1>1, <2>1, <2>2 DEF Read
<1>5. CASE x.generation % 2 = 1
  <2>1. slot'[1] = Empty /\ slot'[0] = slot[0]
    BY <1>5 DEF RemoveTarget, SlotOf, JournalTypeOK, Slots
  <2>2. slot[1] = Empty \/ Read # slot[1]
    BY <1>1, <1>3, <1>5
  <2> QED BY <1>1, <2>1, <2>2 DEF Read
<1> QED BY <1>1, <1>4, <1>5

(* The next generation is the last once it has its name.                   *)
LEMMA RenamingMakesTheLast ==
  ASSUME JournalTypeOK, NEW x \in SavedJobs,
         Follows(x), RenameTo(x)
  PROVE  Read' = x
<1>1. x.generation = Read.generation + 1 /\ Read.generation \in Nat
  BY ReadIsLast DEF Follows
<1>2. /\ slot[0] \in SavedJobs \cup {Empty} /\ slot[1] \in SavedJobs \cup {Empty}
      /\ \A y \in SavedJobs : y.generation \in Nat \ {0}
      /\ Empty.generation = 0 /\ x.generation % 2 \in {0, 1}
  BY SavedFields, Parity DEF JournalTypeOK, Slots, Empty
<1>3. slot[0].generation < x.generation /\ slot[1].generation < x.generation
  BY <1>1, <1>2 DEF Read
<1>4. \/ slot'[0] = x /\ slot'[1] = slot[1]
      \/ slot'[1] = x /\ slot'[0] = slot[0]
  BY <1>2 DEF RenameTo, SlotOf, JournalTypeOK, Slots
<1> QED BY <1>1, <1>2, <1>3, <1>4 DEF Read

(* Whatever file is written, it stays a file of its parity.                *)
LEMMA FilesStayFiles ==
  ASSUME JournalTypeOK,
         \/ slot' = slot
         \/ \E i \in Slots : slot' = [slot EXCEPT ![i] = Empty]
         \/ \E x \in SavedJobs : RemoveTarget(x) \/ RenameTo(x)
  PROVE  /\ slot' \in [Slots -> SavedJobs \cup {Empty}]
         /\ \A i \in Slots : slot'[i] # Empty => SlotOf(slot'[i]) = i
BY SavedFields DEF JournalTypeOK, RemoveTarget, RenameTo

----------------------------------------------------------------------------
(* The steps *)

(* Next remembers whether two are at the files.                            *)
Noticed == overlapped' = (overlapped \/ \E a, b \in AtTheFiles' : a # b)

(* While nobody has met another there, whoever is at the files, before a   *)
(* step or after it, is alone, and all have taken their turns until then.  *)
TaskAlone == task.at \notin {"idle", "installing"} =>
  \A p \in Presses : press[p].at \in {"none", "done"}
PressAlone(p) == press[p].at \notin {"none", "done"} =>
  /\ task.at \in {"idle", "installing"}
  /\ \A q \in Presses : press[q].at \notin {"none", "done"} => q = p

LEMMA Alone ==
  ASSUME JournalInv, Noticed, ~overlapped'
  PROVE  /\ TaskInTurn /\ (\A p \in Presses : PressInTurn(p)) /\ JobSurvives
         /\ TaskAlone /\ TaskAlone' /\ OneAtTheFiles'
         /\ \A p \in Presses : PressAlone(p) /\ PressAlone(p)'
<1>1. ~overlapped /\ OneAtTheFiles /\ OneAtTheFiles'
  BY DEF Noticed, JournalInv, TurnsTaken, OneAtTheFiles, JournalTypeOK
<1>2. TaskInTurn /\ (\A p \in Presses : PressInTurn(p)) /\ JobSurvives
  BY <1>1 DEF JournalInv, TurnsTaken
<1>3. "task" \notin Presses
  BY JournalAssumption
<1>4. TaskAlone /\ \A p \in Presses : PressAlone(p)
  BY <1>1, <1>3 DEF OneAtTheFiles, TaskAlone, PressAlone, AtTheFiles
<1>5. TaskAlone' /\ \A p \in Presses : PressAlone(p)'
  BY <1>1, <1>3 DEF OneAtTheFiles, TaskAlone, PressAlone, AtTheFiles
<1> QED BY <1>1, <1>2, <1>4, <1>5

(* What is written next is a file of the job that is to be in it.          *)
LEMMA RewrittenIsSaved ==
  ASSUME JournalTypeOK, Read.generation < MaxGeneration,
         NEW job \in Jobs, NEW status \in {"running", "paused", "pending"}
  PROVE  /\ Rewritten(job, status) \in SavedJobs
         /\ Rewritten(job, status) # Empty
         /\ Rewritten(job, status).job = job
         /\ Follows(Rewritten(job, status))
<1>1. Rewritten(job, status) \in SavedJobs
  BY ReadIsLast, JournalAssumption DEF Rewritten, SavedJobs
<1> QED BY <1>1, SavedFields DEF Rewritten, Follows

(* What is read is a job that was started.                                 *)
LEMMA ReadIsBegun ==
  ASSUME JournalInv, Read # Empty
  PROVE  Read \in SavedJobs /\ Read.job \in Jobs /\ Read.job \in begun
BY ReadIsLast, SavedFields DEF JournalInv, BegunHolds

(* start and resume: a new generation is on its way.                       *)
LEMMA BeginKeepsInv ==
  ASSUME JournalInv, Noticed,
         NEW j \in Jobs, Begin(j), j \in begun', begun \subseteq begun', begun' \subseteq Jobs
  PROVE  JournalInv'
<1> DEFINE new == Rewritten(j, "running")
<1>1. /\ task.at = "idle" /\ Read.generation < MaxGeneration
      /\ task' = [at |-> "remove", saved |-> new, next |-> "installing"]
      /\ directive' = "running"
      /\ UNCHANGED <<slot, press, current, over, kept, faults>>
  BY DEF Begin
<1>2. new \in SavedJobs /\ new # Empty /\ new.job = j /\ Follows(new)
  BY <1>1, RewrittenIsSaved DEF JournalInv
<1>3. Read' = Read
  BY <1>1 DEF Read
<1>4. JournalTypeOK'
  BY <1>1, <1>2 DEF JournalInv, JournalTypeOK, Writing, Noticed
<1>5. BegunHolds'
  BY <1>1, <1>2 DEF JournalInv, BegunHolds
<1>6. ErasersAsked'
  BY <1>1 DEF JournalInv, ErasersAsked, Erasing
<1>7. NothingLost'
  BY <1>1 DEF JournalInv, NothingLost, Renaming
<1>8. TurnsTaken'
  <2> SUFFICES ASSUME ~overlapped'
               PROVE  OneAtTheFiles' /\ TaskInTurn' /\ (\A p \in Presses : PressInTurn(p)') /\ JobSurvives'
    BY DEF TurnsTaken
  <2>1. OneAtTheFiles' /\ JobSurvives /\ TaskAlone'
    BY Alone
  <2>2. TaskInTurn'
    BY <1>1, <1>2, <1>3 DEF TaskInTurn, Follows, Erasing
  <2>3. \A p \in Presses : PressInTurn(p)'
    BY <1>1, <2>1 DEF TaskAlone, PressInTurn, Erasing, Writing
  <2>4. JobSurvives'
    BY <1>1, <1>3, <2>1 DEF JobSurvives, Noticed
  <2> QED BY <2>1, <2>2, <2>3, <2>4
<1> QED BY <1>4, <1>5, <1>6, <1>7, <1>8 DEF JournalInv

(* The task removes the older file.                                        *)
LEMMA TaskRemovesKeepsInv ==
  ASSUME JournalInv, Noticed, TaskRemoves
  PROVE  JournalInv'
<1>1. /\ task.at = "remove" /\ RemoveTarget(task.saved)
      /\ task' = [task EXCEPT !.at = "rename"]
      /\ UNCHANGED <<directive, press, begun, current, over, kept, faults>>
  BY DEF TaskRemoves, Moves, histories
<1>2. task.saved \in SavedJobs /\ task'.at = "rename" /\ task'.saved = task.saved /\ task'.next = task.next
  BY <1>1 DEF JournalInv, BegunHolds, JournalTypeOK
<1>3. /\ slot' \in [Slots -> SavedJobs \cup {Empty}]
      /\ \A i \in Slots : slot'[i] # Empty => SlotOf(slot'[i]) = i
      /\ SlotOf(task.saved) \in Slots
  BY <1>1, <1>2, FilesStayFiles, SavedFields DEF JournalInv
<1>4. JournalTypeOK'
  BY <1>1, <1>3 DEF JournalInv, JournalTypeOK, Writing, Noticed
<1>5. BegunHolds'
  BY <1>1, <1>2 DEF JournalInv, BegunHolds, RemoveTarget, JournalTypeOK
<1>6. ErasersAsked'
  BY <1>1, <1>2 DEF JournalInv, ErasersAsked, Erasing
<1>7. NothingLost'
  BY <1>2, <1>3 DEF NothingLost, Renaming, SlotOf
<1>8. TurnsTaken'
  <2> SUFFICES ASSUME ~overlapped'
               PROVE  OneAtTheFiles' /\ TaskInTurn' /\ (\A p \in Presses : PressInTurn(p)') /\ JobSurvives'
    BY DEF TurnsTaken
  <2>1. OneAtTheFiles' /\ JobSurvives /\ TaskAlone' /\ TaskInTurn
    BY Alone
  <2>2. /\ Follows(task.saved)
        /\ IF task.next = "idle" THEN task.saved.job = Read.job ELSE directive' # "cancel"
    BY <1>1, <2>1 DEF TaskInTurn, Writing
  <2>3. Read' = Read
    BY <1>1, <1>2, <2>2, RemovingKeepsTheLast DEF JournalInv
  <2>4. slot'[SlotOf(task.saved)] = Empty
    BY <1>1, <1>3 DEF RemoveTarget, JournalInv, JournalTypeOK
  <2>5. TaskInTurn'
    BY <1>2, <2>2, <2>3, <2>4 DEF TaskInTurn, Follows, TargetEmpty, Erasing, SlotOf
  <2>6. \A p \in Presses : PressInTurn(p)'
    BY <1>1, <1>2, <2>1 DEF TaskAlone, PressInTurn, Erasing, Writing
  <2>7. JobSurvives'
    BY <1>1, <2>1, <2>3 DEF JobSurvives, Noticed
  <2> QED BY <2>1, <2>5, <2>6, <2>7
<1> QED BY <1>4, <1>5, <1>6, <1>7, <1>8 DEF JournalInv

(* The task's new file gets its name: its job is the one to be installed.  *)
LEMMA TaskRenamesKeepsInv ==
  ASSUME JournalInv, Noticed, TaskRenames
  PROVE  JournalInv'
<1>1. /\ task.at = "rename" /\ RenameTo(task.saved)
      /\ task' = IF task.next = "idle" THEN NoTask ELSE [task EXCEPT !.at = task.next]
      /\ current' = IF task.next = "installing" THEN task.saved.job ELSE current
      /\ UNCHANGED <<directive, press, begun, over, kept, faults>>
  BY DEF TaskRenames
<1>2. /\ task.saved \in SavedJobs /\ task.saved.job \in begun
      /\ task.next \in {"idle", "installing"}
      /\ task.next = "idle" => task'.at = "idle"
      /\ task.next = "installing" => task'.at = "installing" /\ task'.saved = task.saved
  BY <1>1 DEF JournalInv, BegunHolds, JournalTypeOK, NoTask
<1>3. /\ slot' \in [Slots -> SavedJobs \cup {Empty}]
      /\ \A i \in Slots : slot'[i] # Empty => SlotOf(slot'[i]) = i
      /\ SlotOf(task.saved) \in Slots
      /\ task.saved # Empty /\ task.saved.job \in Jobs
  BY <1>1, <1>2, FilesStayFiles, SavedFields DEF JournalInv
<1>4. slot'[SlotOf(task.saved)] = task.saved
  BY <1>1, <1>3 DEF RenameTo, JournalInv, JournalTypeOK
<1>5. JournalTypeOK'
  BY <1>1, <1>2, <1>3 DEF JournalInv, JournalTypeOK, Writing, Noticed, NoTask
<1>6. BegunHolds'
  BY <1>1, <1>2, <1>3 DEF JournalInv, BegunHolds, RenameTo, JournalTypeOK
<1>7. ErasersAsked'
  BY <1>1, <1>2 DEF JournalInv, ErasersAsked, Erasing
<1>8. NothingLost'
  BY <1>3, <1>4 DEF NothingLost
<1>9. TurnsTaken'
  <2> SUFFICES ASSUME ~overlapped'
               PROVE  OneAtTheFiles' /\ TaskInTurn' /\ (\A p \in Presses : PressInTurn(p)') /\ JobSurvives'
    BY DEF TurnsTaken
  <2>1. OneAtTheFiles' /\ JobSurvives /\ TaskAlone /\ TaskInTurn
    BY Alone
  <2>2. Follows(task.saved) /\ (task.next = "idle" => task.saved.job = Read.job)
    BY <1>1, <2>1 DEF TaskInTurn, Writing
  <2>3. Read' = task.saved
    BY <1>1, <1>2, <2>2, RenamingMakesTheLast DEF JournalInv
  <2>4. \A p \in Presses : PressInTurn(p)' /\ press[p].at \in {"none", "done"}
    BY <1>1, <2>1 DEF TaskAlone, PressInTurn, Erasing, Writing
  <2>5. directive' = "cancel" /\ task'.at = "installing" => current' \in over'
    BY <1>1, <1>2, <2>1 DEF TaskInTurn, Writing
  <2>6. TaskInTurn'
    BY <1>1, <1>2, <2>5 DEF TaskInTurn, Writing, Erasing
  <2>7. JobSurvives'
    BY <1>1, <1>2, <2>1, <2>2, <2>3 DEF JobSurvives, Noticed
  <2> QED BY <2>1, <2>4, <2>6, <2>7
<1> QED BY <1>5, <1>6, <1>7, <1>8, <1>9 DEF JournalInv

(* The install returns: what it returns and what the user asked decide.    *)
LEMMA InstalledKeepsInv ==
  ASSUME JournalInv, Noticed,
         NEW outcome \in {"complete", "partial", "error"}, InstallReturns(outcome)
  PROVE  JournalInv'
<1>1. /\ task.at = "installing"
      /\ UNCHANGED <<slot, directive, press, begun, current, kept, faults>>
      /\ task.saved # Empty /\ task.saved.job \in begun
  BY DEF InstallReturns, JournalInv, BegunHolds
<1>2. \/ /\ directive = "cancel" /\ task' = [task EXCEPT !.at = "erase0"] /\ over' = over
      \/ /\ task' = [task EXCEPT !.at = "erase0"] /\ over' = over \cup {task.saved.job}
      \/ /\ task' \in {[task EXCEPT !.at = "readPaused"], [task EXCEPT !.at = "readPending"],
                       NoTask}
         /\ over' = over
  BY DEF InstallReturns, Moves
<1>3. over \subseteq over' /\ over' \subseteq begun
  BY <1>1, <1>2 DEF JournalInv, JournalTypeOK
<1>4. \/ task'.at = "erase0" /\ task'.saved = task.saved /\ over' # {}
      \/ task'.at \in {"readPaused", "readPending"} /\ task'.saved = task.saved
      \/ task'.at = "idle"
  BY <1>2 DEF JournalInv, ErasersAsked, JournalTypeOK, NoTask
<1>5. Read' = Read
  BY <1>1 DEF Read
<1>6. JournalTypeOK'
  BY <1>1, <1>2, <1>3 DEF JournalInv, JournalTypeOK, Erasing, Noticed, NoTask
<1>7. BegunHolds'
  BY <1>1, <1>4 DEF JournalInv, BegunHolds
<1>8. ErasersAsked'
  BY <1>1, <1>3, <1>4 DEF JournalInv, ErasersAsked, Erasing
<1>9. NothingLost'
  BY <1>1, <1>3, <1>4 DEF JournalInv, NothingLost, Renaming
<1>10. TurnsTaken'
  <2> SUFFICES ASSUME ~overlapped'
               PROVE  OneAtTheFiles' /\ TaskInTurn' /\ (\A p \in Presses : PressInTurn(p)') /\ JobSurvives'
    BY DEF TurnsTaken
  <2>1. /\ OneAtTheFiles' /\ JobSurvives /\ TaskInTurn /\ TaskAlone'
        /\ \A p \in Presses : PressInTurn(p)
    BY Alone
  <2>2. task'.at = "erase0" => current' \in over'
    BY <1>1, <1>2, <1>4, <2>1 DEF TaskInTurn, NoTask, JournalInv, JournalTypeOK
  <2>3. TaskInTurn'
    BY <1>4, <2>2 DEF TaskInTurn, Writing, Erasing
  <2>4. \A p \in Presses : PressInTurn(p)'
    BY <1>1, <1>3, <1>5, <2>1 DEF PressInTurn, Follows, TargetEmpty
  <2>5. JobSurvives'
    BY <1>1, <1>3, <1>5, <2>1 DEF JobSurvives, Noticed
  <2> QED BY <2>1, <2>3, <2>4, <2>5
<1> QED BY <1>6, <1>7, <1>8, <1>9, <1>10 DEF JournalInv

(* The task reads what there is, to write it back.                         *)
LEMMA TaskReadsKeepsInv ==
  ASSUME JournalInv, Noticed,
         NEW place \in {"readPaused", "readPending"}, NEW status \in {"paused", "pending"},
         TaskReads(place, status)
  PROVE  JournalInv'
<1> DEFINE new == Rewritten(Read.job, status)
<1>1. /\ task.at = place /\ Read.generation < MaxGeneration
      /\ task' = IF Read = Empty THEN NoTask
                 ELSE [at |-> "remove", saved |-> new, next |-> "idle"]
      /\ UNCHANGED <<slot, directive, press, begun, current, over, kept, faults>>
  BY DEF TaskReads, histories
<1>2. Read' = Read
  BY <1>1 DEF Read
<1>3. CASE Read = Empty
  <2>1. task' = NoTask /\ task'.at = "idle"
    BY <1>1, <1>3 DEF NoTask
  <2>2. JournalTypeOK'
    BY <1>1, <2>1 DEF JournalInv, JournalTypeOK, Noticed, NoTask
  <2>3. BegunHolds' /\ ErasersAsked' /\ NothingLost'
    BY <1>1, <2>1 DEF JournalInv, BegunHolds, ErasersAsked, NothingLost, Renaming, Erasing
  <2>4. TurnsTaken'
    BY <1>1, <1>2, <2>1, Alone
       DEF TurnsTaken, TaskInTurn, PressInTurn, Follows, TargetEmpty, JobSurvives, Noticed,
           Writing, Erasing
  <2> QED BY <2>2, <2>3, <2>4 DEF JournalInv
<1>4. CASE Read # Empty
  <2>1. /\ new \in SavedJobs /\ new # Empty /\ new.job = Read.job /\ Follows(new)
        /\ Read.job \in begun
    BY <1>1, <1>4, RewrittenIsSaved, ReadIsBegun DEF JournalInv
  <2>2. task' = [at |-> "remove", saved |-> new, next |-> "idle"]
    BY <1>1, <1>4
  <2>3. JournalTypeOK'
    BY <1>1, <2>1, <2>2 DEF JournalInv, JournalTypeOK, Writing, Noticed
  <2>4. BegunHolds' /\ ErasersAsked' /\ NothingLost'
    BY <1>1, <2>1, <2>2 DEF JournalInv, BegunHolds, ErasersAsked, NothingLost, Renaming, Erasing
  <2>5. TaskInTurn'
    BY <1>2, <2>1, <2>2 DEF TaskInTurn, Follows, Erasing
  <2>6. TurnsTaken'
    BY <1>1, <1>2, <2>5, Alone
       DEF TurnsTaken, PressInTurn, Follows, TargetEmpty, JobSurvives, Noticed
  <2> QED BY <2>3, <2>4, <2>6 DEF JournalInv
<1> QED BY <1>3, <1>4

(* The task erases the journal: of a job that is over.                     *)
LEMMA TaskErasesKeepsInv ==
  ASSUME JournalInv, Noticed, TaskErases
  PROVE  JournalInv'
<1>1. /\ task.at \in Erasing
      /\ \E i \in Slots : slot' = [slot EXCEPT ![i] = Empty]
      /\ \/ task' = [task EXCEPT !.at = "erase1"]
         \/ task' = NoTask
      /\ UNCHANGED <<directive, press, begun, current, over, kept, faults>>
  BY DEF TaskErases, Moves, histories, Erasing, Slots
<1>2. \/ task'.at = "erase1" /\ task'.saved = task.saved
      \/ task'.at = "idle"
  BY <1>1 DEF JournalInv, JournalTypeOK, NoTask
<1>3. /\ slot' \in [Slots -> SavedJobs \cup {Empty}]
      /\ \A i \in Slots : slot'[i] # Empty => SlotOf(slot'[i]) = i
      /\ \A i \in Slots : slot'[i] \in {slot[i], Empty}
  BY <1>1, FilesStayFiles DEF JournalInv, JournalTypeOK
<1>4. task.saved # Empty /\ task.saved.job \in begun /\ over # {}
  BY <1>1 DEF JournalInv, BegunHolds, ErasersAsked, Erasing
<1>5. JournalTypeOK'
  BY <1>1, <1>3 DEF JournalInv, JournalTypeOK, Erasing, Noticed, NoTask
<1>6. BegunHolds'
  BY <1>1, <1>2, <1>3, <1>4 DEF JournalInv, BegunHolds
<1>7. ErasersAsked' /\ NothingLost'
  BY <1>1, <1>2, <1>4 DEF JournalInv, ErasersAsked, NothingLost, Erasing
<1>8. TurnsTaken'
  <2> SUFFICES ASSUME ~overlapped'
               PROVE  OneAtTheFiles' /\ TaskInTurn' /\ (\A p \in Presses : PressInTurn(p)') /\ JobSurvives'
    BY DEF TurnsTaken
  <2>1. OneAtTheFiles' /\ TaskInTurn /\ TaskAlone
    BY Alone
  <2>2. current' \in over'
    BY <1>1, <2>1 DEF TaskInTurn
  <2>3. TaskInTurn'
    BY <1>2, <2>2 DEF TaskInTurn, Writing, Erasing
  <2>4. \A p \in Presses : PressInTurn(p)'
    BY <1>1, <2>1 DEF TaskAlone, PressInTurn, Erasing, Writing
  <2> QED BY <2>1, <2>2, <2>3, <2>4 DEF JobSurvives
<1> QED BY <1>5, <1>6, <1>7, <1>8 DEF JournalInv

(* The disk fails the task, or the process dies: the files stay.           *)
LEMMA StoppingKeepsInv ==
  ASSUME JournalInv, Noticed, TaskFails \/ Crash
  PROVE  JournalInv'
<1>1. /\ task' = NoTask /\ task'.at = "idle" /\ directive' \in {directive, "running"}
      /\ faults < MaxFaults /\ faults' = faults + 1
      /\ UNCHANGED <<slot, begun, current, over, kept>>
  BY DEF TaskFails, Crash, histories, NoTask
<1>2. \/ press' = press
      \/ press' = [p \in Presses |-> IF press[p].at = "none" THEN NoPress
                                     ELSE [press[p] EXCEPT !.at = "done"]]
  BY DEF TaskFails, Crash
<1>3. \A p \in Presses : \/ press'[p] = press[p]
                         \/ press'[p].at = "none"
                         \/ press'[p].at = "done" /\ press'[p].saved = press[p].saved /\ press[p].at # "none"
  BY <1>2 DEF JournalInv, JournalTypeOK, NoPress, Calls
<1>4. Read' = Read
  BY <1>1 DEF Read
<1>5. press' \in [Presses -> Calls]
  BY <1>2 DEF JournalInv, JournalTypeOK, NoPress, Calls
<1>6. JournalTypeOK'
  BY <1>1, <1>5, JournalAssumption DEF JournalInv, JournalTypeOK, Noticed, NoTask
<1>7. BegunHolds'
  BY <1>1, <1>3 DEF JournalInv, BegunHolds
<1>8. ErasersAsked'
  BY <1>1, <1>3 DEF JournalInv, ErasersAsked, Erasing
<1>9. NothingLost'
  BY <1>1, JournalAssumption DEF JournalInv, NothingLost, JournalTypeOK
<1>10. TurnsTaken'
  <2> SUFFICES ASSUME ~overlapped'
               PROVE  OneAtTheFiles' /\ TaskInTurn' /\ (\A p \in Presses : PressInTurn(p)') /\ JobSurvives'
    BY DEF TurnsTaken
  <2>1. OneAtTheFiles' /\ JobSurvives /\ \A p \in Presses : PressInTurn(p)
    BY Alone
  <2>2. TaskInTurn'
    BY <1>1 DEF TaskInTurn, Writing, Erasing
  <2>3. \A p \in Presses : PressInTurn(p)'
    BY <1>1, <1>3, <1>4, <2>1 DEF PressInTurn, Follows, TargetEmpty, Writing, Erasing
  <2>4. JobSurvives'
    BY <1>1, <1>4, <2>1 DEF JobSurvives, Noticed
  <2> QED BY <2>1, <2>2, <2>3, <2>4
<1> QED BY <1>6, <1>7, <1>8, <1>9, <1>10 DEF JournalInv

(* While a press is at the files, the task is not, and no other press is.  *)
LEMMA PressTurn ==
  ASSUME JournalInv, Noticed, ~overlapped', NEW p \in Presses,
         press[p].at \notin {"none", "done"} \/ press'[p].at \notin {"none", "done"},
         \A q \in Presses \ {p} : press'[q] = press[q], task' = task
  PROVE  /\ TaskInTurn /\ PressInTurn(p) /\ JobSurvives /\ OneAtTheFiles'
         /\ task'.at \in {"idle", "installing"}
         /\ \A q \in Presses \ {p} : press'[q].at \in {"none", "done"}
<1>1. /\ TaskInTurn /\ PressInTurn(p) /\ JobSurvives /\ OneAtTheFiles'
      /\ PressAlone(p) /\ PressAlone(p)'
  BY Alone
<1> QED BY <1>1 DEF PressAlone

(* Where a press goes, what it has asked and the others are as they were.  *)
LEMMA PressMoved ==
  ASSUME JournalTypeOK, NEW p \in Presses, NEW place, PressMoves(p, place)
  PROVE  /\ press'[p].at = place /\ press'[p].saved = press[p].saved
         /\ press'[p].action = press[p].action
         /\ \A q \in Presses \ {p} : press'[q] = press[q]
BY DEF JournalTypeOK, PressMoves

(* control is called: the task is told, the files are yet to come.         *)
LEMMA PressKeepsInv ==
  ASSUME JournalInv, Noticed,
         NEW p \in Presses, NEW action \in Actions, Press(p, action)
  PROVE  JournalInv'
<1> DEFINE new == [at |-> IF action = "cancel" THEN "erase0" ELSE "read",
                   action |-> action, saved |-> Read]
<1>1. /\ press[p].at = "none" /\ Read # Empty
      /\ directive' = IF task.at = "idle" THEN directive ELSE action
      /\ press' = [press EXCEPT ![p] = new]
      /\ over' = IF action = "cancel" THEN over \cup {Read.job} ELSE over
      /\ UNCHANGED <<slot, task, begun, current, kept, faults>>
  BY DEF Press
<1>2. /\ press'[p].at = IF action = "cancel" THEN "erase0" ELSE "read"
      /\ press'[p].saved = Read
      /\ \A q \in Presses \ {p} : press'[q] = press[q]
  BY <1>1 DEF JournalInv, JournalTypeOK
<1>3. Read \in SavedJobs /\ Read.job \in begun /\ over \subseteq over'
  BY <1>1, ReadIsBegun
<1>4. Read' = Read /\ action \in {"pause", "cancel"}
  BY <1>1, JournalAssumption DEF Read
<1>5. JournalTypeOK'
  BY <1>1, <1>3, <1>4 DEF JournalInv, JournalTypeOK, Noticed, Erasing, Calls
<1>6. BegunHolds'
  BY <1>1, <1>2, <1>3 DEF JournalInv, BegunHolds
<1>7. ErasersAsked'
  BY <1>1, <1>2, <1>3 DEF JournalInv, ErasersAsked, Erasing
<1>8. NothingLost'
  BY <1>1, <1>2, <1>3 DEF JournalInv, NothingLost, Renaming
<1>9. TurnsTaken'
  <2> SUFFICES ASSUME ~overlapped'
               PROVE  OneAtTheFiles' /\ TaskInTurn' /\ (\A q \in Presses : PressInTurn(q)') /\ JobSurvives'
    BY DEF TurnsTaken
  <2>1. /\ TaskInTurn /\ JobSurvives /\ OneAtTheFiles'
        /\ task'.at \in {"idle", "installing"}
        /\ \A q \in Presses \ {p} : press'[q].at \in {"none", "done"}
    BY <1>1, <1>2, PressTurn
  <2>2. JobSurvives'
    BY <1>1, <1>3, <1>4, <2>1 DEF JobSurvives, Noticed
  <2>3. action = "cancel" => current' \in over' \cup {NoJob}
    BY <1>1, <1>3, <2>1 DEF JobSurvives, Noticed
  <2>4. TaskInTurn'
    <3>1. CASE task.at = "installing"
      <4>1. current = task.saved.job /\ (directive = "cancel" => current \in over) /\ current # NoJob
        BY <1>1, <2>1, <3>1, JournalAssumption DEF TaskInTurn, JournalInv, BegunHolds, JournalTypeOK
      <4> QED BY <1>1, <1>3, <2>3, <3>1, <4>1 DEF TaskInTurn, Writing, Erasing
    <3>2. CASE task.at = "idle"
      BY <1>1, <3>2 DEF TaskInTurn, Writing, Erasing
    <3> QED BY <1>1, <2>1, <3>1, <3>2
  <2>5. \A q \in Presses : PressInTurn(q)'
    BY <1>1, <1>2, <2>1, <2>3 DEF PressInTurn, Writing, Erasing
  <2> QED BY <2>1, <2>2, <2>4, <2>5
<1> QED BY <1>5, <1>6, <1>7, <1>8, <1>9 DEF JournalInv

(* A confirmed cancel erases the journal of a job that is over.            *)
LEMMA PressErasesKeepsInv ==
  ASSUME JournalInv, Noticed, NEW p \in Presses, PressErases(p)
  PROVE  JournalInv'
<1>1. /\ press[p].at \in Erasing
      /\ \E i \in Slots : slot' = [slot EXCEPT ![i] = Empty]
      /\ PressMoves(p, "erase1") \/ PressMoves(p, "done")
      /\ kept' \in {kept, kept \cup {press[p].saved.job}}
      /\ UNCHANGED <<task, directive, begun, current, over, faults>>
  BY DEF PressErases, Erasing, Slots
<1>2. /\ press'[p].at \in {"erase1", "done"} /\ press'[p].saved = press[p].saved
      /\ \A q \in Presses \ {p} : press'[q] = press[q]
  BY <1>1, PressMoved DEF JournalInv
<1>3. /\ slot' \in [Slots -> SavedJobs \cup {Empty}]
      /\ \A i \in Slots : slot'[i] # Empty => SlotOf(slot'[i]) = i
      /\ \A i \in Slots : slot'[i] \in {slot[i], Empty}
  BY <1>1, FilesStayFiles DEF JournalInv, JournalTypeOK
<1>4. press[p].saved.job \in over
  BY <1>1 DEF JournalInv, ErasersAsked
<1>5. press[p].saved # Empty /\ press[p].saved.job \in begun
  BY <1>1 DEF JournalInv, BegunHolds, Erasing
<1>6. press' \in [Presses -> Calls]
  BY <1>1 DEF JournalInv, JournalTypeOK, PressMoves, Erasing, Calls
<1>7. JournalTypeOK'
  BY <1>1, <1>3, <1>4, <1>6 DEF JournalInv, JournalTypeOK, Noticed
<1>8. BegunHolds'
  BY <1>1, <1>2, <1>3, <1>5 DEF JournalInv, BegunHolds
<1>9. ErasersAsked' /\ NothingLost'
  BY <1>1, <1>2, <1>4 DEF JournalInv, ErasersAsked, NothingLost, Erasing
<1>10. TurnsTaken'
  <2> SUFFICES ASSUME ~overlapped'
               PROVE  OneAtTheFiles' /\ TaskInTurn' /\ (\A q \in Presses : PressInTurn(q)') /\ JobSurvives'
    BY DEF TurnsTaken
  <2>1. /\ TaskInTurn /\ PressInTurn(p) /\ OneAtTheFiles'
        /\ task'.at \in {"idle", "installing"}
        /\ \A q \in Presses \ {p} : press'[q].at \in {"none", "done"}
    BY <1>1, <1>2, PressTurn DEF Erasing
  <2>2. current' \in over' \cup {NoJob}
    BY <1>1, <2>1 DEF PressInTurn
  <2>3. TaskInTurn'
    BY <1>1, <2>1 DEF TaskInTurn, Writing, Erasing
  <2>4. \A q \in Presses : PressInTurn(q)'
    BY <1>2, <2>1, <2>2 DEF PressInTurn, Erasing, Writing
  <2> QED BY <2>1, <2>2, <2>3, <2>4 DEF JobSurvives
<1> QED BY <1>7, <1>8, <1>9, <1>10 DEF JournalInv

(* A press of pause reads what there is, to write it back.                 *)
LEMMA PressReadsKeepsInv ==
  ASSUME JournalInv, Noticed, NEW p \in Presses, PressReads(p)
  PROVE  JournalInv'
<1> DEFINE new == Rewritten(Read.job, "paused")
<1>1. /\ press[p].at = "read" /\ Read.generation < MaxGeneration
      /\ press' = IF Read = Empty THEN [press EXCEPT ![p].at = "done"]
                  ELSE [press EXCEPT ![p].at = "remove", ![p].saved = new]
      /\ UNCHANGED <<slot, task, directive, begun, current, over, kept, faults>>
  BY DEF PressReads, histories
<1>2. Read # Empty =>
        /\ new \in SavedJobs /\ new # Empty /\ new.job = Read.job /\ Follows(new)
        /\ Read.job \in begun
  BY <1>1, RewrittenIsSaved, ReadIsBegun DEF JournalInv
<1>3. /\ \/ press'[p].at = "done" /\ press'[p].saved = press[p].saved
         \/ press'[p].at = "remove" /\ press'[p].saved = new /\ Read # Empty
      /\ \A q \in Presses \ {p} : press'[q] = press[q]
  BY <1>1 DEF JournalInv, JournalTypeOK
<1>4. Read' = Read
  BY <1>1 DEF Read
<1>5. press' \in [Presses -> Calls]
  <2>1. CASE Read = Empty
    <3>1. press' = [press EXCEPT ![p].at = "done"]
      BY <1>1, <2>1
    <3> QED BY <3>1 DEF JournalInv, JournalTypeOK, Calls
  <2>2. CASE Read # Empty
    <3>1. press' = [press EXCEPT ![p].at = "remove", ![p].saved = new] /\ new \in SavedJobs
      BY <1>1, <1>2, <2>2
    <3>2. press[p] \in Calls
      BY DEF JournalInv, JournalTypeOK
    <3>3. press' = [press EXCEPT ![p] = [press[p] EXCEPT !.at = "remove", !.saved = new]]
      BY <3>1 DEF JournalInv, JournalTypeOK
    <3> HIDE DEF new
    <3>4. [press[p] EXCEPT !.at = "remove", !.saved = new]
            \in Calls
      BY <3>1, <3>2 DEF Writing, Calls
    <3> QED BY <3>3, <3>4 DEF JournalInv, JournalTypeOK
  <2> QED BY <2>1, <2>2
<1>6. JournalTypeOK'
  BY <1>1, <1>5 DEF JournalInv, JournalTypeOK, Noticed
<1>a. press[p].at = "read" /\ UNCHANGED <<slot, task, directive, begun, current, over, kept, faults>>
  BY <1>1
<1>7. BegunHolds'
  BY <1>2, <1>3, <1>a DEF JournalInv, BegunHolds
<1>8. ErasersAsked' /\ NothingLost'
  BY <1>3, <1>a DEF JournalInv, ErasersAsked, NothingLost, Renaming, Erasing
<1>9. TurnsTaken'
  <2> SUFFICES ASSUME ~overlapped'
               PROVE  OneAtTheFiles' /\ TaskInTurn' /\ (\A q \in Presses : PressInTurn(q)') /\ JobSurvives'
    BY DEF TurnsTaken
  <2>1. /\ TaskInTurn /\ JobSurvives /\ OneAtTheFiles'
        /\ \A q \in Presses \ {p} : press'[q].at \in {"none", "done"}
    BY <1>1, <1>3, PressTurn
  <2>2. TaskInTurn'
    BY <1>1, <1>4, <2>1 DEF TaskInTurn, Follows, TargetEmpty
  <2>3. \A q \in Presses : PressInTurn(q)'
    BY <1>2, <1>3, <1>4, <2>1 DEF PressInTurn, Follows, Writing, Erasing
  <2>4. JobSurvives'
    BY <1>1, <1>4, <2>1 DEF JobSurvives, Noticed
  <2> QED BY <2>1, <2>2, <2>3, <2>4
<1> QED BY <1>6, <1>7, <1>8, <1>9 DEF JournalInv

(* A press removes the older file.                                         *)
LEMMA PressRemovesKeepsInv ==
  ASSUME JournalInv, Noticed, NEW p \in Presses, PressRemoves(p)
  PROVE  JournalInv'
<1>1. /\ press[p].at = "remove" /\ RemoveTarget(press[p].saved)
      /\ PressMoves(p, "rename")
      /\ UNCHANGED <<task, directive, begun, current, over, kept, faults>>
  BY DEF PressRemoves, histories
<1>2. /\ press'[p].at = "rename" /\ press'[p].saved = press[p].saved
      /\ \A q \in Presses \ {p} : press'[q] = press[q]
      /\ press[p].saved \in SavedJobs
  BY <1>1, PressMoved DEF JournalInv, BegunHolds, JournalTypeOK, Calls
<1>3. /\ slot' \in [Slots -> SavedJobs \cup {Empty}]
      /\ \A i \in Slots : slot'[i] # Empty => SlotOf(slot'[i]) = i
      /\ SlotOf(press[p].saved) \in Slots
  BY <1>1, <1>2, FilesStayFiles, SavedFields DEF JournalInv
<1>4. press' \in [Presses -> Calls]
  BY <1>1 DEF JournalInv, JournalTypeOK, PressMoves, Writing, Calls
<1>5. JournalTypeOK'
  BY <1>1, <1>3, <1>4 DEF JournalInv, JournalTypeOK, Noticed
<1>6. BegunHolds'
  BY <1>1, <1>2 DEF JournalInv, BegunHolds, RemoveTarget, JournalTypeOK
<1>7. ErasersAsked'
  BY <1>1, <1>2 DEF JournalInv, ErasersAsked, Erasing
<1>8. NothingLost'
  BY <1>2, <1>3 DEF NothingLost, Renaming, SlotOf
<1>9. TurnsTaken'
  <2> SUFFICES ASSUME ~overlapped'
               PROVE  OneAtTheFiles' /\ TaskInTurn' /\ (\A q \in Presses : PressInTurn(q)') /\ JobSurvives'
    BY DEF TurnsTaken
  <2>1. /\ TaskInTurn /\ PressInTurn(p) /\ JobSurvives /\ OneAtTheFiles'
        /\ task'.at \in {"idle", "installing"}
        /\ \A q \in Presses \ {p} : press'[q].at \in {"none", "done"}
    BY <1>1, <1>2, PressTurn
  <2>2. Follows(press[p].saved) /\ press[p].saved.job = Read.job
    BY <1>1, <2>1 DEF PressInTurn, Writing
  <2>3. Read' = Read
    BY <1>1, <1>2, <2>2, RemovingKeepsTheLast DEF JournalInv
  <2>4. slot'[SlotOf(press[p].saved)] = Empty
    BY <1>1, <1>3 DEF RemoveTarget, JournalInv, JournalTypeOK
  <2>5. TaskInTurn'
    BY <1>1, <2>1 DEF TaskInTurn, Writing, Erasing
  <2>6. \A q \in Presses : PressInTurn(q)'
    BY <1>2, <2>1, <2>2, <2>3, <2>4
       DEF PressInTurn, Follows, TargetEmpty, SlotOf, Writing, Erasing
  <2>7. JobSurvives'
    BY <1>1, <2>1, <2>3 DEF JobSurvives, Noticed
  <2> QED BY <2>1, <2>5, <2>6, <2>7
<1> QED BY <1>5, <1>6, <1>7, <1>8, <1>9 DEF JournalInv

(* The new file of a press gets its name.                                  *)
LEMMA PressRenamesKeepsInv ==
  ASSUME JournalInv, Noticed, NEW p \in Presses, PressRenames(p)
  PROVE  JournalInv'
<1>1. /\ press[p].at = "rename" /\ RenameTo(press[p].saved)
      /\ PressMoves(p, "done")
      /\ UNCHANGED <<task, directive, begun, current, over, kept, faults>>
  BY DEF PressRenames, histories
<1>2. /\ press'[p].at = "done" /\ press'[p].saved = press[p].saved
      /\ \A q \in Presses \ {p} : press'[q] = press[q]
      /\ press[p].saved \in SavedJobs /\ press[p].saved.job \in begun
  BY <1>1, PressMoved DEF JournalInv, BegunHolds, JournalTypeOK, Calls
<1>3. /\ slot' \in [Slots -> SavedJobs \cup {Empty}]
      /\ \A i \in Slots : slot'[i] # Empty => SlotOf(slot'[i]) = i
      /\ SlotOf(press[p].saved) \in Slots
      /\ press[p].saved # Empty
  BY <1>1, <1>2, FilesStayFiles, SavedFields DEF JournalInv
<1>4. slot'[SlotOf(press[p].saved)] = press[p].saved
  BY <1>1, <1>3 DEF RenameTo, JournalInv, JournalTypeOK
<1>5. press' \in [Presses -> Calls]
  BY <1>1 DEF JournalInv, JournalTypeOK, PressMoves, Calls
<1>6. JournalTypeOK'
  BY <1>1, <1>3, <1>5 DEF JournalInv, JournalTypeOK, Noticed
<1>7. BegunHolds'
  BY <1>1, <1>2, <1>3 DEF JournalInv, BegunHolds, RenameTo, JournalTypeOK
<1>8. ErasersAsked'
  BY <1>1, <1>2 DEF JournalInv, ErasersAsked, Erasing
<1>9. NothingLost'
  BY <1>3, <1>4 DEF NothingLost
<1>10. TurnsTaken'
  <2> SUFFICES ASSUME ~overlapped'
               PROVE  OneAtTheFiles' /\ TaskInTurn' /\ (\A q \in Presses : PressInTurn(q)') /\ JobSurvives'
    BY DEF TurnsTaken
  <2>1. /\ TaskInTurn /\ PressInTurn(p) /\ JobSurvives /\ OneAtTheFiles'
        /\ task'.at \in {"idle", "installing"}
        /\ \A q \in Presses \ {p} : press'[q].at \in {"none", "done"}
    BY <1>1, <1>2, PressTurn
  <2>2. Follows(press[p].saved) /\ press[p].saved.job = Read.job
    BY <1>1, <2>1 DEF PressInTurn, Writing
  <2>3. Read' = press[p].saved
    BY <1>1, <1>2, <2>2, RenamingMakesTheLast DEF JournalInv
  <2>4. TaskInTurn'
    BY <1>1, <2>1 DEF TaskInTurn, Writing, Erasing
  <2>5. \A q \in Presses : PressInTurn(q)'
    BY <1>2, <2>1 DEF PressInTurn, Writing, Erasing
  <2>6. JobSurvives'
    BY <1>1, <2>1, <2>2, <2>3 DEF JobSurvives, Noticed
  <2> QED BY <2>1, <2>4, <2>5, <2>6
<1> QED BY <1>6, <1>7, <1>8, <1>9, <1>10 DEF JournalInv

(* The disk fails a press.                                                 *)
LEMMA PressFailsKeepsInv ==
  ASSUME JournalInv, Noticed, NEW p \in Presses, PressFails(p)
  PROVE  JournalInv'
<1>1. /\ press[p].at \in Writing /\ PressMoves(p, "done")
      /\ faults < MaxFaults /\ faults' = faults + 1
      /\ UNCHANGED <<slot, task, directive, begun, current, over, kept>>
  BY DEF PressFails, histories, Writing
<1>2. /\ press'[p].at = "done" /\ press'[p].saved = press[p].saved
      /\ \A q \in Presses \ {p} : press'[q] = press[q]
  BY <1>1, PressMoved DEF JournalInv
<1>3. Read' = Read
  BY <1>1 DEF Read
<1>4. press' \in [Presses -> Calls]
  BY <1>1 DEF JournalInv, JournalTypeOK, PressMoves, Calls
<1>5. JournalTypeOK'
  BY <1>1, <1>4, JournalAssumption DEF JournalInv, JournalTypeOK, Noticed
<1>6. BegunHolds' /\ ErasersAsked'
  BY <1>1, <1>2 DEF JournalInv, BegunHolds, ErasersAsked, Writing, Erasing
<1>7. NothingLost'
  BY <1>1, JournalAssumption DEF JournalInv, NothingLost, JournalTypeOK
<1>8. TurnsTaken'
  <2> SUFFICES ASSUME ~overlapped'
               PROVE  OneAtTheFiles' /\ TaskInTurn' /\ (\A q \in Presses : PressInTurn(q)') /\ JobSurvives'
    BY DEF TurnsTaken
  <2>1. /\ TaskInTurn /\ JobSurvives /\ OneAtTheFiles'
        /\ \A q \in Presses \ {p} : press'[q].at \in {"none", "done"}
    BY <1>1, <1>2, PressTurn DEF Writing
  <2>2. TaskInTurn'
    BY <1>1, <1>3, <2>1 DEF TaskInTurn, Follows, TargetEmpty
  <2>3. \A q \in Presses : PressInTurn(q)'
    BY <1>2, <2>1 DEF PressInTurn, Writing, Erasing
  <2>4. JobSurvives'
    BY <1>1, <1>3, <2>1 DEF JobSurvives, Noticed
  <2> QED BY <2>1, <2>2, <2>3, <2>4
<1> QED BY <1>5, <1>6, <1>7, <1>8 DEF JournalInv

(* Nothing is there in the beginning.                                      *)
LEMMA JournalStarts ==
  ASSUME JournalInit
  PROVE  JournalInv
<1>1. /\ slot = [i \in Slots |-> Empty] /\ task.at = "idle" /\ directive = "running"
      /\ \A p \in Presses : press[p].at = "none"
      /\ current = NoJob /\ over = {}
  BY DEF JournalInit, NoTask, NoPress
<1>2. JournalTypeOK
  <2>1. slot \in [Slots -> SavedJobs \cup {Empty}]
    BY <1>1
  <2>2. press \in [Presses -> Calls]
    BY DEF JournalInit, NoPress, Calls
  <2>3. task \in [at : {"idle", "installing", "readPaused", "readPending"}
                        \cup Writing \cup Erasing,
                 saved : SavedJobs \cup {Empty}, next : {"idle", "installing"}]
    BY DEF JournalInit, NoTask
  <2>4. faults \in 0 .. MaxFaults /\ kept = {} /\ begun = {} /\ overlapped = FALSE
    BY JournalAssumption DEF JournalInit
  <2> QED BY <1>1, <2>1, <2>2, <2>3, <2>4 DEF JournalTypeOK
<1>3. BegunHolds /\ ErasersAsked /\ NothingLost
  BY <1>1 DEF BegunHolds, ErasersAsked, NothingLost, Erasing
<1>4. TurnsTaken
  BY <1>1 DEF TurnsTaken, OneAtTheFiles, AtTheFiles, TaskInTurn, PressInTurn, JobSurvives,
              Writing, Erasing
<1> QED BY <1>2, <1>3, <1>4 DEF JournalInv

(* Every step of the task, of a press and of a crash keeps it.             *)
LEMMA JournalSteps ==
  ASSUME JournalInv, [JournalNext]_journalVars
  PROVE  JournalInv'
<1>1. CASE UNCHANGED journalVars
  BY <1>1
     DEF journalVars, JournalInv, JournalTypeOK, BegunHolds, ErasersAsked, NothingLost, Renaming,
         TurnsTaken, OneAtTheFiles, AtTheFiles, TaskInTurn, PressInTurn, Follows, TargetEmpty,
         JobSurvives, Read
<1>2. CASE JournalNext
  <2>1. Noticed
    BY <1>2 DEF JournalNext, Noticed
  <2>2. ASSUME NEW j \in Jobs, Start(j) PROVE JournalInv'
    BY <2>1, <2>2, BeginKeepsInv DEF Start, JournalInv, JournalTypeOK
  <2>3. CASE Resume
    BY <2>1, <2>3, ReadIsBegun, BeginKeepsInv DEF Resume, JournalInv, JournalTypeOK
  <2>4. CASE Task
    BY <2>1, <2>4, TaskRemovesKeepsInv, TaskRenamesKeepsInv, TaskErasesKeepsInv, StoppingKeepsInv,
       InstalledKeepsInv, TaskReadsKeepsInv DEF Task
  <2>5. CASE Crash
    BY <2>1, <2>5, StoppingKeepsInv
  <2>6. ASSUME NEW p \in Presses, Control(p) PROVE JournalInv'
    BY <2>1, <2>6, PressKeepsInv, PressErasesKeepsInv, PressReadsKeepsInv, PressRemovesKeepsInv,
       PressRenamesKeepsInv, PressFailsKeepsInv DEF Control
  <2> QED BY <1>2, <2>2, <2>3, <2>4, <2>5, <2>6 DEF JournalNext
<1> QED BY <1>1, <1>2

(* Files, task and presses are in turn in every reachable state.           *)
THEOREM JournalInvariant ==
  JournalSpec => []JournalInv
<1>1. JournalInit => JournalInv
  BY JournalStarts
<1>2. JournalInv /\ [JournalNext]_journalVars => JournalInv'
  BY JournalSteps
<1> QED BY <1>1, <1>2, PTL DEF JournalSpec

(* Each file keeps to its parity, and every value to its set.              *)
THEOREM JournalTypeCorrect ==
  JournalSpec => []JournalTypeOK
<1>1. JournalInv => JournalTypeOK
  BY DEF JournalInv
<1> QED BY <1>1, JournalInvariant, PTL

(* The job that was started last is what is read, wherever the process     *)
(* dies or the disk fails, until two have been at the files at once        *)
(* (durable_downloads.rs:3).                                               *)
THEOREM TheJobSurvives ==
  JournalSpec => []JobSurvives
<1>1. JournalInv => JobSurvives
  BY DEF JournalInv, TurnsTaken, JobSurvives
<1> QED BY <1>1, JournalInvariant, PTL

(* With presses of pause alone, whoever meets whom, it is there at rest.   *)
THEOREM TheJobSurvivesAtRest ==
  JournalSpec => []JobSurvivesAtRest
<1>1. JournalInv => JobSurvivesAtRest
  <2> SUFFICES ASSUME JournalInv, Quiet, faults = 0, begun = {current}, current \notin over
               PROVE  Read.job = current
    BY DEF JobSurvivesAtRest
  <2>1. over = {} /\ current # NoJob
    BY JournalAssumption DEF JournalInv, JournalTypeOK
  <2>2. \E i \in Slots : slot[i] # Empty
    BY <2>1 DEF JournalInv, NothingLost, Renaming, Quiet
  <2>3. Read # Empty
    BY <2>2, ReadIsLast DEF JournalInv
  <2> QED BY <2>3, ReadIsBegun
<1> QED BY <1>1, JournalInvariant, PTL

----------------------------------------------------------------------------
(* The scheduler of downloads                                              *)
(*                                                                         *)
(* A worker keeps slots only where it uses them, and a lease only while it *)
(* uses the object (SlotsHeld, LeasesHeld).  So a worker that cannot move  *)
(* waits for one that cannot move either, and the only places to wait with *)
(* something in hand are those of a lease and of a mirror's slots.         *)
CONSTANTS Runs, Files, Hosts, Objects, RunOf, ObjectOf, SourcesOf, Rank,
          GlobalLimit, RunLimit, HostLimit, RunHostLimit, Nobody
VARIABLES at, source, runSlot, hostSlot, owner, cached, wanted
Scheduler == INSTANCE DownloadSlots WITH Jobs <- Files, directive <- wanted

(* Slots are kept by workers at the places where they need them, each at   *)
(* its source; a lease by the worker that uses the object; who waits for an    *)
(* object is at its first source, who waits for a host at a mirror.        *)
AtHost == {"lease", "restore", "fetch"}
SlotsHeld ==
  \A j \in Files :
    /\ hostSlot[j] = IF at[j] \in AtHost THEN Scheduler!Host(j) ELSE Nobody
    /\ runSlot[j] = IF at[j] \in AtHost \cup {"shared"} THEN Scheduler!Host(j) ELSE Nobody
LeasesHeld ==
  \A o \in Objects : owner[o] # Nobody =>
    ObjectOf[owner[o]] = o /\ at[owner[o]] \in {"restore", "fetch", "local", "shared"}
SourcesInTurn == \A j \in Files : /\ at[j] \in {"pending", "lease"} => source[j] = 1
                                  /\ at[j] \in {"local", "shared"} => source[j] > 1
SlotInv == Scheduler!TypeOK /\ SlotsHeld /\ LeasesHeld /\ SourcesInTurn

(* The host of a worker is one of its sources.                             *)
LEMMA HostsAreHosts ==
  ASSUME Scheduler!SlotAssumption, Scheduler!TypeOK, NEW j \in Files
  PROVE  Scheduler!Host(j) \in Hosts /\ Scheduler!Host(j) # Nobody
BY DEF Scheduler!SlotAssumption, Scheduler!TypeOK, Scheduler!Host

(* Nobody holds anything in the beginning.                                 *)
LEMMA SlotsStart ==
  ASSUME Scheduler!SlotAssumption, Scheduler!Init
  PROVE  SlotInv
BY DEF Scheduler!SlotAssumption, Scheduler!Init, SlotInv, Scheduler!TypeOK, SlotsHeld, LeasesHeld,
       SourcesInTurn, AtHost, Scheduler!Working, Scheduler!Ended, Scheduler!Host

(* A worker that ends keeps nothing.                                       *)
LEMMA EndsKeepsInv ==
  ASSUME Scheduler!SlotAssumption, SlotInv, NEW j \in Files,
         NEW how \in {"done", "failed", "stopped"}, Scheduler!Ends(j, how),
         cached' \subseteq Objects
  PROVE  SlotInv'
<1>1. /\ at' = [at EXCEPT ![j] = how]
      /\ runSlot' = [runSlot EXCEPT ![j] = Nobody]
      /\ hostSlot' = [hostSlot EXCEPT ![j] = Nobody]
      /\ owner' = [o \in Objects |-> IF owner[o] = j THEN Nobody ELSE owner[o]]
      /\ UNCHANGED <<source, wanted>>
  BY DEF Scheduler!Ends, Scheduler!Goes
<1>2. Scheduler!TypeOK'
  BY <1>1 DEF SlotInv, Scheduler!TypeOK, Scheduler!Ended
<1>3. SlotsHeld'
  BY <1>1 DEF SlotInv, SlotsHeld, Scheduler!TypeOK, AtHost, Scheduler!Host
<1>4. LeasesHeld'
  BY <1>1 DEF SlotInv, LeasesHeld, Scheduler!TypeOK
<1>5. SourcesInTurn'
  BY <1>1 DEF SlotInv, SourcesInTurn, Scheduler!TypeOK
<1> QED BY <1>2, <1>3, <1>4, <1>5 DEF SlotInv

(* A worker starts with the slots of its first source.                     *)
LEMMA StartKeepsInv ==
  ASSUME Scheduler!SlotAssumption, SlotInv, NEW j \in Files, Scheduler!Start(j)
  PROVE  SlotInv'
<1>1. /\ at[j] = "pending" /\ at' = [at EXCEPT ![j] = "lease"]
      /\ runSlot' = [runSlot EXCEPT ![j] = Scheduler!Host(j)]
      /\ hostSlot' = [hostSlot EXCEPT ![j] = Scheduler!Host(j)]
      /\ UNCHANGED <<source, owner, cached, wanted>>
  BY DEF Scheduler!Start, Scheduler!MayStart, Scheduler!Startable, Scheduler!Goes
<1>2. Scheduler!Host(j) \in Hosts
  BY HostsAreHosts DEF SlotInv
<1>3. Scheduler!TypeOK'
  BY <1>1, <1>2 DEF SlotInv, Scheduler!TypeOK, Scheduler!Working
<1>4. SlotsHeld'
  BY <1>1 DEF SlotInv, SlotsHeld, Scheduler!TypeOK, AtHost, Scheduler!Host
<1>5. LeasesHeld'
  BY <1>1 DEF SlotInv, LeasesHeld, Scheduler!TypeOK
<1>6. SourcesInTurn'
  BY <1>1 DEF SlotInv, SourcesInTurn, Scheduler!TypeOK
<1> QED BY <1>3, <1>4, <1>5, <1>6 DEF SlotInv

(* A wait is over: for the object, and for the slots of a mirror.          *)
LEMMA WaitsKeepInv ==
  ASSUME Scheduler!SlotAssumption, SlotInv, NEW j \in Files, Scheduler!Waits(j)
  PROVE  SlotInv'
<1>1. CASE Scheduler!Lease(j)
  <2>1. /\ at[j] = "lease" /\ at' = [at EXCEPT ![j] = "restore"]
        /\ owner[ObjectOf[j]] = Nobody /\ owner' = [owner EXCEPT ![ObjectOf[j]] = j]
        /\ UNCHANGED <<source, runSlot, hostSlot, cached, wanted>>
    BY <1>1 DEF Scheduler!Lease, Scheduler!Goes
  <2>2. Scheduler!TypeOK' /\ SourcesInTurn'
    BY <2>1 DEF SlotInv, Scheduler!TypeOK, Scheduler!Working, SourcesInTurn
  <2>3. SlotsHeld'
    BY <2>1 DEF SlotInv, SlotsHeld, Scheduler!TypeOK, AtHost, Scheduler!Host
  <2>4. LeasesHeld'
    BY <2>1 DEF SlotInv, LeasesHeld, Scheduler!TypeOK, Scheduler!SlotAssumption
  <2> QED BY <2>2, <2>3, <2>4 DEF SlotInv
<1>2. CASE Scheduler!TakeRunSlot(j)
  <2>1. /\ at[j] = "local" /\ at' = [at EXCEPT ![j] = "shared"]
        /\ runSlot' = [runSlot EXCEPT ![j] = Scheduler!Host(j)]
        /\ UNCHANGED <<source, hostSlot, owner, cached, wanted>>
        /\ Scheduler!Host(j) \in Hosts
    BY <1>2, HostsAreHosts DEF SlotInv, Scheduler!TakeRunSlot, Scheduler!Goes
  <2>2. Scheduler!TypeOK'
    BY <2>1 DEF SlotInv, Scheduler!TypeOK, Scheduler!Working
  <2>3. SlotsHeld'
    BY <2>1 DEF SlotInv, SlotsHeld, Scheduler!TypeOK, AtHost, Scheduler!Host
  <2>4. LeasesHeld'
    BY <2>1 DEF SlotInv, LeasesHeld, Scheduler!TypeOK
  <2>5. SourcesInTurn'
    BY <2>1 DEF SlotInv, SourcesInTurn, Scheduler!TypeOK
  <2> QED BY <2>2, <2>3, <2>4, <2>5 DEF SlotInv
<1>3. CASE Scheduler!TakeHostSlot(j)
  <2>1. /\ at[j] = "shared" /\ at' = [at EXCEPT ![j] = "fetch"]
        /\ hostSlot' = [hostSlot EXCEPT ![j] = Scheduler!Host(j)]
        /\ UNCHANGED <<source, runSlot, owner, cached, wanted>>
        /\ Scheduler!Host(j) \in Hosts
    BY <1>3, HostsAreHosts DEF SlotInv, Scheduler!TakeHostSlot, Scheduler!Goes
  <2>2. Scheduler!TypeOK'
    BY <2>1 DEF SlotInv, Scheduler!TypeOK, Scheduler!Working
  <2>3. SlotsHeld'
    BY <2>1 DEF SlotInv, SlotsHeld, Scheduler!TypeOK, AtHost, Scheduler!Host
  <2>4. LeasesHeld'
    BY <2>1 DEF SlotInv, LeasesHeld, Scheduler!TypeOK
  <2>5. SourcesInTurn'
    BY <2>1 DEF SlotInv, SourcesInTurn, Scheduler!TypeOK
  <2> QED BY <2>2, <2>3, <2>4, <2>5 DEF SlotInv
<1> QED BY <1>1, <1>2, <1>3 DEF Scheduler!Waits

(* A worker at its object: it finds it, fetches it, changes to a mirror,   *)
(* or is interrupted.                                                      *)
LEMMA MovesKeepInv ==
  ASSUME Scheduler!SlotAssumption, SlotInv, NEW j \in Files, Scheduler!Moves(j)
  PROVE  SlotInv'
<1>1. cached \subseteq Objects /\ ObjectOf[j] \in Objects
  BY DEF SlotInv, Scheduler!TypeOK, Scheduler!SlotAssumption
<1>2. CASE Scheduler!Fetched(j) \/ Scheduler!Interrupted(j)
  BY <1>1, <1>2, EndsKeepsInv DEF Scheduler!Fetched, Scheduler!Interrupted
<1>3. CASE Scheduler!Restore(j)
  <2>1. CASE /\ UNCHANGED cached
             /\ \/ Scheduler!Ends(j, "done")
                \/ Scheduler!Ends(j, "failed")
    BY <1>1, <1>3, <2>1, EndsKeepsInv DEF Scheduler!Restore
  <2>2. CASE /\ cached' = cached \ {ObjectOf[j]} /\ Scheduler!Goes(j, "fetch")
             /\ UNCHANGED <<source, runSlot, hostSlot, owner, wanted>>
    <3>1. /\ at[j] = "restore" /\ at' = [at EXCEPT ![j] = "fetch"]
          /\ cached' \subseteq Objects
      BY <1>1, <1>3, <2>2 DEF Scheduler!Restore, Scheduler!Goes
    <3>2. Scheduler!TypeOK' /\ SourcesInTurn' /\ LeasesHeld'
      BY <2>2, <3>1 DEF SlotInv, Scheduler!TypeOK, Scheduler!Working, SourcesInTurn, LeasesHeld
    <3>3. SlotsHeld'
      BY <2>2, <3>1 DEF SlotInv, SlotsHeld, Scheduler!TypeOK, AtHost, Scheduler!Host
    <3> QED BY <3>2, <3>3 DEF SlotInv
  <2> QED BY <1>3, <2>1, <2>2 DEF Scheduler!Restore
<1>4. CASE Scheduler!SourceFails(j)
  <2>1. CASE source[j] = Len(SourcesOf[j])
    BY <1>1, <1>4, <2>1, EndsKeepsInv DEF Scheduler!SourceFails
  <2>2. CASE source[j] # Len(SourcesOf[j])
    <3>1. /\ at[j] = "fetch" /\ at' = [at EXCEPT ![j] = "local"]
          /\ source' = [source EXCEPT ![j] = @ + 1]
          /\ runSlot' = [runSlot EXCEPT ![j] = Nobody]
          /\ hostSlot' = [hostSlot EXCEPT ![j] = Nobody]
          /\ UNCHANGED <<owner, cached, wanted>>
      BY <1>4, <2>2 DEF Scheduler!SourceFails, Scheduler!Goes
    <3>2. Len(SourcesOf[j]) \in Nat
      BY DEF Scheduler!SlotAssumption
    <3>3. Scheduler!TypeOK'
      BY <2>2, <3>1, <3>2 DEF SlotInv, Scheduler!TypeOK, Scheduler!Working
    <3>4. SlotsHeld'
      BY <3>1 DEF SlotInv, SlotsHeld, Scheduler!TypeOK, AtHost, Scheduler!Host
    <3>5. LeasesHeld'
      BY <3>1 DEF SlotInv, LeasesHeld, Scheduler!TypeOK
    <3>6. source[j] \in Nat /\ source[j] >= 1
      BY <3>2 DEF SlotInv, Scheduler!TypeOK
    <3>7. SourcesInTurn'
      BY <3>1, <3>6 DEF SlotInv, SourcesInTurn, Scheduler!TypeOK
    <3> QED BY <3>3, <3>4, <3>5, <3>7 DEF SlotInv
  <2> QED BY <2>1, <2>2
<1> QED BY <1>2, <1>3, <1>4 DEF Scheduler!Moves

(* Slots and leases are where they are needed in every reachable state.    *)
THEOREM SlotInvariant ==
  ASSUME Scheduler!SlotAssumption
  PROVE  Scheduler!Spec => []SlotInv
<1>1. Scheduler!Init => SlotInv
  BY SlotsStart
<1>2. SlotInv /\ [Scheduler!Next]_(Scheduler!vars) => SlotInv'
  <2> SUFFICES ASSUME SlotInv, [Scheduler!Next]_(Scheduler!vars) PROVE SlotInv'
    OBVIOUS
  <2>1. ASSUME NEW j \in Files, Scheduler!Start(j) \/ Scheduler!Waits(j) \/ Scheduler!Moves(j)
        PROVE  SlotInv'
    BY <2>1, StartKeepsInv, WaitsKeepInv, MovesKeepInv
  <2>2. ASSUME NEW r \in Runs, Scheduler!Stop(r) PROVE SlotInv'
    BY <2>2 DEF Scheduler!Stop, SlotInv, Scheduler!TypeOK, SlotsHeld, LeasesHeld, SourcesInTurn,
                Scheduler!Host
  <2>3. CASE UNCHANGED Scheduler!vars
    BY <2>3 DEF Scheduler!vars, SlotInv, Scheduler!TypeOK, SlotsHeld, LeasesHeld, SourcesInTurn,
                Scheduler!Host
  <2> QED BY <2>1, <2>2, <2>3 DEF Scheduler!Next, Scheduler!AllEnd
<1> QED BY <1>1, <1>2, PTL DEF Scheduler!Spec

(* The instance's operators on finite sets are those of the library.       *)
LEMMA SameCardinality ==
  ASSUME NEW S
  PROVE  Scheduler!Cardinality(S) = Cardinality(S)
BY DEF Scheduler!Cardinality, Cardinality

(* A slot is free where nobody has any.                                    *)
LEMMA EmptyIsBelow ==
  ASSUME NEW S, NEW n \in Nat \ {0}, S = {}
  PROVE  Scheduler!Cardinality(S) < n
<1>1. Scheduler!Cardinality(S) = 0
  BY SameCardinality, FS_EmptySet
<1> QED BY <1>1

(* Of the files that wait one comes first.                                 *)
LEMMA FirstInRank ==
  ASSUME Scheduler!SlotAssumption, NEW S \in SUBSET Files, S # {}
  PROVE  \E m \in S : \A i \in S : ~(Rank[i] < Rank[m])
<1> DEFINE T == {Rank[i] : i \in S}
<1>1. T \subseteq Nat /\ T # {}
  BY DEF Scheduler!SlotAssumption
<1>2. \E x \in T : \A y \in T : <<y, x>> \notin OpToRel(<, Nat)
  BY <1>1, NatLessThanWellFounded, WFMin
<1>3. PICK m \in S : \A i \in S : <<Rank[i], Rank[m]>> \notin OpToRel(<, Nat)
  BY <1>2
<1>4. \A i \in S : Rank[i] \in Nat
  BY <1>1
<1> QED BY <1>3, <1>4 DEF OpToRel

(* While nobody works, the first file of a run that goes on may start.     *)
LEMMA SomebodyStarts ==
  ASSUME Scheduler!SlotAssumption, SlotInv, NEW r \in Runs, ~Scheduler!RunEnded(r),
         Scheduler!Workers = {}
  PROVE  \E j \in Files : Scheduler!MayStart(j)
<1> DEFINE P == {j \in Files : RunOf[j] = r /\ at[j] = "pending"}
<1>1. P # {} /\ wanted[r] = "running"
  BY DEF Scheduler!RunEnded, Scheduler!Workers, SlotInv, Scheduler!TypeOK
<1>2. PICK m \in P : \A i \in P : ~(Rank[i] < Rank[m])
  BY <1>1, FirstInRank
<1>3. \A j \in Files : hostSlot[j] = Nobody /\ runSlot[j] = Nobody
  BY DEF SlotInv, SlotsHeld, AtHost, Scheduler!Workers, Scheduler!Working
<1>4. Scheduler!Host(m) # Nobody
  BY HostsAreHosts DEF SlotInv
<1>5. /\ {GlobalLimit, RunLimit, HostLimit, RunHostLimit} \subseteq Nat \ {0}
      /\ {j \in Files : RunOf[j] = RunOf[m] /\ runSlot[j] = Scheduler!Host(m)} = {}
      /\ {j \in Files : hostSlot[j] = Scheduler!Host(m)} = {}
      /\ {i \in Scheduler!Workers : RunOf[i] = RunOf[m]} = {}
  BY <1>3, <1>4 DEF Scheduler!SlotAssumption
<1>6. Scheduler!RunSlotFree(RunOf[m], Scheduler!Host(m)) /\ Scheduler!HostSlotFree(Scheduler!Host(m))
  BY <1>5, EmptyIsBelow DEF Scheduler!RunSlotFree, Scheduler!HostSlotFree
<1>7. Scheduler!Startable(m)
  BY <1>5, <1>6, EmptyIsBelow DEF Scheduler!Startable
<1>8. \A i \in Files : RunOf[i] = RunOf[m] /\ Rank[i] < Rank[m] => ~Scheduler!Startable(i)
  BY <1>2 DEF Scheduler!Startable
<1>9. Scheduler!Cardinality({i \in Scheduler!Workers : RunOf[i] = RunOf[m]}) < RunLimit
  BY <1>5, EmptyIsBelow
<1> QED BY <1>1, <1>7, <1>8, <1>9 DEF Scheduler!MayStart, Scheduler!Running

(* A slot of a host that is not free is somebody's.                        *)
LEMMA SlotsAreSomebodys ==
  ASSUME Scheduler!SlotAssumption, NEW h
  PROVE  /\ ~Scheduler!HostSlotFree(h) => \E i \in Files : hostSlot[i] = h
         /\ \A r \in Runs : ~Scheduler!RunSlotFree(r, h) => \E i \in Files : runSlot[i] = h
<1>1. HostLimit \in Nat \ {0} /\ RunHostLimit \in Nat \ {0}
  BY DEF Scheduler!SlotAssumption
<1>2. ASSUME ~Scheduler!HostSlotFree(h) PROVE {i \in Files : hostSlot[i] = h} # {}
  BY <1>1, <1>2, EmptyIsBelow DEF Scheduler!HostSlotFree
<1>3. ASSUME NEW r \in Runs, ~Scheduler!RunSlotFree(r, h)
      PROVE  {i \in Files : RunOf[i] = r /\ runSlot[i] = h} # {}
  BY <1>1, <1>3, EmptyIsBelow DEF Scheduler!RunSlotFree
<1> QED BY <1>2, <1>3

(* When nobody can move, a slot of a mirror that is waited for is kept by  *)
(* a worker that waits for its object.                                     *)
LEMMA MirrorsAreHeld ==
  ASSUME Scheduler!SlotAssumption, SlotInv, \A j \in Files : Scheduler!Blocked(j),
         NEW k \in Files, at[k] \in {"local", "shared"}
  PROVE  \E i \in Files : at[i] = "lease" /\ hostSlot[i] = Scheduler!Host(k)
<1>1. \A j \in Files : at[j] \notin {"restore", "fetch"} /\ Scheduler!Host(j) # Nobody
  BY HostsAreHosts DEF SlotInv, Scheduler!Blocked
<1>2. ASSUME NEW j \in Files, at[j] = "shared"
      PROVE  \E i \in Files : at[i] = "lease" /\ hostSlot[i] = Scheduler!Host(j)
  <2>1. PICK i \in Files : hostSlot[i] = Scheduler!Host(j)
    BY <1>2, SlotsAreSomebodys DEF Scheduler!Blocked
  <2> QED BY <1>1, <2>1 DEF SlotInv, SlotsHeld, AtHost
<1>3. CASE at[k] = "local"
  <2>1. RunOf[k] \in Runs
    BY DEF Scheduler!SlotAssumption
  <2>2. PICK i \in Files : runSlot[i] = Scheduler!Host(k)
    BY <1>3, <2>1, SlotsAreSomebodys DEF Scheduler!Blocked
  <2>3. at[i] \in {"lease", "shared"} /\ Scheduler!Host(i) = Scheduler!Host(k)
    BY <1>1, <2>2 DEF SlotInv, SlotsHeld, AtHost
  <2>4. CASE at[i] = "lease"
    BY <2>3, <2>4 DEF SlotInv, SlotsHeld, AtHost
  <2>5. CASE at[i] = "shared"
    BY <1>2, <2>3, <2>5
  <2> QED BY <2>3, <2>4, <2>5
<1> QED BY <1>2, <1>3

(* The only deadlock of the scheduler is a circle of workers who keep a    *)
(* slot while they wait for an object, or an object while they wait for a  *)
(* mirror's slot (download_scheduler.rs:233).                              *)
THEOREM OnlyLeasesDeadlock ==
  ASSUME Scheduler!SlotAssumption
  PROVE  Scheduler!Spec => []Scheduler!OnlyLeasesBlock
<1>1. SlotInv => Scheduler!OnlyLeasesBlock
  <2> SUFFICES ASSUME SlotInv, \A j \in Files : Scheduler!Blocked(j),
                      NEW r \in Runs, ~Scheduler!RunEnded(r)
               PROVE  /\ \E i \in Files : at[i] = "lease"
                      /\ \A i \in Files : at[i] = "lease" => at[owner[ObjectOf[i]]] \in {"local", "shared"}
                      /\ \A k \in Files : at[k] \in {"local", "shared"} =>
                           \E i \in Files : at[i] = "lease" /\ hostSlot[i] = Scheduler!Host(k)
    BY DEF Scheduler!OnlyLeasesBlock, Scheduler!Stuck
  <2>1. \A k \in Files : at[k] \in {"local", "shared"} =>
          \E i \in Files : at[i] = "lease" /\ hostSlot[i] = Scheduler!Host(k)
    BY MirrorsAreHeld
  <2>2. ASSUME NEW i \in Files, at[i] = "lease"
        PROVE  at[owner[ObjectOf[i]]] \in {"local", "shared"}
    <3>1. ObjectOf[i] \in Objects /\ owner[ObjectOf[i]] # Nobody
      BY <2>2 DEF Scheduler!Blocked, Scheduler!SlotAssumption
    <3>2. owner[ObjectOf[i]] \in Files
      BY <3>1 DEF SlotInv, Scheduler!TypeOK
    <3> QED BY <3>1, <3>2 DEF SlotInv, LeasesHeld, Scheduler!Blocked
  <2>3. \E j \in Files : at[j] \in {"lease", "local", "shared"}
    <3>1. PICK j \in Files : j \in Scheduler!Workers
      BY SomebodyStarts DEF Scheduler!Blocked, Scheduler!Workers
    <3> QED BY <3>1 DEF Scheduler!Workers, Scheduler!Working, Scheduler!Blocked
  <2> QED BY <2>1, <2>2, <2>3
<1> QED BY <1>1, SlotInvariant, PTL

(* So nobody is ever stuck where no mirror of a file that shares its       *)
(* object is the first source of such a file: files that all differ, files *)
(* without mirrors, and files with one and the same list of hosts.         *)
Shared(j) == \E k \in Files : k # j /\ ObjectOf[k] = ObjectOf[j]
MirrorsApart ==
  \A i, j \in Files : Shared(i) /\ Shared(j) =>
    \A n \in 2 .. Len(SourcesOf[j]) : SourcesOf[j][n] # SourcesOf[i][1]

(* When nobody can move, whoever waits for an object shares it with a      *)
(* worker that waits for a mirror.                                         *)
LEMMA HoldersShare ==
  ASSUME Scheduler!SlotAssumption, SlotInv, Scheduler!OnlyLeasesBlock, Scheduler!Stuck,
         NEW i \in Files, at[i] = "lease"
  PROVE  /\ Shared(i)
         /\ \E k \in Files : Shared(k) /\ at[k] \in {"local", "shared"}
<1> DEFINE k == owner[ObjectOf[i]]
<1>1. ObjectOf[i] \in Objects /\ k # Nobody
  BY DEF Scheduler!Stuck, Scheduler!Blocked, Scheduler!SlotAssumption
<1>2. k \in Files /\ ObjectOf[k] = ObjectOf[i]
  BY <1>1 DEF SlotInv, LeasesHeld, Scheduler!TypeOK
<1>3. at[k] \in {"local", "shared"} /\ k # i
  BY DEF Scheduler!OnlyLeasesBlock
<1> QED BY <1>2, <1>3 DEF Shared

(* Nobody is ever stuck whose mirrors are apart.                           *)
THEOREM MirrorsApartNeverBlock ==
  ASSUME Scheduler!SlotAssumption, MirrorsApart
  PROVE  Scheduler!Spec => []~Scheduler!Stuck
<1>1. SlotInv /\ Scheduler!OnlyLeasesBlock => ~Scheduler!Stuck
  <2> SUFFICES ASSUME SlotInv, Scheduler!OnlyLeasesBlock, Scheduler!Stuck PROVE FALSE
    OBVIOUS
  <2>1. PICK w \in Files : at[w] = "lease"
    BY DEF Scheduler!OnlyLeasesBlock
  <2>2. PICK k \in Files : Shared(k) /\ at[k] \in {"local", "shared"}
    BY <2>1, HoldersShare
  <2>3. PICK i \in Files : at[i] = "lease" /\ hostSlot[i] = Scheduler!Host(k)
    BY <2>2 DEF Scheduler!OnlyLeasesBlock
  <2>4. Shared(i)
    BY <2>3, HoldersShare
  <2>5. hostSlot[i] = SourcesOf[i][1]
    <3>1. hostSlot[i] = Scheduler!Host(i)
      BY <2>3 DEF SlotInv, SlotsHeld, AtHost
    <3>2. source[i] = 1
      BY <2>3 DEF SlotInv, SourcesInTurn
    <3> QED BY <3>1, <3>2 DEF Scheduler!Host
  <2>6. source[k] \in Nat /\ source[k] > 1 /\ source[k] \in 1 .. Len(SourcesOf[k])
    BY <2>2 DEF SlotInv, SourcesInTurn, Scheduler!TypeOK
  <2>7. Len(SourcesOf[k]) \in Nat
    BY DEF Scheduler!SlotAssumption
  <2>8. source[k] \in 2 .. Len(SourcesOf[k])
    BY <2>6, <2>7
  <2> QED BY <2>2, <2>3, <2>4, <2>5, <2>8 DEF MirrorsApart, Scheduler!Host
<1> QED BY <1>1, SlotInvariant, OnlyLeasesDeadlock, PTL
====

---- MODULE ClientRelease ----
(***************************************************************************)
(* The launcher's transactional installation of a game client              *)
(* (runtime/src/transactional_release.rs, release_generations.rs).         *)
(*                                                                         *)
(* A release is a set of signed files.  It is switched file by file under  *)
(* an exclusive file lock, between a journal entry that names the release  *)
(* before, the next one and a backup, and one that says it is complete.    *)
(* What is on disk survives the process, which may die, or meet an error   *)
(* of the file system, between any two writes; the player edits files      *)
(* whenever it pleases.  A file of the release, a player's file and a      *)
(* damaged one are told apart by their content only, as by the code.       *)
(*                                                                         *)
(* A slot file is replaced atomically and the newest of two is read, so    *)
(* pointer and journal, whose generations grow by one, are their newest    *)
(* value here; the rollback checkpoint keeps both of its slots.            *)
(***************************************************************************)
EXTENDS Naturals, FiniteSets

CONSTANTS
  Paths, Manifests,
  Content,        \* Content[m][p]: the signed file, or "absent"
  Generation,     \* Generation[m]: gameReleaseGeneration, zero for none
  NoManifest,
  MaxInstalls     \* bound of the model on the installations prepared

ASSUME ReleaseAssumption ==
  /\ NoManifest \notin Manifests /\ MaxInstalls \in Nat
  /\ Generation \in [Manifests -> Nat]
  /\ \A m \in Manifests : "junk" \notin {Content[m][p] : p \in Paths}

VARIABLES
  live,     \* the files of the client
  stage,    \* what is prepared for the next release
  backup,   \* the backups, one for each installation
  active,   \* the pointer to the active release
  journal,  \* the newest entry of the switch journal
  good,     \* the two slots of last-known-good
  mark,     \* the watermark of generations
  proc,     \* the process that has the exclusive lock
  game,     \* the manifest the game that has the shared lock was started from
  installs, \* the installations prepared
  answer,   \* the last answer of an installation (history)
  halfway,  \* a recovery has stopped while it took a published release back (history)
  played    \* the active release when the game was started (history)

disk == <<live, stage, backup, active, journal, good, mark>>
vars == <<live, stage, backup, active, journal, good, mark, proc, game, installs, answer,
          halfway, played>>

Contents == {"absent", "junk"} \cup {Content[m][p] : m \in Manifests, p \in Paths}
Release == [manifest : Manifests \cup {NoManifest}, id : 0 .. MaxInstalls]
Journal == [generation : Nat, state : {"none", "switching", "reverting", "complete"},
            previous : Release, next : Release, backup : 0 .. MaxInstalls]
Process == [op : {"none", "recover", "commit", "rollback"}, recovering : BOOLEAN, failed : BOOLEAN,
            at : {"idle", "recover", "restore", "repoint", "checkpoint", "settle", "accept", "ready",
                  "write", "switch", "publish"},
            todo : SUBSET Paths]

NoRelease == [manifest |-> NoManifest, id |-> 0]
NoJournal == [generation |-> 0, state |-> "none", previous |-> NoRelease, next |-> NoRelease, backup |-> 0]
Idle == [op |-> "none", recovering |-> FALSE, failed |-> FALSE, at |-> "idle", todo |-> {}]
Nothing == [release |-> NoRelease, files |-> {}, fresh |-> FALSE]

Init == /\ live = [p \in Paths |-> "absent"]
        /\ stage = Nothing /\ active = NoRelease /\ journal = NoJournal
        /\ backup = [i \in 1 .. MaxInstalls |-> [p \in Paths |-> "absent"]]
        /\ good = [slot \in 0 .. 1 |-> NoJournal]
        /\ mark = NoRelease.manifest
        /\ proc = Idle /\ game = NoManifest /\ installs = 0 /\ answer = "none" /\ halfway = FALSE
        /\ played = NoRelease

----------------------------------------------------------------------------
(* Releases and files *)

Installed(r) == IF r.manifest = NoManifest THEN {} ELSE {p \in Paths : Content[r.manifest][p] # "absent"}
Expected(r, p) == IF r.manifest = NoManifest THEN "absent" ELSE Content[r.manifest][p]
Verified(r) == \A p \in Installed(r) : live[p] = Expected(r, p)
Entries(j) == Installed(j.previous) \cup Installed(j.next)
Settled == journal.state \in {"none", "complete"}

Reusable(old, new, p) ==
  p \in Installed(old) /\ Expected(old, p) = Expected(new, p) /\ live[p] = Expected(new, p)

(* release_generations::check: not below the watermark, and at it only the *)
(* same manifest.                                                          *)
Allowed(m) == mark \notin {NoManifest, m} => Generation[m] > Generation[mark]
Accepted(m) == IF Generation[m] = 0 THEN mark ELSE m

LastKnownGood == IF good[1].generation > good[0].generation THEN good[1] ELSE good[0]

(* Mutant: the backup of a repair is taken for a checkpoint. *)
CheckpointAny(done) == IF done.previous = NoRelease THEN NoJournal ELSE done

(* rollback_checkpoint: the last release that is another one. *)
Checkpoint(done) ==
  IF done.previous = NoRelease THEN NoJournal
  ELSE IF done.previous.manifest # done.next.manifest THEN done
  ELSE IF LastKnownGood.next # done.previous THEN NoJournal
  ELSE [LastKnownGood EXCEPT
          !.next = done.next,
          !.generation = 1 + (IF @ > done.generation THEN @ ELSE done.generation)]

----------------------------------------------------------------------------
(* The process under the exclusive lock *)

Goes(place) == proc' = [proc EXCEPT !.at = place]
Locks(op) ==
  /\ proc = Idle /\ game = NoManifest
  /\ op = "commit" => stage.fresh
  /\ proc' = [Idle EXCEPT !.op = op, !.at = "recover", !.recovering = TRUE]
  /\ stage' = IF op = "commit" THEN [stage EXCEPT !.fresh = FALSE] ELSE stage
  /\ UNCHANGED <<live, backup, active, journal, good, mark, game, installs, answer>>
Ends(result) == proc' = Idle /\ answer' = result

(* An error: what was journalled is put right at once, anything else, and  *)
(* an error while it is put right, ends the operation.                     *)
Fails ==
  /\ proc.at # "idle"
  /\ IF proc.op = "commit" /\ ~proc.recovering /\ proc.at \in {"switch", "publish", "checkpoint", "settle", "accept"}
     THEN proc' = [proc EXCEPT !.at = "recover", !.recovering = TRUE, !.failed = TRUE, !.todo = {}] /\ UNCHANGED answer
     ELSE Ends(IF proc.failed THEN "pending" ELSE "refused")
  /\ UNCHANGED <<disk, game, installs>>
Dies == proc.at # "idle" /\ proc' = Idle /\ UNCHANGED <<disk, game, installs, answer>>

(* recover_locked *)
Published == active = journal.next
Recover ==
  /\ proc.at = "recover"
  /\ IF Settled THEN Goes("accept")
     ELSE IF journal.state # "reverting" /\ Published /\ Verified(journal.next) THEN Goes("checkpoint")
     ELSE proc' = [proc EXCEPT !.at = "restore", !.todo = Entries(journal)]
  /\ UNCHANGED <<disk, game, installs, answer>>

Restore(p) ==
  /\ proc.at = "restore" /\ p \in proc.todo
  /\ live' = [live EXCEPT ![p] = backup[journal.backup][p]]
  /\ proc' = [proc EXCEPT !.todo = @ \ {p}]
  /\ UNCHANGED <<stage, backup, active, journal, good, mark, game, installs, answer>>
Repoint ==
  /\ proc.at = "restore" /\ proc.todo = {}
  /\ active' = journal.previous
  /\ Goes("settle")
  /\ UNCHANGED <<live, stage, backup, journal, good, mark, game, installs, answer>>

Completed == [journal EXCEPT !.state = "complete", !.generation = @ + 1]

KeepCheckpoint ==
  /\ proc.at = "checkpoint"
  /\ LET c == Checkpoint(Completed) IN
     good' = IF c = NoJournal THEN good ELSE [good EXCEPT ![c.generation % 2] = c]
  /\ Goes("settle")
  /\ UNCHANGED <<live, stage, backup, active, journal, mark, game, installs, answer>>

Settle ==
  /\ proc.at = "settle"
  /\ journal' = Completed
  /\ Goes("accept")
  /\ UNCHANGED <<live, stage, backup, active, good, mark, game, installs, answer>>

(* The watermark, and the end of a recovery or of the operation itself.    *)
(* A commit has verified the files already, a rollback leaves it alone.    *)
Accepts == /\ active # NoRelease
           /\ IF proc.recovering THEN Verified(active) ELSE proc.op = "commit"
Accept ==
  /\ proc.at = "accept"
  /\ Accepts => Allowed(active.manifest)
  /\ mark' = IF Accepts THEN Accepted(active.manifest) ELSE mark
  /\ IF ~proc.recovering THEN Ends("done")
     ELSE IF proc.failed THEN Ends("restored")
     ELSE IF proc.op = "recover" THEN Ends("none")
     ELSE proc' = [proc EXCEPT !.at = "ready", !.recovering = FALSE] /\ UNCHANGED answer
  /\ UNCHANGED <<live, stage, backup, active, journal, good, game, installs>>

----------------------------------------------------------------------------
(* install, up to its commit: the files that differ are prepared, without  *)
(* the lock, after a recovery of its own.                                  *)
Prepare(m) ==
  LET next == [manifest |-> m, id |-> installs + 1] IN
  /\ proc = Idle /\ game = NoManifest /\ Settled
  /\ installs < MaxInstalls
  /\ Allowed(m)
  /\ active.manifest = m \/ Verified(active)
  /\ \A p \in Installed(next) \ Installed(active) : live[p] = "absent"
  /\ installs' = installs + 1
  /\ stage' = [release |-> next, fresh |-> TRUE,
               files |-> {p \in Installed(next) : ~Reusable(active, next, p)}]
  /\ UNCHANGED <<live, backup, active, journal, good, mark, proc, game, answer>>

Prepared == \A p \in Installed(stage.release) :
              Reusable(active, stage.release, p) \/ p \in stage.files
Newer(next, old) ==
  old \notin {NoManifest, next} =>
    Generation[next] > Generation[old] \/ {Generation[next], Generation[old]} = {0}

(* commit: the checks under the lock and the backup ... *)
Commit ==
  LET next == stage.release.manifest IN
  /\ proc.at = "ready" /\ proc.op = "commit"
  /\ Allowed(next) /\ Prepared
  /\ Newer(next, active.manifest)
  /\ Verified(active) \/ next = active.manifest
  /\ \A p \in Installed(stage.release) \ Installed(active) : live[p] = "absent"
  /\ backup' = [backup EXCEPT ![stage.release.id] =
                  [p \in Paths |-> IF p \in Installed(active) \cup Installed(stage.release) THEN live[p] ELSE "absent"]]
  /\ Goes("write")
  /\ UNCHANGED <<live, stage, active, journal, good, mark, game, installs, answer>>

(* Mutant: nothing is written ahead; the journal is written at the end. *)
WriteLate ==
  /\ proc.at = "write"
  /\ active.manifest = stage.release.manifest \/ Verified(active)
  /\ journal' = [generation |-> journal.generation + 1, state |-> "complete", previous |-> active,
                 next |-> stage.release, backup |-> stage.release.id]
  /\ proc' = [proc EXCEPT !.at = "switch", !.todo = Entries(journal')]
  /\ UNCHANGED <<live, stage, backup, active, good, mark, game, installs, answer>>

(* ... the journal entry, before any file is switched ... *)
WriteAhead ==
  /\ proc.at = "write"
  /\ active.manifest = stage.release.manifest \/ Verified(active)
  /\ journal' = [generation |-> journal.generation + 1, state |-> "switching", previous |-> active,
                 next |-> stage.release, backup |-> stage.release.id]
  /\ proc' = [proc EXCEPT !.at = "switch", !.todo = Entries(journal')]
  /\ UNCHANGED <<live, stage, backup, active, good, mark, game, installs, answer>>

(* ... the files, those prepared by a rename ... *)
SwitchFile(p) ==
  /\ proc.at = "switch" /\ p \in proc.todo
  /\ \/ Reusable(journal.previous, journal.next, p) /\ UNCHANGED <<live, stage>>
     \/ /\ p \in stage.files /\ ~Reusable(journal.previous, journal.next, p)
        /\ live' = [live EXCEPT ![p] = Expected(journal.next, p)]
        /\ stage' = [stage EXCEPT !.files = @ \ {p}]
     \/ /\ p \notin Installed(journal.next)
        /\ live' = [live EXCEPT ![p] = "absent"] /\ UNCHANGED stage
  /\ proc' = [proc EXCEPT !.todo = @ \ {p}]
  /\ UNCHANGED <<backup, active, journal, good, mark, game, installs, answer>>

(* ... and the pointer.                                                    *)
Publish ==
  /\ proc.at = "switch" /\ proc.todo = {} /\ Verified(journal.next)
  /\ active' = journal.next
  /\ Goes("checkpoint")
  /\ UNCHANGED <<live, stage, backup, journal, good, mark, game, installs, answer>>

(* Mutant: a signed generation is rolled back like any other. *)
RollbackAnyway ==
  LET last == LastKnownGood IN
  /\ proc.at = "ready" /\ proc.op = "rollback"
  /\ last # NoJournal /\ active # NoRelease
  /\ \A p \in Installed(last.previous) : backup[last.backup][p] = Expected(last.previous, p)
  /\ active = last.next /\ Verified(active)
  /\ journal' = [last EXCEPT !.state = "reverting", !.generation = journal.generation + 1]
  /\ proc' = [proc EXCEPT !.at = "restore", !.todo = Entries(journal')]
  /\ UNCHANGED <<live, stage, backup, active, good, mark, game, installs, answer>>

(* rollback: only to what the backup still has as it was signed, and only  *)
(* between releases without generations.                                   *)
Rollback ==
  LET last == LastKnownGood IN
  /\ proc.at = "ready" /\ proc.op = "rollback"
  /\ last # NoJournal /\ active # NoRelease
  /\ \A p \in Installed(last.previous) : backup[last.backup][p] = Expected(last.previous, p)
  /\ Generation[active.manifest] = 0 /\ active = last.next /\ Verified(active)
  /\ journal' = [last EXCEPT !.state = "reverting", !.generation = journal.generation + 1]
  /\ proc' = [proc EXCEPT !.at = "restore", !.todo = Entries(journal')]
  /\ UNCHANGED <<live, stage, backup, active, good, mark, game, installs, answer>>

----------------------------------------------------------------------------
(* Mutant: a game is started without a look at the journal. *)
LaunchUnsettled(m) ==
  /\ proc = Idle /\ game = NoManifest
  /\ Allowed(m) /\ (active = NoRelease \/ active.manifest = m)
  /\ game' = m
  /\ UNCHANGED <<disk, proc, installs, answer>>

(* acquire_launch_lease, after its recovery: the manifest has to be that   *)
(* of the active release, if there is one.                                 *)
Launch(m) ==
  /\ proc = Idle /\ game = NoManifest
  /\ Settled /\ Allowed(m) /\ (active = NoRelease \/ active.manifest = m)
  /\ game' = m
  /\ UNCHANGED <<disk, proc, installs, answer>>
GameEnds == game # NoManifest /\ game' = NoManifest /\ UNCHANGED <<disk, proc, installs, answer>>

(* The player edits or deletes a file of the client, or has one of its own *)
(* there; or makes it again what the release it has installed says.        *)
Player(p) ==
  /\ \E file \in {"junk"} \cup (IF Settled THEN {Expected(active, p)} ELSE {}) :
       live[p] # file /\ live' = [live EXCEPT ![p] = file]
  /\ UNCHANGED <<stage, backup, active, journal, good, mark, proc, game, installs, answer>>

Steps == Recover \/ Repoint \/ KeepCheckpoint \/ Settle \/ Accept \/ Commit \/ WriteAhead \/ Publish
         \/ Rollback \/ \E p \in Paths : Restore(p) \/ SwitchFile(p)

(* Until the pointer is put back, what takes a published release back looks *)
(* like one that has still to be completed.                                 *)
TakesBack == proc.at = "restore" /\ journal.state = "switching" /\ active = journal.next

Next == /\ \/ Steps \/ Fails \/ Dies \/ GameEnds
           \/ \E op \in {"recover", "commit", "rollback"} : Locks(op)
           \/ \E m \in Manifests : Prepare(m) \/ Launch(m)
           \/ \E p \in Paths : Player(p)
        /\ halfway' = (halfway \/ (TakesBack /\ proc' = Idle))
        /\ played' = IF game' = NoManifest THEN NoRelease
                     ELSE IF game = NoManifest THEN active ELSE played

Spec == Init /\ [][Next]_vars

----------------------------------------------------------------------------
TypeOK == /\ live \in [Paths -> Contents]
          /\ stage \in [release : Release, files : SUBSET Paths, fresh : BOOLEAN]
          /\ backup \in [1 .. MaxInstalls -> [Paths -> Contents]]
          /\ active \in Release /\ journal \in Journal /\ good \in [0 .. 1 -> Journal]
          /\ mark \in Manifests \cup {NoManifest} /\ game \in Manifests \cup {NoManifest}
          /\ proc \in Process /\ installs \in 0 .. MaxInstalls
          /\ answer \in {"none", "done", "refused", "restored", "pending"} /\ halfway \in BOOLEAN
          /\ played \in Release

(* The files are those of a release, or as the player has made them; but   *)
(* files that it does not have may be left from the release before if a    *)
(* recovery was stopped while it took a published release back.            *)
Whole(r) == \A p \in Paths :
  \/ live[p] \in {Expected(r, p), "junk"}
  \/ halfway /\ p \notin Installed(r)

(* Whatever dies or fails, once the journal is settled the files are those *)
(* of the active release and no mixture of two.                            *)
ReleasesAreWhole == Settled => Whole(active)

(* While a game runs nobody installs, repairs, recovers or rolls back the  *)
(* release under it: the active one is still that of its start, which is   *)
(* the game's own or none at all (acquire_launch_lease then leaves the     *)
(* files to its caller's check), and its files are no mixture of two.      *)
GamesKeepTheirRelease ==
  game # NoManifest =>
    active = played /\ active.manifest \in {game, NoManifest} /\ Whole(active)

(* The checkpoint of the active release is another release, and its files  *)
(* are in the backup as they were signed, whatever was damaged or repaired *)
(* since.                                                                  *)
CheckpointsAreGood ==
  LET last == LastKnownGood IN
  last # NoJournal =>
    /\ last.previous.manifest \notin {NoManifest, last.next.manifest}
    /\ \A p \in Paths : backup[last.backup][p] = Expected(last.previous, p)

(* "The previous installation was restored", the error of a commit says,   *)
(* when it was.                                                            *)
FailureReportsAreTrue ==
  [][answer' = "restored" /\ answer # "restored" => active' = journal'.previous]_vars

(* What the player has put where the active release has no file is not     *)
(* replaced or removed by an installation.                                 *)
PlayersFilesStay ==
  [][\A p \in Paths : live[p] = "junk" /\ live'[p] # "junk"
                       => p \in Installed(active) \/ Player(p)]_vars

(* Once a generation was accepted, no settled installation is of an older  *)
(* one, or of another manifest of the same, whichever way it came about.   *)
NoOlderGeneration ==
  Settled /\ mark # NoManifest =>
    active.manifest # NoManifest /\ (active.manifest = mark \/ Generation[active.manifest] > Generation[mark])
====

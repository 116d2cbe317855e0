# NeverLauncher in TLA+

NeverLauncher is a platform for Minecraft launchers: a Go API (`services/api`)
that runs in several replicas over one PostgreSQL, a bridge into game servers
(Java), and a launcher whose runtime is written in Rust. This directory models
the parts of it that keep state which several actors change, or which has to
survive somebody's death, checks them with TLC and proves every invariant and
action property of the runs with TLAPS; liveness is left to TLC.

| module | what it is |
|---|---|
| `FencedTasks` | abstract: tasks held under growing epochs, settled only by the caller who holds them |
| `ReleaseChannel` | abstract: a channel whose head only moves on |
| `TokenFamilies` | abstract: a session that hands on one good token at a time |
| `DurableJobs` | the job table, its attempt log, idempotency records and revocation trigger; implements `FencedTasks` |
| `DurablePublish` | the execution of a publish job over the table; implements `ReleaseChannel` and `FencedTasks` |
| `ChannelRollback` | a rollback of a channel: a job that makes a release and waits for a second job; implements `ReleaseChannel` |
| `ChannelCutover` | moving a channel from Gravit and back while it is published to |
| `EventDelivery` | the outbox, the event log and the bus that calls extensions |
| `SessionRotation` | sessions, refresh tokens and bound devices; implements `TokenFamilies` |
| `BridgeCommands` | operators' commands on their way to a game server, and their receipts |
| `ClientRelease` | the launcher's transactional installation of a game client |
| `DownloadSlots` | the launcher's download scheduler: slots of hosts, leases on objects |
| `DownloadJournal` | the journal that lets a download survive the launcher |
| `MC*` and `*.cfg` | instances for TLC |
| `DurableJobs_proofs`, `DurablePublish_proofs`, `ChannelRollback_proofs`, `ChannelCutover_proofs`, `EventDelivery_proofs`, `SessionRotation_proofs`, `BridgeCommands_proofs` | theorems and proofs about the module of that name |
| `Launcher_proofs` | theorems and proofs about `ClientRelease`, `DownloadJournal` and `DownloadSlots` |

`tlc -config X.cfg MCModule` repeats a run, `tlapm Module_proofs.tla` the proofs.

## 1. The system

Paths are under `services/api/internal` unless they say otherwise.

**Durable job table** (`repository/durable.go`, `repository/operations.go`,
`dbmigrate/sql/0052`, `0082`). State: `durable_jobs` (status, lease token and
fence, attempt count, budget, `available_at`), `durable_job_attempts` (one row
for each attempt), `idempotency_records`. Operations: enqueue, lease one, lease a
batch, fail, terminate, complete, cancel, retry, and the end of a publish
commit; each is one transaction that locks the job's row first. Triggers on
users, sessions and project roles revoke a user's work. *Correct when*: row and
log tell one story, an expired lease settles nothing, a key stands for one job,
every job ends.

**Publish executor and release channel** (`httpapi/durable_control.go`,
`httpapi/package_product.go`, `httpapi/package_validation.go`,
`CommitDurablePublish`). State: `release_versions`, the latest
`package_integrity_checks`, `channel_heads`, the job's payload (a snapshot of
the package and of the head). A worker leases the job, authorizes its user,
leases the package, compares manifest, head and evidence, authorizes once
more, and commits release, head, job, audit and two outbox rows at once.
*Correct when*: what is published is what was asked for and checked, one
winner for each revision of the head, and nobody publishes whose work was
revoked.

**Rollback of a channel** (`httpapi/rollback_durable.go`,
`httpapi/routes_operations_variant2.go`). A job whose worker copies an old
release into a new one, signs and checks it, enqueues the publish job and is put
back until that one is over; each attempt starts over. *Correct when*: a
rollback that says it succeeded has replaced the head its operator saw, and no
attempt undoes what an earlier one has enqueued.

**Cut-over from Gravit** (`repository/migration_cutover.go`,
`repository/migration_rollback.go`, `httpapi/release_generations.go`, `0060`,
`0098`, `0099`). State: `migration_cutovers_03311`, `migration_rollbacks_03312`, and
a trigger that fences `channel_heads` while a migration is staged or active.
*Correct when*: the fence holds against publish jobs under way, a rollback
restores what was served, nobody publishes over a head it has not read.

**Package lease** (`durable_scope_leases`, `httpapi/package_mutation_lock.go`).
A token, a fence, a time; workers compare the fence in the commit, editors do not.

**Outbox** (`event_outbox`; `drainOutbox0213`). Rows are claimed in batches for
60 seconds, appended to the event log one by one, acknowledged by token before
the claim runs out, failed with a growing delay, retired after 12 attempts.

**Event bus** (`eventbus/bus.go`, `repository/extension_events.go`,
`extensionhost/host.go`, `0045`). State: `extension_event_log` (a `BIGSERIAL`
sequence, unique per type and idempotency key), subscriptions, deliveries, dead
letters. An append inserts a delivery for each subscription; a worker of any
replica leases the first delivery that is in turn, calls the extension, and
acknowledges, delays or dead-letters it. *Correct when*: each subscriber gets the
events of a key one at a time and in order, at least once, and every delivery ends.

**Sessions and devices** (`httpapi/auth_core_postgres_111.go`,
`httpapi/auth_accounts.go`, `httpapi/session_management_postgres_118.go`,
`repository/devices.go`). State: `auth_sessions`, `refresh_token_families`,
`refresh_tokens`, `trusted_devices`. Log-in, refresh, reuse of a consumed token,
revocation of sessions and devices, binding a session to a device; every one is
a transaction that locks rows in an order of its own. *Correct when*: session,
family, tokens and device say the same whatever overlapped, one token is good at
a time, everybody gets an answer.

**Server bridge, control channel** (`httpapi/server_bridge_control.go`,
`repository/server_bridge_v2.go`, `repository/server_bridge_control_recovery.go`,
`serverbridgeha`, and `plugins/bridge-common`: `BridgeControlJournal`,
`LauncherApiClient`). A command is a row that is leased to the agent's poll; the
agent notes on disk that it begins and how it ended and repeats its receipt
until it is taken. *Correct when*: a command takes effect at most once, operators
are told the truth, receipts are settled.

**Transactional installation** (`runtime/runtime/src/transactional_release.rs`,
`release_generations.rs`). On disk: the client's files, a stage, backups, the
pointer, the switch journal, last-known-good, a watermark of generations.
*Correct when*: whatever dies, the files are those of one release, a rollback
has something to return to, no older generation comes back, a running game keeps
its files.

**Downloads** (`download_scheduler.rs`, `content_cache.rs`,
`durable_downloads.rs`). Workers take slots of hosts and leases on cached objects
and change to mirrors; a journal of two files that take turns remembers the
operation. *Correct when*: workers do not wait for each other for ever, pause and
cancel are obeyed, the job is there after a crash until it is over.

How they meet: the request writes a job; the executor reads the job through the
table's leases and the package through the package lease; its commit writes the
head, ends the job and leaves rows in the outbox; drainers turn rows into log
entries; the bus turns entries into calls. A rollback enqueues a publish job and
a migration puts a fence around the head that publish jobs compare and swap.
Launchers read the head and install what it names under their own watermark of
generations. No component calls the next one: each leaves rows or files for
whoever looks next, so every hand-over may be delayed, repeated, or done by
somebody who believes it still holds a lease. Those, with crashes between any two
transactions or writes and a user revoked in between, are the behaviours that
are hard to test.

**Not modelled**: nodes, player sessions and join tickets of the bridge;
extension lifecycle and updates; nonces and rate limits; the embedded SQLite
stores, their backup and growth to PostgreSQL; detection, planning, import and
rehearsal of a migration (evidence that `ChannelCutover` takes as input);
prestarter and installer. **Left out**: user interfaces, CLI and SDKs (no shared
state of their own), identity-provider clients, storage, sandboxes and guard
sensors (I/O and process control), the older copies under `apps/services`,
`apps/cli` and `apps/runtime`. The services are some 280 000 lines, most of them
handlers around one statement, formats and user interfaces; what is modelled is
chosen by the hazards, not by size. `PROJECT.json` has the whole list with
reasons.

## 2. The models

### DurableJobs

A Go function that is one transaction is one action of the same name; a row that
another transaction has updated and not committed is waited for (`RowFree`,
`AttemptFree`) or, by the batch lease, skipped. The caller is not modelled: any
token that was ever issued may come back at any time, which covers workers that
are slow, crash or repeat a call. PostgreSQL's clock is the only one the leases
use, and the code compares times with now, so a time is the ticks left until it;
the API host's clock appears once, in `available_at` of a new job (`skew`). A
token never repeats within a job and is named by the attempt it was issued with.
`by` is a history field: the token that the caller who settled the job has shown.
`FencedTasks` asks that it is the holder's, so a worker that settles what its
successor holds breaks the refinement (`HoldsAnyToken`).

The user-security trigger is four actions: `RevokeAttempts` and `RevokeJobs` are
its two UPDATEs, which at READ COMMITTED see different states; until
`RevokeCommit` or `RevokeAbort` their effect is seen by nobody and locks rows
(`marked`, `doomed`). The session and project-role triggers do the same to fewer
rows, or miss the attempts.

`EnqueueAnswer` keeps of the idempotency check what it decides. Digests are the
payloads, JSON and error texts are left out, and a record's 24 hours never pass.

### DurablePublish

The table is used through what `FencedTasks` promises (`phase`, `holder`,
`epoch`): its leases lapse at any time, and `by` is the epoch of the worker that
settled a job. `worker[w].at` is the place in
`executeDurablePublishJob0213` after the last comparison that held. `Compare` is a
comparison that fails the job or goes on; `GiveUp` is a read that fails and a return
without a word; `Crash` the end of the process. `CommitDurablePublish`,
`ConflictAtCommit` and `LostAtCommit` are the three ways the transaction ends. It
locks the job's row first, so it waits for a revocation that has updated it.

A package is a status, a version number of its manifest and the version its
latest check passed for; editors change all three and need no lease, since their
writes carry none. `late` is a history variable: jobs that became active after a
revocation of their user had updated. Manifest digest, signature and policy are
reduced to *same version* and *may fail*. One channel without older releases is
modelled; what a migration does to a head is in `ChannelCutover`.

### ChannelRollback

`worker[w].at` is the place in `stageRollback0217` and `runRollbackJob0217`; each
action is one call that changes state or decides. The publish job is a phase and
what was asked for (`CommitPublish`, `PublishFails`); how it is executed is
`DurablePublish`'s. Leases and locks lapse under a worker that goes on
(`JobLapses`, `LockLapses`), workers stop anywhere, operators cancel, retry, publish
other packages and the rollback's own release. `release[p].content` counts how
often a release was signed, since a new signature is a new manifest. One channel
other than stable; generations are left to `ChannelCutover`. Two things an operator will
meet follow from the code and are in the model: a rollback that is retried after
its publish job failed needs that job retried too, and one that finds its release
published and then replaced by somebody else fails although it had published.

A release that is no draft is signed again if its signature does not verify
(`distrusts`), which a change of the key or of what is trusted brings about at any
time; the publish job that was enqueued for the earlier signature then refuses the
release, as it should. The check's UPDATE (`CheckRelease`) and the last read
(`ReadRelease`) are two steps, and what was read as published is taken for the end
of the rollback, without a look at the head (`FindPublished`). Two history
variables remember what the properties except: `excused`, the rollbacks that two
workers have run at once or that were signed again though no draft, and `slipped`,
those whose release another job published between check and read.

### ChannelCutover

One channel other than stable, and every transaction that locks the project's
row first is one step. A migration is staged over the head, activated or
cancelled, its rollback planned and committed; the trigger of `0098` and `0099` is
`Fenced`, the compare-and-swap of a publish commit is `Expected`, filling in a
missing head from old releases is `Bootstrapped`. There is one row per channel in
the cut-over table, for ever, as its key has it. A publish job reads the head,
compares generations with a list it has read, and commits, each in a transaction
of its own. Rehearsals, receipts and snapshots are the operator's: evidence that
does not hold changes nothing. `Starts` says how the channel begins: `new`, `whole`
(a head), `legacy` (a head that migration 0060 filled in, without a digest) or
`headless` (published, but its head was written by a replica older than
`channel_heads`, after 0060 had run).

### EventDelivery

Events have a key and come from the outbox or from a request. A claim or a
lease is live or has run out, a delay has passed or not; tokens are attempts. A
worker may get any delivery that is in turn, since rows others have locked are
passed over.
`BeginAppend` takes the sequence and the subscriptions (the INSERT), `EndAppend`
commits, and the unique index makes a second append of the same event wait.
`faults` and `overtaken` are history variables, of which `faults` guards something
(the bound on crashes). Assumed: a bus is configured (without one
`deliverOutboxEvent0213` acknowledges what nobody receives), clocks of replicas agree
within the tenth of a lease that is kept for settling, and a call whose context
is cancelled ends.

### SessionRotation

A request goes through its transaction row lock by row lock; `req[p].held` are the
rows it has locked, and the reads and checks between two locks belong to the step
that takes the second one. A transaction may be rolled back at any time, which is
what PostgreSQL does to deadlocks and the five seconds' deadline to everything
else. A write that only its holder could see before the commit is made at the
commit. All requests that revoke (log-out, an operator's, reuse, a limit that was
exceeded, a device) are instances of three shapes. Left out: the expiry of
sessions after 30 days and the sweep of inactive ones, risk columns and step-up,
names, recovery of a device that was revoked, the store in memory.
`Enrol` takes the INSERT of `SaveTrustedDevice` to succeed for a new device. As it is
written it may not: in its `ON CONFLICT` part (`repository/devices.go:518`) the
conditions follow the last assignment after an `AND`, where a `WHERE` seems meant, and
a text is no operand of `AND` for PostgreSQL. The types of statements are outside
these models.

### BridgeCommands

One node, whose control channel belongs to its runtime; PostgreSQL. A command's
row, the agent's journal on disk, the agent's process and the requests that
replicas serve are separate, so an answer may be lost, a poll given up that still
works, a lease lapse at any moment, Redis forget (`gate`), the agent stop between
effect and note, and the server start anew with another runtime. A number is
taken by the INSERT; rolled back, it is skipped. A poll with nothing to lease rolls
its reconciling back, as the code does. Left out: the idempotent admission of the
operator's request, heartbeats.

### ClientRelease

Files are told apart by content only: signed content, `junk` (whatever the player
or a failing disk made of it), absent. A commit is `WriteAhead`, one `SwitchFile` per
path, `Publish`, `Checkpoint` and the journal's end, each a write after which the
process may die or at which the file system may answer an error; `Recover` rolls
back or forward as the code decides. Pointer and journal are their newest slot;
last-known-good keeps both. The lock that games hold is shared, the installer's
exclusive. A game may be launched without an active release, since only an active one
is compared with its manifest; `played` is the release that was active then. One
game is modelled: others only keep the installer out longer. What the
player edits, deletes or puts there is `junk`, at any time (a file of the release
that is gone fails every comparison, as a damaged one does); while nothing is being
switched the player may also put a file back as the active release has it, or take an
own one away. Left out: presets, the disk budget, the watermark in the trust policy,
symbolic links, and adoption of a stage that another process has verified.

### DownloadSlots

A worker is a place: waiting for its host's slot in the run, in the process, for
the lease on its object, for an answer, for a mirror's slots. Attempts at one
source and the bytes of a part are one step. An object of the cache that is damaged
is removed and fetched (`Restore`). The user pauses or cancels a run at
any time (`Interrupted`). `Stuck` says that nobody can move although a run is not
over: of every worker, that what it waits for is not to be had.

### DownloadJournal

The two files take turns by the parity of a generation; a write is the removal
of the target and a rename, and the process may die in between. The task (`start`,
`resume`) and the presses of `control` touch the files without a lock; what each has
read is in its own record. The two files are read one after the other; the model
reads them in one step. A reader that is overtaken between them finds an older
generation of what is there, or nothing and then writes nothing: with the reads
apart (and a place between them that counts as being at the files) both properties
hold on the run's instance, 10.8 M states. The temporary file that is written first changes
nothing until the rename. Signatures and plans are taken to be good.
`overlapped` remembers that two have been at the files at once. Init, Next and
`JournalSpec` have names of their own, for one module holds the proofs of the
launcher's components.

## 3. What is checked

Numbers are distinct states. Symmetry is used over interchangeable values where
the run has no liveness property.

| run | instance | shows |
|---|---|---|
| `jobs` (209 k) | two jobs, a publish and an operation key, two payloads, one user | row and log agree; success is recorded once; one job for a key; only a revocation leaves an attempt running; the table implements `FencedTasks`: who settles holds the current token; every job ends |
| `publish_one` (202 k) | one job, one package of two versions, two workers, two leases of each | published as requested; only late jobs escape a revocation; `FencedTasks` is implemented: who settles holds the current lease |
| `publish_two` (1.9 M) | two jobs, two packages, two workers | one winner for each revision; `ReleaseChannel` is implemented |
| `events` (495 k) | an outbox event and a request's of one key, one subscriber, one drainer, two workers, one fault, two attempts of each | kept in order; one call at a time; delivered only if logged; a lapsed claim settles nothing; what is over stays over; every row and delivery ends |
| `sessions` (572 k) | two sessions, three tokens, two devices, two requests at once | session, family, tokens and devices agree; `TokenFamilies` is implemented |
| `bridge` (465 k) | two commands, two replicas, one restart of the server | at most once; operators are told the truth; settled receipts are kept; nothing is done late |
| `release` (3.7 M) | four releases, two without a generation and two with, two paths, three installations | releases are whole; games keep theirs; checkpoints are good; no older generation |
| `downloads` (156 k) | four files of two runs whose two hosts are each other's mirrors | stops are obeyed; every run ends |
| `cutover` (85 k) | two migrations, three publish jobs, a channel that is new, whole or headless | the fence holds; rollbacks restore; published in the order of generations; who publishes replaces the head it read; conflicts are real |
| `rollback` (2.1 M) | one rollback of up to three attempts, a retry included, two operators' publish jobs, two workers, two signatures | a rollback that succeeded replaced its head; retries keep the release; both but for what section 4 says |
| `journal` (2.5 M) | two downloads, two presses of pause or cancel, one fault | the job survives; at rest it is there |
| `downloads_shared` | one run, four files with one content, one of them at another host; three slots of each host | violation: see below |

### Bounds, and why they are enough

`MaxAttempts`, `RetryGrant`, `OutboxAttempts`, `ClaimLimit`, `MaxSessions` and the
limits of the download scheduler are constants of the code made small: nothing
depends on their size but the comparison with a count, and 1, 2 or 3 reach
*below*, *at* and *after a retry*. `AttemptBound`, `MaxVersion`, `MaxEpoch`,
`MaxFence`, `MaxFaults`, `MaxRuntime`, `MaxInstalls`, `MaxContent`, `MaxRetries`,
`MaxLeases` and `MaxGeneration` are bounds of the model. Two leases of a job are a holder and its
successor, which is all a late worker can meet at once. `LeaseTTL` of one tick
makes a lease live, then expired; `Delays` reach *now* and *later*. `publish_two`
has one version of each package and one lease of each job, since content and
recovery are what `publish_one` is about. With one key and two events in `events`
every pair that can be out of order is there, and the fault may be a crash or a
settling that comes late, of either side. Two sessions with a limit of one, two
devices and three tokens let a rotation, a revocation and a log-in meet over each
pair of rows; what takes three requests at once is not covered. In `release` the
third installation repairs or rolls back what two have left; two paths are one
that appears and one that changes or goes. In `rollback` a second attempt meets
everything the first has left, and after a retry a third may follow
(`MaxLeases`). Five generations
let a task and two presses write, and one follow the other, in either slot. What
a bound could hide from an invariant or an action property the proofs exclude,
since they hold for every value of the constants.

`CHECK_DEADLOCK FALSE` is said where the system may stop: when the finitely many
events are delivered, channels published, rollbacks over, presses made, and in
`downloads_shared`, where stopping is the point.

### Fairness

`DurableJobs`: weak fairness of the clock and of the end of a revocation's
transaction; strong fairness of the batch lease, because every replica polls
twice a second (`StartDurableControlPlane0213`) and a revocation that is tried
again and again holds a row's lock only for moments. Nothing is assumed of
workers that hold a lease, nor of operators.

`EventDelivery`: as long as drainers, workers, requests' transactions or the clock
have something to do, one of their kind does it (they run in loops, a call and a
transaction have deadlines). Requests, subscriptions and success are not assumed; a
delivery need only end while its extension stays enabled.

`DownloadSlots`: weak fairness of each file's worker: a free slot or lease is
handed to a waiter, an attempt has a deadline. `SessionRotation`, `BridgeCommands`
and `ChannelRollback` state a fairness for the properties of the table below: a
request's steps and its deadline; handlers, agent and the end of leases; replicas
that poll, workers that go on and leases that run out.

### Properties kept beside the runs

These are in the modules, hold on the instances named, and are checked in no run
so that a full repetition stays short; a copy of a configuration with another
`PROPERTY` line repeats them.

| property | instance |
|---|---|
| `TypeOK` of every module, `MarksHold` | every run above (proved) |
| `JournalInv`, `SlotInv` (`Launcher_proofs`) | `journal.cfg`; `downloads.cfg` and `downloads_shared.cfg` (proved) |
| `Stuck` is what `ENABLED` says: no file can start, wait or move, and a run is not over | `downloads.cfg`, `downloads_shared.cfg` |
| `OnlyLeasesBlock` (`DownloadSlots`) | `downloads.cfg`, where nobody is ever stuck, and `downloads_shared.cfg`, where it happens (proved) |
| `ImplementsReleaseChannel` (`ChannelRollback`) | `rollback.cfg` (proved) |
| `EveryRequestEnds` (`SessionRotation`) | `sessions.cfg` with `FairSpec`, two tokens, one device, no symmetry |
| `RollbacksEnd` (`ChannelRollback`) | `rollback.cfg` with `FairSpec`, one order, no symmetry, and as many leases and signatures as there can be attempts: three attempts and no retry, or one attempt and a retry |
| `OutcomesStay` (`BridgeCommands`) | `bridge.cfg` (proved) |
| `RollbackStaysPossible` (`ChannelCutover`) | `cutover.cfg`; not from `legacy`, see below (proved otherwise) |

## 4. Disagreements between the code and what it says

Each is a property that states what a comment, a document or a test promises, and
that TLC finds violated. One is a run; the others are repeated by putting the
property into the named configuration.

**Jobs**

* `NoOrphans` (`jobs.cfg`). A job leased between the revocation trigger's two
  UPDATEs (`0082:93` and `:97`) is revoked and leaves its attempt `running` for
  ever, what the comment at `repository/durable.go:251` warns of.
  `OnlyRevocationOrphans` says that nothing else leaves one.
* `ReplayReturnsTheJob` (`jobs.cfg`). The commit drops the `jobId` from the
  idempotency record (`durable.go:723`), so repeating a request that succeeded
  conflicts; the repository in memory, which is said to mean the same
  (`durable.go:33`), returns the job.
* `RevokedActorPublishesNothing` (`publish_one.cfg`). A job enqueued between a
  session revocation's UPDATE and its commit publishes afterwards
  (`0082:38-40` says that revoked jobs cannot). `OnlyLateJobsEscape` says, and
  its theorem proves, that there is no other way.

**Channels**

* `CancelledDoesNothing` (`rollback.cfg`). A rollback that waits for its publish job
  is pending, so it may be cancelled (`operations.go:76`), and the publish job moves
  the head all the same. The comment at `operations.go:11-13` says that running
  operations may not be declared cancelled while external effects may go on.
* `RetriesKeepTheRelease` without `\ excused` (`rollback.cfg`). Status is looked at
  long before the release is signed (`rollback_durable.go:67`, `:159`) and the lease
  for the last time before that; a worker that stalls there past its lease and
  its locks signs again what another attempt has signed and enqueued. The comment
  at `:157` says that every retry keeps the signed manifest. A worker that does not
  trust the signature any more, after the server's key was changed, signs again
  all alone (the second half of `:159`), while the publish job waits for what was
  signed before.
* `RollbackReplacedItsHead` without `\ slipped` (`rollback.cfg`). A worker's
  package lock runs out between its check of the release
  (`package_validation.go:132`) and its last read of it (`rollback_durable.go:216`),
  and an operator's publish job, asked over a later head, publishes the release
  there: the worker reads *published* and succeeds (`:243`), over a head that is not
  the one its operator saw. The comment at `:316-318` says that success is not
  reported if the head does not point at the rollback's release; the revision is
  compared there (`:322`), and not at `:243`.
* `ConflictsAreReal` without `Headless` (`cutover.cfg`). On a channel that has
  published and has no head, the commit fills the head in at revision 1
  (`durable.go:651`) and compares that with the revision the request has read,
  zero: a conflict nobody has caused, which takes the filled-in head back and comes
  again for ever. The comment at `:649` says that channels other than stable keep
  the historical recovery of the head.
* `ReplacesTheHeadItRead` without `Headless` (`cutover.cfg`). Rolling a migration
  of such a channel back deletes the head (`migration_rollback.go:238`), and the
  next commit fills it in at revision 1: a job that has read revision 1 while the
  migration was active commits over a head it has never seen.
* `RollbackStaysPossible` (`cutover.cfg` with `Starts = {"legacy"}`). A head that
  migration 0060 filled in has no digest; a route staged over it records that, and
  the rollback compares it with the manifest's (`migration_rollback.go:222`): it
  refuses for ever. `docs/migration/gravit-cutover-rollback.md:39` says that a
  successful transaction returns the channel's previous head.
* `HeadNeverGoesBack` (`cutover.cfg`). Activating a route moves the head to a
  release published before (`migration_cutover.go:303`) without asking for its
  generation; `release_generations.go:34-39` says that once a channel takes
  generations up no older release must become its head. The launcher refuses such
  a release: `NoOlderGeneration` of `ClientRelease` is about its side.

**Events**

* `AlwaysInOrder` (`events.cfg`). Sequences are taken at INSERT
  (`extension_events.go:470`), so an event may be handed over before one with a
  smaller sequence that commits later; `docs/extensions/java-events-hooks.md:3`
  calls the bus the one source of truth for the order of events. `KeptInOrder`
  says that order is kept otherwise.

**Sessions**

* `SessionLimit` (`sessions.cfg`). The limit is enforced on what was committed
  (`auth_core_postgres_111.go:384`): two log-ins at once exceed it. Clients are told
  of a `maxSessionsPerUser` that is "enforced" (`auth_accounts.go:344-346`).

**Bridge**

* `ReceiptsSettle` (`bridge.cfg` with `FairSpec`, one replica, one runtime, no
  symmetry). A receipt that comes after its lease's end is never recorded: what
  reads write as the reason is not in the list of
  `server_bridge_control_recovery.go:15`, and had a poll written one that is, the
  trigger of `0110_bridge_confirmed_execution.sql:13` refuses the update. The agent
  repeats the receipt before each poll, and the channel waits until the server is
  restarted. The comment at `server_bridge_v2.go:1679` says that such a late
  receipt is taken.

**Launcher**

* `ReleasesAreWhole` without `halfway` (`release.cfg`). When a process dies behind
  the pointer and a file is damaged before the next recovery, that one takes the
  release back, files first and pointer last (`transactional_release.rs:339`, `:321`),
  and leaves the journal as it was. If it dies before the pointer and everything
  the new release has is as the old one had it, the next recovery takes the
  release for complete and rolls forward: what the update had removed is there
  again and stays. The comment at `:393-394` says that a switch that was
  interrupted is followed by the whole old set.
* `FailureReportsAreTrue` (`release.cfg`). A write that fails after the pointer was
  written is followed by a recovery that rolls forward, and the commit reports
  "the previous installation was restored" (`transactional_release.rs:661`).
* `PlayersFilesStay` (`release.cfg`). That a new path is free is checked once, while
  the backup is taken; a file put there afterwards is replaced by the switch or
  removed by a restore (`:637`). The comment at `:591` says that a player's file
  must not be replaced silently.
* `EveryRunEnds` (run `downloads_shared`). A worker keeps the lease on its object
  while it waits for a slot of a mirror's host, and one that waits for a lease
  keeps its host's slots (`download_scheduler.rs:233`): three files with one
  content fill the mirror's slots and wait for the worker that waits for them, and
  every file of that host with them, until the user pauses or cancels.
  `OnlyLeasesBlock` says, and its theorem proves, that there is no other deadlock. The comment
  at `:298` says that a faulty mirror does not cancel the other jobs.
* `CancelIsKept` (`journal.cfg`). The task writes back what it had read while a
  cancel erases the journal (`durable_downloads.rs:142`, `:235`): the cancelled job
  is offered again. The comment at `:230` says that the wanted action is kept
  before it is confirmed.
* `JobSurvives` without `~overlapped` (`journal.cfg`). Two writers one generation
  apart both remove their target before they rename (`:99`), and a slow cancel
  erases the journal of the download that was started after it (`:236`): a crash,
  or nothing at all, then loses a job that the journal is there to keep.

## 5. What is proved

For every value of the constants - any number of jobs, packages, releases, users,
devices, commands, events, workers and replicas, any bound - under the named
assumptions on constants (`ConstantsAssumption`, `PublishAssumption`,
`RollbackAssumption`, `CutoverAssumption`, `DeliveryAssumption`,
`SessionsAssumption`, `BridgeAssumption`, `ReleaseAssumption`,
`JournalAssumption`, `SlotAssumption`). They say that the
values that stand for *nothing* are no members of the sets, that functions have
their types and that limits are positive numbers; three say that a set is
finite (workers, commands, events), because the model counts its members. TLC evaluates them in every run.

Each module's `Invariance` says that its `IInv` is inductive (`JournalInvariant` and
`SlotInvariant`: `JournalInv`, `SlotInv`). TLC has checked
`IInv` on the instance of the module's run; the other theorems follow from it.

| module | invariants proved | of every step | implements |
|---|---|---|---|
| `DurableJobs` | `RowsAgree`, `SuccessIsRecorded`, `MarksHold`, `OneJobPerKey` | `OnlyRevocationOrphans` | `FencedTasks` |
| `DurablePublish` | `PublishedAsRequested`, `OneWinnerPerRevision` | `OnlyLateJobsEscape` | `ReleaseChannel`, `FencedTasks` |
| `ChannelRollback` | `RollbackReplacedItsHead`, `RetriesKeepTheRelease` | | `ReleaseChannel` |
| `ChannelCutover` | `RouteHoldsTheHead`, `PublishedInOrder`, `RollbackStaysPossible` (not from `legacy`) | `RollbackRestores`, `ReplacesTheHeadItRead`, `ConflictsAreReal` | |
| `EventDelivery` | `DeliveredIsLogged`, `KeptInOrder`, `OneCallAtATime` | `OverStaysOver`, `LapsedClaimSettlesNothing` | |
| `SessionRotation` | `TokensFollow`, `DevicesFollow` | | `TokenFamilies` |
| `BridgeCommands` | `AtMostOnce`, `OperatorsAreToldTheTruth`, `SettledReceiptsAreKept` | `NothingIsDoneLate`, `OutcomesStay` | |
| `ClientRelease` | `ReleasesAreWhole`, `GamesKeepTheirRelease`, `CheckpointsAreGood`, `NoOlderGeneration` | | |
| `DownloadJournal` | `JobSurvives`, `JobSurvivesAtRest` | | |
| `DownloadSlots` | `OnlyLeasesBlock`; `~Stuck` where mirrors are apart | | |

and `TypeOK` of each.

**DurableJobs.** `RowsAgree` alone is not inductive: a revocation's
commit writes to attempts it marked long before, so the invariant must say that a
marked attempt is still the open one it was, and that once the second UPDATE has
run no job goes on running under a marked attempt without being doomed
(`MarksHold`); and a row that was never inserted has no attempts
(`AbsentIsFresh`). Every action but the trigger's changes rows one at a time:
`JobStepPreserves` reduces it to *this row agrees with this log*, and to marks
that are kept, which follows from the locks. For the refinement each step is
shown to take every job's task one step of `FencedTasks` or none (`StepGoes`,
`GoesAsTask`): a batch lease takes several. The token that a settling leaves in `by`
is the caller's, and it is the holder's because `Holds` has compared it with the
row's.

**DurablePublish.** The invariant adds to the two properties:

* `Named`, `Busy`: requests name packages, busy workers have enqueued jobs and an
  epoch that is not 0;
* `ActiveOnly`: only an active job is leased or doomed. It makes settling a step
  of `FencedTasks`;
* `Escapes`: an active job of a user who is being or was revoked is doomed or
  late. The commit needs the row free of the trigger, hence late;
* `Behind`: a winner saw a revision the head has left. With *its package is
  published* no second job fits the same head or the same package.

All steps but the commit are shown to be `Silent` (they publish and finish
nothing, and each task stutters or makes a step of `FencedTasks`); the commit is
shown to publish one package. Both refinements and the action property follow
from these two lemmas.

**ChannelRollback.** Leases and locks run out under workers that go on, so
neither says who writes. The argument is that a release is published once and
remembers at which revision (`ReleaseHolds`, `HeadHolds`), that nothing makes a
draft again of what was signed (`PublishHolds`), and that of a worker that is
alone with its rollback what it has read of the release is still so
(`WorkerHolds`, `AloneHolds`). `OthersKept` then leaves one worker to look at for
each step. Between a worker's check and its last read its own publish job may have
published the release, over the right head because that job asks for it, or
another's, which is what `slipped` excepts (`Replaced`, `ReadReleasePreserves`).

For the refinement (`ChannelImplemented`) all that a worker does to a release it
stages is shown to publish nothing, and a commit to publish one release that was
never published, because one that was is not `checked` any more.

**ChannelCutover.** The order of generations is not inductive: the check that
keeps it is made outside the transaction that publishes. A check that is stale
belongs to a job whose revision is past (`ChecksHold`), and a revision that is
past does not come back (`RequestAgrees`) - but when a rollback deletes the head,
which it can only do to a channel nobody has published to since the checks
(`EarlyChecksHold`). A job's revision *and* the count of the head's moves are
tied to each other, which gives `ReplacesTheHeadItRead` and `ConflictsAreReal`.

**EventDelivery.** Who calls holds the live lease of its delivery, or its
subscription was deleted meanwhile (`WorkerHolds`); no two who hold one
delivery have the same token (`Apart`); no two events have the same sequence,
given or taken (`LogHolds`). Of a subscription that was deleted nothing is left,
and nobody is sent to it any more (`DeliveriesHold`).

**SessionRotation.** A rotation locks token, then session; a revocation session,
then tokens; a reuse family, then session; a replacement two devices. No order
of locks is relied on: for every place of a transaction the invariant says what it may rely
on, namely what it has read under a lock it still holds (`Refreshing`,
`Withdrawing`, `Rebinding`, `Unbinding`), and a commit changes only rows it has
locked itself (`Respects`), so it leaves what the others rely on alone
(`OthersKept`). For the refinement the one current token of an active session is
its good one (`Good`), and what ends a session spends it.

**BridgeCommands.** A command that is in the journal, with the agent or in a
replica's answer was leased (`JournalFollows`, `AgentFollows`, `RequestsFollow`);
a receipt under way is for what the journal has as done; and what the agent holds
was leased after a poll that found every receipt of its runtime settled, so
it comes after all that is done (`ServesInOrder`), even where numbers became
visible late. The agent settles the receipt with the least number first: that a
finite set has one is shown by a minimal counterexample (`LeastNumber`).

**ClientRelease.** That the files are of one release is inductive once it is
known, for every place of a switch or a recovery, which files are already the new
release's and which still the old one's (`FilesHold`). A recovery can put the
old release back because the backup has held it since before the journal named
it (`StageHolds`, `JournalHolds`), and because no installation writes into a
backup that a journal or a checkpoint names: its id is new (`IdsHold`). The
exception `halfway` is part of the property, as the code has it (section 4).

**DownloadJournal.** Nothing locks the two files, so `JobSurvives` speaks of the
time while nobody has met at them, and `JobSurvivesAtRest` of what is left of one job
when all have gone and nothing has failed. The first is inductive with what a writer who is alone relies on: it
writes the generation after the one that is read, hence over the other file, so a
file that is removed is never the last one (`TurnsTaken`). The second has to do
without: whatever overlaps, a removed file is followed by its rename, and nobody
erases but for a job that is over (`NothingLost`, `ErasersAsked`).

**DownloadSlots.** That every run ends is liveness and stays with TLC; what stands
in its way is a state where nobody can move, and such a state is proved to be
a circle of leases and mirrors (`OnlyLeasesDeadlock`). Slots are kept at their host
only, leases by workers that use the object (`SlotInv`), hence who has nothing to
wait with waits for nobody, and while nobody works the first file of a run may
start. Nobody is therefore ever stuck where no mirror of a file that shares its
object is the first source of such a file (`MirrorsApartNeverBlock`): where files
differ, have no mirrors, or have one and the same list of hosts. That is about the plan
of a run, which the code does not look at; `downloads.cfg`, with two files that
share an object, is such a plan, `downloads_shared.cfg` is none and gets stuck.

**Only model-checked**: every liveness property (`EveryJobEnds`, `EveryOutboxEventEnds`,
`EveryDeliveryEnds`, `EveryRunEnds`, `StopsAreObeyed` and those kept beside the runs:
the prover has no fairness), and that `Stuck` is what `ENABLED` says. No
proof here needs induction over what a recursive definition computes; where
something like induction is needed over a finite set or over numbers,
well-foundedness gives a minimal counterexample.

## 6. Plan

Of what is modelled every invariant and action property of the runs is proved. To be
modelled next:

1. `PublishHooks`: synchronous hooks (`DispatchSync`) and the idempotency keys of
   package and release events.
2. `PackageMutation`: the package lease with its renewal, editors that outlive it,
   and the publish job that competes with them.
3. `ExtensionLifecycle`: install, update, roll back, with a crash at every step.
4. `JoinTickets`: player sessions and one-time tickets of the bridge.
5. `SqliteCutover`: the backend gate and the growth from SQLite to PostgreSQL;
   `Nonces` and `RateLimit` as small modules.

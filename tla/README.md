# A verification of Syncrypt

TLA+ specifications of the program in this repository, TLC configurations that
check them on small instances, and theorems about them that TLAPS checks for
every instance. The first part describes the system and what can go wrong in it,
the second the modules, the third the runs, the fourth the proofs, the fifth the
disagreements found, the last what is left.

Files are cited as `engine.ts:981`; without a directory they are under
`packages/core/src/` (`engine.ts`, `apply.ts`, `remote.ts`, `reclaim-io.ts`
under its `engine/`) or `packages/obsidian-plugin/src/`; `s3/storage.ts` is
`packages/providers/s3/src/storage.ts`, `keyfile.ts` is under
`packages/crypto/src/`.

## 1. The system

Several devices keep an Obsidian vault the same through storage that only holds
objects. There is no server: the devices coordinate by *manifests*, immutable
objects `manifests/<generation>-<device>.json`, and everything else follows from
who wrote which one on top of which.

| Component | State it keeps | Operations | Hard behaviour |
|---|---|---|---|
| Manifest document (`types.ts`, `manifest.ts`, `remote.ts`) | the objects under `manifests/` | read the top, publish, stamp the lineage, parse | two manifests of one generation; a chain built on the loser; a put whose answer is lost; lists that are out of date at once |
| Planner (`plan.ts`) | none, a pure function | `plan`, the bulk-change breaker, the divergence guard | totality of the decision table, case-only collisions, paced deletions |
| Sync engine (`engine.ts`, `apply.ts`) | `base`, the paths `held`, the state file, the queue | `pull`, `push`, `sync`, `dryRun`, `confirmAndApply`, `forgetPaths`, `releaseForgotten`, `forgetBase`, `acceptRolledBack` | a user who edits while a plan is applied; stopping at any point; a base that claims more than was synced |
| Reclamation (`reclaim.ts`, `reclaim-io.ts`, `gc-mark.ts`) | a mark per device in the storage | `previewReclaim`, `reclaimStorage` | objects adopted while being swept, clocks, cancelled sweeps, forked generations |
| Scan and hash cache (`scan.ts`) | the cache (in memory and in the state file) | `scanVault`, encode, decode | unreadable files, saves within the clock's granularity |
| Vault adapter and profile (`vault-adapter.ts`, `profile.ts`) | native spellings of paths, the profile | list, stat, read, write, trash | filesystems that fold case, files locked by others |
| Scheduler (`scheduler.ts`) | two timers, the time of the last sync | `noteChange`, `noteSyncStarted`, `retryLater`, `setOptions` | triggers declined, a clock that steps back, options changed while something is pending |
| Plugin session (`main.ts`, `unlock*.ts`) | the engine, the session number, the running sync, the open dialogs | unlock, lock, `syncNow`, confirm, reclaim, forget | an ended session that is still stopping, answers given after a lock, settings edited while keys are derived |
| Shared configuration (`config-sync*.ts`) | a settings file inside the vault | adopt, publish | publishing before the first pull |
| Identity and state files (`device-identity.ts`, `state-store.ts`) | the device id, the state file per location | resolve, load, save | a copied folder, a second installation |
| Storage providers (`packages/providers`) | uploads in progress, temporary files | put, get, list, stat, delete | conditional puts, retries of what was carried out, multipart uploads |
| Vault keys (`packages/crypto/src/keyfile.ts`) | the keyfile object | open or create | two devices that create it at once |

What a device does in one sync: read the top manifest, scan the vault, decide
which base to trust (`baseFor`), plan, apply the pull side file by file, adopt
the manifest as its base and save it; then read, scan and plan again, upload,
build the next manifest, put it, list again to see whether it stands, and adopt.
Between any two of these steps the user may edit, another device may publish,
the answer may be lost, the program may stop.

What makes the system correct:

- no content a user wrote disappears, unless a user replaced or deleted it;
- what the engine itself replaces or trashes can be fetched again;
- a deletion that reaches other devices was made by a user;
- the base claims only what this device synced, and does not go back by itself;
- every published manifest can be read, and keeps the versions of its parent;
- what the breaker asks about, and only that, is what happens;
- once users pause, the devices end up with the same files;
- what a retained manifest names can be fetched, and a device whose generation lost
  a fork can find out, whatever is reclaimed meanwhile;
- a cached hash hides at most saves within one tick of the filesystem's clock;
- one engine at a time works on a vault, on the location the settings show, and
  publishes nothing under a passphrase nobody checked;
- an edit a trigger is armed for is synced without another edit;
- a vault gets one salt, once, and everything in it can be read with that salt.

`PROJECT.json` lists the components, the hazards with the line each one bites at,
and the source lines behind every definition.

## 2. The modules

    Manifests --> Planner --> SyncEngine --> MCSync --> MCConverge
                      |            |
               PlannerProofs --> SyncProofs --> SyncHistoryProofs --> SyncEditProofs

    Reclaim --> MCReclaim                HashCache --> MCHashCache
       |                                    |
    ReclaimProofs                       HashCacheProofs

    Scheduler --+                        ObjectStore --> VaultKeys --> MCKeys
                +--> Session --> MCSession                |    |
    SharedConfig+       |                OneSalt <--------+    KeysProofs
                  SessionProofs

Four groups, each with the part of the system its hazards live in and as little
of the rest as they need: the engine with its manifests and planner; the objects
and what sweeps them; the plugin around the engine; the storage under it. They are
not one state machine, which no checker could explore. What one group assumes of
another is what the other's runs check, or is said below where it is not:

- SyncEngine assumes atomic puts and complete lists: `StoredIsThere` and
  `ListWhole` of ObjectStore. It also assumes that a manifest's objects are there:
  `Fetchable` of Reclaim.
- SyncEngine assumes one engine per vault and device, in one job at a time:
  `OneEngine` of Session, and the engine's own queue.
- SyncEngine's scan sees what the vault holds: `StaleWithinATick` of HashCache says
  how far that is true.
- SyncEngine's fairness is that syncs are started again: `EditSynced` and
  `EndedStops` of Session are the part of it that depends on the plugin.
- Every group assumes one salt: `SaltChosenOnce` of VaultKeys.

**Manifests** is the document and every pure operation on it. A manifest is a
record of total functions over `Path`: `files`, `tombs`, `history`, the kept
copies (`forgotten`) and the forget `markers`, plus its identity and ancestors. A
content hash stands for the bytes and for the object key derived from them. `Stamped`
is `stampLineage`, `Top` is `readRemote`, `BuildNext`, `ForgetNext` and
`ReleaseNext` are the three ways to build a next manifest, `BaseFor` is
`baseFor` with `WithoutForgotten`, `AdoptPulled` and `AdoptPublished` are the two
arms of `adoptBase`, `Loaded` is `loadStateOnce`.
Two abstractions: a manifest's id is its body instead of a digest of it (so the
digest has no collisions), and the fields `updatedAt` and `writer` are left out of
the body, which makes ids coincide more often than in the code.

**Planner** is `plan.ts`: `Classify` is the decision table, `Collides` the
case-only rule, `Before` the order operations are sorted in (paths are numbers
because they are sorted), `Effective` and `Fires` the breaker with paced
deletions. A plan is its set of operations.

**SyncEngine** is one engine per device over one storage. An operation of the
engine is a *job* that goes through phases, because that is where it can be
interrupted: `pull` (applying file operations), `push` (about to upload),
`ready` (a manifest built and not yet put), `published` (put, not yet confirmed by
the second list). `exclusive` (engine.ts:516) queues operations, so a device has
one job.

| Action | Code |
|---|---|
| `PullBegin`, `FinishPull` | `doPull` before and after `applyPullOps`; the pull half of `applyFull` |
| `ApplyDownload`, `ApplyDeleteLocal`, `ApplyConflict` | one iteration of `applyPullOps` |
| `PushBegin`, `PushFiles` | `doPush` up to its plan; `applyPushOps` and `buildNextManifest` |
| `Publish`, `Relist` | the put and the second list of `publishManifest`, `adoptBase`, `saveState` |
| `Preview`, `ConfirmBegin`, `Dismiss` | `dryRun`, `doConfirmAndApply`, the dialog closed |
| `ForgetBegin`, `ReleaseBegin` | `forgetPaths`, `releaseForgotten` up to their put |
| `ForgetBase`, `AcceptRolledBack` | the same names |
| `Abandon` | an abort signal or an exception at any point of a job |
| `Crash` | the program stops; the next start reads the state file |
| `UserEdit`, `UserDelete`, `UserRestore`, `ChangeProfile`, `Tick`, `StorageRollback` | the world outside |

What is taken in one step and why:

- Reading the storage and scanning the vault, and the uploads of one push: between
  them only steps that commute with them can happen, as the module's header says.
- A file operation of a pull, from its check to its write: `apply.ts:204` says
  that only the write itself remains unprotected, and the model does not open that
  window. The fetch before the check is not atomic with it: the check reads the
  vault as it is when the step is taken.
- `adoptBase` and `saveState`: a save that fails is modelled, a crash between the
  two is a crash just after a save that failed.

Other abstractions: a conflicted copy is put in a set of contents beside the
files (`copies`) and is not scanned as a new file; trash is not modelled, so
content that is only in the trash counts as gone; a file that two native names
share sits out as an unreadable one does; the state file after a restart is
filtered by the profile at the restart; a scan hashes what is there (see
HashCache); puts are atomic and lists complete (see ObjectStore).

Ghost variables (`authored`, `superseded`, `deletions`, `seen`) record what users
did and what each device held; no guard reads them except that a user writes
content nobody wrote before, which loses nothing: equal content is equal.

**MCSync** gives the constants of SyncEngine their values for TLC; **MCConverge**
adds the counter the liveness run needs.

**Reclaim** is storage reclamation beside pushes. Of a manifest only its
generation, its device and the objects it names count. The pure half is
`planReclaim` (`RetainedGenerations`, `Reachable`, `Since`, `CapMark`,
`PlanReclaim`, `Refuses`). A push is `PushUpload` (probe, adopt or put),
`PushConfirm` (`confirmAdopted`), `PushPublish`. `Adopts` says what a probe that was
not answered comes to: a guarded put whose refusal adopts where the storage has
conditional writes (`Conditional`), a plain put otherwise; an adopted object that the
storage says is gone ends a push, one it says nothing about does not. The reclaim command is `Preview`,
`Decline`, `SweepIndex` (the manifests are listed and read), `SweepPlan` (the
objects and the mark, the refusals, the ceiling of what was shown), `SweepObject`,
`PruneManifest`, `SweepEnd` (the mark, whose failure is ignored); `Stop` is a
cancelled or dead job and leaves no mark. Every device has its own clock. Two
assumptions, both the code's own: a push takes less than the grace window
(reclaim.ts:9-14; `Tick` does not pass otherwise), and a clock is set forwards
only while nothing is being pushed. A list that is too short (`ListShort`) is one
the code could notice: empty, or below what every sweeping device has synced. A push
uploads at most one object; several would be several pushes that publish once. The
ghost `timely` holds the manifests published before anybody went on to a higher
generation: a manifest that lands later makes a fork that nobody could have seen when
its generation was judged (section 5), and `LoserFindsOut` speaks of the others.

**HashCache** is the cache for one file, at the grain of single stats and reads:
`ScanStat`, `ScanRead`, `ScanHash`; `PullCheck` and `PullRecheck`
(`stillAsScanned`), `PullTrash`, `PullWrite`, `StatBefore`, `ReadBack`,
`WriteAndRemember`; the push that reads the bytes again; `AdoptAndSave`, `Begin`
(`loadStateOnce`), `ForgetHashCache`. The user saves between any two of them. Time
is in ticks; a file's timestamp and the code's clock round it down, each in its
own way. Other devices are what they publish, and manifests are compared by what
they say of this file: two generations that say the same are not told apart.
A conflict keeps the file and writes beside it, so it needs no step here.

**Scheduler** and **SharedConfig** are values and the operations on them, used by
**Session**: the plugin between Unlock and Lock. A `call` is one `unlock()` at each
of its awaits (`Settled`, `OpenStorage`, `OpenVault`, `Verify`, `TakeEngine`,
`Preflight`); two can be in flight. `job` holds the running sync and the running
maintenance command: `check` (`passphraseChecked`), `reading`, `asking` (a dialog),
`writing`, `config` (the finally block), `failed` (the finally block after an error), `hung` (a read that never answers). `Lock`,
`Unload`, `EditField`, `ImportTicket` with `TicketSaved` or `TicketLost` end a
session; what it had running goes on until it notices. The code compares counters it
captured, `session` and `storageEpoch`, with those of now: here whoever captured
one has a flag that says it moved since. Reads of an ended session reject, a
write is waited for (main.ts:1773-1776). The engine's own work is one read and one
write; durations of the scheduler count only as they stand to its minimum interval.

**ObjectStore** is the S3 provider as several clients use it. A request is one
step at the server: carried out or not, answered or not (`lost`), or answered by a
captive portal (`page`). `Put`, `Confirm` (`confirmStored`), `Initiate`, `Tidy` and
`Sweep` (`abortStrayUploads`), `Part`, `Complete`, `AbortOwn`, `ListPage` with its torn
page, `Delete`. `Retried` is `withRetry`. Retries of reads are one read.

**VaultKeys** is `openVaultCrypto` on it: `FirstLook`, `SecondLook`, `Gate`, `Created`,
`ReadBack`, `Learn`, then uploads, listings and sweeps under the keys derived. A key
is the salt it derives from; an object's key says under which salt it was written.
**OneSalt** is what this promises, in three actions: the salt is chosen once, a
device derives its keys from it, a device forgets them. `SaltChosenOnce` is
`OneSalt!Spec` with the keyfile's body for the salt.

Definitions marked "Mutation of ..." are plausible bugs in the operation they
stand before; substituting one for the operation must make a run fail, which shows
that the run's properties can fail.

## 3. The runs

Two devices in all runs of several. A fork, a rollback, an overtaking, a
confirmation or a race for the salt needs no third: every relation in the code is
between a device and the storage. Contents and clients are interchangeable, hence
the symmetry in the safety runs; no symmetry in a liveness run, nor where numbers
are compared. `LineageDepth` is above `MaxGen`, as 256 is above what a vault usually
forks over (README.md:109 states the limit).

| Run | Asks | Bounds |
|---|---|---|
| `MCPaths` | does anything land on bytes the storage does not have? `NoEditLost`, `OnlyPublishedBytesReplaced` | two paths that fold together, one device that folds case; three contents, three generations, a deletion |
| `MCRestarts` | do edits, deletions, kept versions and bases stay true through forks, ended jobs, restarts, rollbacks, forgets, changed profiles, unreadable files? `TypeOK`, `NoEditLost`, `TombstonesAreDeletions`, `BaseWasHeld`, `VersionsRetained`, `BaseNeverGoesBack` | one path, two contents, four generations; eight budgets of two or three such events; no conditional writes |
| `MCConfirm` | does the breaker's answer cover what is done? `PublishedParses`, `VersionsRetained`, `NothingDestroyedUnseen` | a breaker that asks about everything, two previews, expiring tombstones, devices that keep one version and none |
| `MCConverge` | do the devices become the same and stay so? `Convergence` | one path, two contents, a deletion, seven generations, one overtaking; conditional writes |
| `MCReclaim` | is what is retained still there, and can a fork's loser find out? `Fetchable`, `LoserFindsOut` | two objects, one generation kept, a window of two ticks and a mark of one entry; two or three publications, two commands, one device that sweeps; conditional writes; five budgets, one with a question about an object that is not answered |
| `MCSession` | the seven promises of a session: `OneEngine`, `EngineOnShown`, `UnloadedStays`, `NothingUncheckedPublished`, `NoBlindProfile`, `EndedStops`, `EditSynced` | two unlock calls, two locations, one sync and one command in flight; ten budgets, each one question |
| `MCKeys` | is what a put or a list returns true, and is there one salt? `StoredIsThere`, `NoStray`, `ListWhole`, `Readable`, `SaltChosenOnce` | two clients, two salts, a small and a large content, two parts, one retry, pages of one key; five budgets |
| `MCCache` | what can a cached hash hide? `StaleWithinATick`, `OnlyKnownBytesReplaced` | three contents, two of one length; timestamps and seconds of two ticks, four ticks; two saves, two foreign versions, or one of each with a restart and a re-hash |
| `MCHeldState`, `MCCase`, `MCMark`, `MCRehash` | the first four disagreements of section 5 | as small as they happen in |

Why the bounds are enough to be interesting. The shortest histories of the
hazards are within them: a fork and a chain on the loser need three generations,
a base older than a forget and a re-added file four; an object swept under a
publication needs two sweeps and a tick between them; two salts need two clients
that both believe a 404; a stale hash needs two saves of one length around a read.
Each mutation in the modules is such a bug and is found within minutes. An edit
against a lost fork wants three contents, which only `MCPaths` has; with two, a
second edit of a device is the first content again. Deadlock is not checked: with
contents, generations and rare events used up, an instance has nothing left to do.
Rare events are drawn from budgets (`Budgets`), several per run: a run's initial
states choose one, so a run explores combinations that together would be too
many.

`TombstonesAreDeletions` holds in `MCRestarts` and fails in `MCCase`. It also fails
after a pull that trashed a file and was stopped before it adopted a base: when a user
brings the content back on another device (no budget of `MCRestarts` has both
"restore" and "abandon"), and, with a third device, when the deletion loses a fork.
`NoEditLost` holds in every run, whose lineages are deeper than their histories;
section 5 says what happens beyond. `Fetchable` holds in `MCReclaim` and fails in `MCMark`, whose
one budget has an unwritten mark beside an upload of swept content during a
sweep; every budget of `MCReclaim` lacks one of the three. It also fails with nothing
but two pushes and a sweep that overlap, after more publications than these budgets
have (section 5), and with a short list after a sweep that stopped. `NoBlindProfile` holds in
`MCSession`, where config sync is toggled twice at most, and fails with a third toggle
(section 5). The passing runs say what it takes to break them.

`Fetchable` excuses two losses (`late`), both of an object that a push adopts though
nothing names it any more, and that a sweep had planned before the push published. The
sweep deletes it after the push has checked it: `confirmAdopted` narrows that window to
one publication and says so (apply.ts:443-468). Or the sweep deletes it between the
probe and the check, and the check is not answered: any error but "not found" lets the
push go on (apply.ts:462-463, 474-476), and it publishes what nobody can fetch. Without
this excuse the first budget of `MCReclaim` breaks `Fetchable`. `Fetchable` also needs
conditional writes: with `Conditional` FALSE the same budget breaks it (section 5).
For everything else a manifest names there is no excuse.

`OnlyKnownBytesReplaced` leaves out two windows the code documents: bytes saved after
the last check above the filesystem (`judged`), and bytes saved within one tick of
the file's timestamp with others. `EditSynced` speaks of edits for which a timer is
armed, for as long as triggers are declined, come too early or come during a sync. It
ends where a sync starts and fails with no timer left, which is the case only with the
idle pull off; two budgets of `MCSession` have failures without it, and without that
disjunct TLC finds the edit that waits. Section 5 has this case and the edits that
never had a timer.

**Fairness of Convergence.** Weak fairness of a device's pull and of a push once begun: the
engine carries a job on unless it is stopped, and the scheduler syncs at least
every period. Strong fairness of `PushBegin`: a sync is a pull directly followed
by a push (engine.ts:1409-1417), so a push that is possible again and again
after pulls is made. This is weaker than what the code does, where the push is
queued before another pull.

**Fairness of Session.** Weak fairness of what a job does next, of the last step of an
unlock, of the finally block, of both timers, of the end of the minimum interval:
the event loop runs what is due and requests that do not hang are answered. The
network comes back (how often it goes is bounded). None of the person: a question
may stay unanswered, which `EditSynced` allows for. None of a hung read: that
`EndedStops` holds although `ReadHangs` is never followed by an answer is its point.

**Overtaking.** `Convergence` does not hold without a bound on overtaking. A
device that finds a higher generation after its put counts its publication as
lost (remote.ts:127-131), keeps its base and will do it again; if each device
publishes inside the other's put and second list, forever, they never settle.
Nothing in the code excludes it, only the time a sync takes, so `TimelyNext`
lets it happen `MaxOvertaken` times. With conditional writes nothing changes: the
keys of two devices differ, a conditional put never fails because of another
device, and forks happen just the same.

## 4. The proofs

All from the assumptions declared in the modules: device ids and paths are
numbers (they are ordered), the marks differ from contents and from each other,
`NoManifest` is no manifest, the lineage has positive depth, the vault's paths are
finitely many, `Keep`, `Grace`, `MaxGen`, the breaker's window and the budgets have their
types; of the storage, that keys are numbers and that an object's key has its salt; of a
session, that `Nobody` is neither an engine nor a job nor an unlock. No number of
devices, paths, contents, generations, unlocks, salts, parts, faults or retries is fixed.
Where a theorem needs more it says so as a hypothesis, and a hypothesis that is not
implied by the code is one TLC showed to be needed.

**PlannerProofs**: first the types of all operations of Manifests, and `TopIsWinner`: a
non-empty storage with bounded generations has a top, it is stored, of the
highest generation and of that generation's smallest device. Everything about
`CHOOSE` in the model rests on it. Then the planner: `ClassifyIsThreeWay` (the table, row by row, is the three-way
merge), `ReplacesOnlyWhatWasSynced` (an operation that replaces or removes
something replaces what the base vouches for), `AgreementIsQuiet` (a device that
holds what the storage holds has nothing to do).

**SyncProofs**: `TypeCorrect`. `TypeOK` alone is not inductive: a step of a job uses
its plan against its manifest, and the second list reads `next` as a manifest.
`TypeInv` adds that the stored manifests and clock are bounded, that a pull has a
manifest it pulls from and downloads only what that manifest has, and that what
is ready or published is a manifest. On top of `TypeInv`:

- `PublishedAlwaysParses`. `Readable` says that the stored manifests, the
  manifests jobs have read and the manifests they are about to publish all parse.
  An upload clears its path's tombstone and a tombstone removes its file, so
  `BuildNext` keeps it; `ForgetNext` and `ReleaseNext` only remove files. The same
  argument does not give the base, and must not: `MCHeldState` shows that an
  adopted base need not parse.
- `BaseOnlyAdvances`. `Ahead` says that the manifest a job read is never older
  than the device's base, and what it publishes is one generation newer than what
  it read. The rollback check at the start of a job establishes it, the queue keeps
  it (no other operation of the device moves the base meanwhile), and a storage
  that loses generations while the job runs does not disturb it.

**SyncHistoryProofs**: four more.

- `NoVersionLost`. `Retains` says that every stored manifest, and what a job is about
  to put, keeps what its parent named, and that a manifest's id is its body: the
  lineage names ids, so without that a child could be compared with another parent.
  `BuildNext` keeps versions because `Retain` never cuts below the length it found.
- `BaseVouchesOnlyForHeld`. `AllHeld` follows a pull from its beginning: an entry of
  its manifest is one this device holds, or one it still has to fetch, or its path
  sits this job out. That is decided when the job plans (`ClassifyIsThreeWay`: what
  is no operation is the same on both sides) and used when it adopts.
- `DestroysOnlyWhatWasShown`. What a job still has to destroy is among what was shown
  (`AllShown`). Hypothesis: no device's filesystem confuses two paths (`PathsTold`); one
  that does can replace the file beside the one shown.
- `ReplacesOnlyPublishedBytes`. `AllKept`: what bases, state files and plans name is
  named by the storage, and a put adds a manifest and replaces none, with or without
  conditional writes, because only this device publishes under its name and it has
  read its own generations. Hypothesis: the storage does not lose a manifest. A
  rolled back bucket cannot give back what it lost.

**SyncEditProofs**: what a user cares about, `NoEditIsEverLost` and the truth of
deletions.

`NoEditLost` speaks of files and copies; what threatens them is a base that vouches
for too much. The invariant is `AllSafe`, and one relation runs through it: `Stays`, a
content that was at a path is still there, or was given up. `GivenUp` is what users
have overwritten or deleted, and what stands as a conflicted copy.

- `LineSafe`: along its lineage a manifest still names what each ancestor named, as
  far as `Stays` and the forget markers go. A next manifest keeps that (`NextOfLine`),
  as a push replaces only what its plan found unchanged.
- `BaseSafe`: what a base vouches for is here and in the manifest it is a base of.
- `JobSafe`: what a job replaces, here or in the storage, was given up; a pull has,
  or still fetches, what its manifest names.

They meet in `PlannedSafe`. A base that `baseFor` trusts is an ancestor of the top
manifest, so what it vouches for stays in the top manifest *and* in the vault: where a
side differs from the base, the base's content was given up, and the three-way merge
(`ClassifyIsThreeWay`) replaces just that side. Everything else becomes a copy.

Two hypotheses, each needed, as TLC shows. `InReach`: the top manifest's lineage
reaches the bases. A base further back is trusted if the device owns its generation,
and that generation may have lost a fork. `PathsTold`: no filesystem confuses two paths
of the vault. Section 5 has both losses. `NoEditLostWithinTheLineage` needs the second
only: a vault with fewer generations than a lineage keeps is always in reach.

A tombstone is published where a base vouches for a file that is not there, so the
invariant of the deletions (`AllTold`) says how a file can be missing (`Found`): its
deletion is known, or a pull that is running has trashed it (`Trashed`), which its
own base will say. Two readings of "known" are carried through the same lemmas:

- `TombstonesHaveReasons`: some user deleted the path. This holds whatever is
  stopped, lost or restored; no run checks it, as the second implies it in the runs.
- `TombstonesAreTheDevices`, which states `TombstonesAreDeletions`: the user of the
  tombstone's device did. Hypothesis `Undisturbed`: a pull that began is not stopped and
  saves its base. A pull that is stopped leaves `Trashed` behind with nobody to
  answer for it, and TLC finds the tombstone that names the wrong device.

Both have `PathsTold`: `MCCase` shows the tombstone nobody asked for.

**ReclaimProofs**: `LosersFindOut` and `RetainedCanBeFetched`.

For the first, `ForksStand` is the invariant: the fork a base
lost is listed whole, both manifests of it, and no sweep in progress has planned to
prune it or will (`Spares`). It rests on `NewestStays` (what is gone was not of the
highest generation) and `PrunesBelow`; a base that is adopted later is one of a manifest
that stood. Hypothesis: every device sweeps, or no list is short. Three devices, a
short list and one that never sweeps break it (the proof did not go through, then TLC
found it): what bounds a short list is what the sweeping devices have synced.

For the second, what is retained must not grow. Pruning and publishing keep it so
(`PruneRetains`, `PublishRetains`), with one exception: a push that began before others
published makes a fork of a generation that was already let go of. So `Carries`
says of a push that what was published since it began is still there, besides what it
will publish; `Rests` says of a sweep that it deletes nothing that is retained,
from its list to its last prune. Hypothesis: no sweep beside a push, and no short
list. Stopped sweeps, unwritten marks, clocks that jump, content uploaded again, probes and
checks without an answer and any number of sweeping devices need none, so the grace window has one thing to answer
for, the overlap. TLC shows that the hypotheses are needed: section 5 has an overlap, and
a short list lets a push start below a generation that a stopped sweep has emptied.

**HashCacheProofs**: `CachedHashesNameBytes` and `PullsReplaceKnownBytes`, for every
granularity, seconds of any length and any lengths of contents. The properties speak
of the file as it is; the invariant speaks of timestamps. `Truthful` says of an entry, in
memory or in the state file, that the file had its bytes under its timestamp, or that
neither the file nor any save to come has that timestamp (`Past`). `Fits` carries it
through a job: a stat is older than the bytes read under it, so bytes saved in between
have a later timestamp and leave the stat's in the past. A stat taken after the
write, or bytes read before it, would not do: that is why `Vouched` wants the stat
around the read-back. The racy window (`Aged`) is not used: within one tick both
properties make their exception anyway, and the window only makes that rarer. The
last check before a write compares with what the base or nothing said (`Known`), so
what is written over was published, or shared its tick.

**SessionProofs**, on `SessionInv`. `OneEngine` is not inductive: taking an engine keeps
it because the unlock has waited for all that was stopping (`WaitsForAll`), what runs
belongs to the open session unless a lock has ended it (`Owned`) and without a session
no trigger is armed (`Quiet`). `UnloadedStays` and `ProofsHeld` (what is past its check
has a proof, and so has a session that needs no check) complete it: `OneEngineAtATime`,
`UnloadIsFinal`, `PassphraseWasChecked`. For `EngineIsOnShown`, `OnTrack` says of every
unlock that nobody has flagged that it has the location that is shown and no ticket
is being saved. `NoProfileMadeBlindly` has a hypothesis, `FewFlips`: config sync is
toggled twice at most. `FlipInv` says that a completed pull that did not look for a
profile has used up both. With a third toggle TLC finds the property violated.

**KeysProofs**: on a backend that honours conditional writes (the hypothesis
`ConditionalWrites` of both theorems; the code probes for it), `SpecReadable` and the
refinement `SpecRefines`. `Readable` alone is not inductive: a put in flight may
still write. `Inv` adds that a put that may still write is the guarded one of a
keyfile, or one of an object under the salt that is stored (`PutsSound`), and that
keys derive from the stored salt (`KeysAgree`). Then a guarded put meets either no
keyfile, or is refused (`SaltStays`); and while there is no keyfile nobody has keys
and no object put is in flight (`NoKeysYet`), so the put that stores the first salt
finds no object of another. Every step of a client maps to `Choose`, `Derive`,
`Forget` or a stutter (`StepRefines`).

The hypothesis is needed: with a backend that ignores the headers TLC finds two
devices that each write under their own salt. keyfile.ts:181-183 says "where
supported", and without support only the read-back narrows the race.

On any backend, with the same module: `StoredObjectsAreThere`, `ListingsAreWhole` and
`UploadsAreAccountedFor`.

- A put turns `stored` only in a step after which its object is there, and only a
  sweep, which is remembered, takes it away again.
- `Ahead`: what was there since a listing began is on a page already given or comes
  after the token of the next one. A page of the first keys ends at its largest, and
  what it leaves out is larger (`PageFirst`).
- `Cleans`: an upload that exists was begun by a client that still has its id, or is
  excused (`Begun`); past its cleanup a put answers for one upload only, and what has
  ended for none (`Tidied`); a client that is not working has none (`Resting`).

Checked by TLC only, and why:

- `Fetchable` where pushes and sweeps overlap is not true of every instance: section 3
  says what breaks it. What makes the runs' instances true is the combination of events
  in their budgets, which is no hypothesis worth a theorem.
- `Convergence`, `EndedStops` and `EditSynced`: liveness, beyond the prover.

## 5. Where the code and its documentation disagree

- **A state file that cannot be read back** (`MCHeldState`). A user edits a file
  while a pull is about to trash it. The pull holds the path and adopts a base in
  which it is live (its planned entry) and tombstoned (by the manifest). The next
  start refuses that state (manifest.ts:210) and drops base and cache. engine.ts:1033-1035
  promises that "the base keeps what this device last synced for them". Nothing is lost; the
  vault is hashed again, and differences become conflicts.
- **A case-only name is tombstoned** (`MCCase`). README.md:78-79 and
  case-collision.test.ts:74 say that both files are kept, the second as a
  conflicted copy. They are, until the next push of that device: its base has
  both names, its disk one, so it publishes the deletion of the other, and
  devices that had two files lose one to the trash.
- **A mark that was not written** (`MCMark`). engine.ts:1140-1141 says that this costs
  "one more grace window, never a file". The mark that stays has the clocks of
  objects that are gone; uploaded again, such an object is swept at once, without a
  grace window, before the manifest that names it is published.
- **A re-hash that forgets the base** (`MCRehash`). `forgetHashCache` saves without
  loading first. As the first operation of a session it writes a state file
  without a base, against main.ts:1455 ("and nothing else").

More, found by proofs that did not go through and confirmed with TLC on instances
that no run listed here has:

- **Config sync off and on within one sync.** main.ts:1066-1068 reads the
  setting at the start of a sync, "decided by what was syncable when it scanned, not
  by a toggle flipped while it ran". The vault adapter reads it live, when it scans,
  some awaits later (vault-adapter.ts:46, 87). Off in between and on again, the pull
  could not bring the shared profile, counts as one that found none, and this
  device's settings are published over the vault's (`NoBlindProfile`, with one unlock
  and `flip` 3 as the budget of `MCSession`).
- **A fork made after one half of it was pruned.** reclaim.ts:150 says that
  a forked generation is never pruned. A put that was on its way while a sweep pruned
  the other manifest of its generation lands beside nothing; the next sweep sees no
  fork and prunes it too. The lineage check of `baseFor` still distrusts a base of
  that generation, so no file is lost by this; what is lost is the record
  engine.ts:1014-1015 relies on (`Forked(published) \subseteq Gens(manifests \cup hidden)`,
  with `publish` 3, `command` 2, `content`, `adopt` and `overlap` 1 as the budget of
  `MCReclaim`).

- **A clock of an earlier wait.** reclaim.ts:9-14 bounds the danger by "the duration of
  one push" and measures the window from when an object was first seen unreachable.
  An object that is adopted and let go of again between two runs of the command was
  never seen reachable, and its first clock goes on (reclaim.ts:237). If another device
  then publishes from the manifest that had adopted it, beside the sweep, what it
  publishes names an object that was swept without a wait. Only adopted objects are
  checked again before a publication, not those a parent names (`Fetchable`, with
  `publish` 5, `command` 2, `content`, `adopt` and `overlap` 1 as the budget of
  `MCReclaim`).

- **An edit beyond the lineage.** A manifest names `LINEAGE_DEPTH` = 256 ancestors
  (manifest.ts:86). An older base is trusted unless another device wins its generation
  (`BaseFor`), but a fork may go on from the side that lost: device 2 has read its
  manifest of generation 1 for its next push when device 1 puts and adopts its own,
  which wins that generation. With `LineageDepth` 1 and device 2 at generation 3, the
  next pull of device 1 takes its file for unchanged and writes over the only
  copy of what its user wrote (`NoEditLost`, `MCRestarts` with four contents,
  three generations, that depth and no events). With 256 it takes a device that is away for as
  many generations after such a fork.
- **A change of case under a running pull.** On each of two devices whose filesystems fold
  case, a user moves a file to its other spelling while a pull runs; a publication's
  answer is lost, and a third device, which tells the spellings apart, brings back an
  old content under one of them. A pull then replaces the only file that has an
  edit (`NoEditLost`, with 2 deletions, 3 contents brought back and an abandoned job, eight
  generations and a schedule of 29 steps that TLC follows). case-collision.test.ts covers
  collisions without any of this.

Seen while modelling, and not runs of their own:

- a pull that trashed a file and was stopped before it adopted a base publishes
  that deletion as its own user's, if the content comes back on another device, or if
  the deletion loses a fork between two other devices (`TombstonesAreDeletions`);
- a publication reported as lost ("nothing committed", engine.ts:1394) may be what the
  top manifest descends from (remote.ts:127-131); the report is wrong, the vault is not;
- an upload that loses every attempt to initiate leaves uploads behind that nobody
  aborts, and an upload aborted by another device's cleanup fails for good, as its 404
  is not retried; the next sync makes it again (`NoStray` names both as exceptions);
- after a write the cache takes a fresh stat without the racy window that a scan
  applies (apply.ts:150-155, scan.ts:43-48), so a save in the same tick is hidden, which
  `StaleWithinATick` allows and `OnlyKnownBytesReplaced` names;
- an edit saved before the scheduler exists (between `TakeEngine` and `Preflight`) has
  no trigger of its own if a sync is running then, unless the idle pull is on;
- a sync that a timer starts and that then fails arms nothing (main.ts:1097-1112):
  `retryLater` is for triggers that were declined. With the idle pull off
  (`periodicSec` 0; 900 by default, settings.ts:163) its edits wait for another edit, or
  for a person to sync (`EditSynced` without its last disjunct, with `change` 2, `fail`
  and `clock` 1 as the budget of `MCSession`);
- a check of an adopted object that is not answered publishes although a sweep may have
  deleted the object (apply.ts:462-463), which the code accepts; `late` names it;
- on a storage without conditional writes (WebDAV, say), a probe that is not answered
  is followed by a plain put, which counts as the push's own (apply.ts:391-413). If a
  sweep had planned to delete that very object, it does so after the put, and
  `confirmAdopted`, which would notice, is not asked (`Fetchable`, with `Conditional`
  FALSE in `MCReclaim`).

## 6. What is left

Not modelled, and why: cryptography, key derivation parameters and tickets (no
state to interleave), WebDAV and the filesystem provider (their puts are a
temporary file and a move, a failure model of their own), the signing of requests,
native spellings of paths, the rules of a profile, `setSafeSync` between operations,
two installations on one folder, the history and compare dialogs, the user
interface, text and logging, the SDK's wiring, the recovery script.

Next:

- a specification of what a vault promises, with SyncEngine shown to implement it:
  its invariants would be `AllSafe` and `AllTold`;
- `Fetchable` where pushes and sweeps overlap, under a hypothesis about the grace window.

----------------------------- MODULE SyncEngine -----------------------------
(***************************************************************************)
(* The sync engine of packages/core/src/engine (engine.ts, apply.ts,       *)
(* remote.ts), one instance per device, over one shared storage.           *)
(*                                                                         *)
(* An operation of the engine is a job: it reads the storage and the vault *)
(* once, decides, then applies its decision step by step while the user    *)
(* keeps editing and the other devices keep publishing.  Operations of one *)
(* device are queued (exclusive), so a device has at most one job.         *)
(*                                                                         *)
(* Reading the storage and scanning the vault are one step: between the    *)
(* two only the user of this device and the other devices move, their      *)
(* steps commute, so every outcome is the outcome of some order in which   *)
(* both reads are adjacent.  The uploads of one push are one step for the  *)
(* same reason: each reads one path, and nobody sees the objects before    *)
(* the manifest that names them.                                           *)
(***************************************************************************)
EXTENDS Planner

CONSTANTS
    Tuning,       \* the breaker's options, [floor, maxFiles, fraction, ...]
    Keep,         \* [Device -> Nat]: versionsToKeep
    Grace,        \* tombstoneGraceSeconds, 0 to keep tombstones for ever
    Conditional,  \* capabilities().conditionalWrites of the storage
    CaseBlind,    \* the devices whose filesystem confuses paths that fold alike
    Profile,      \* the sync profiles a user may choose from
    MaxGen,       \* bound on generations
    MaxNow,       \* bound on the clock
    Budgets       \* SUBSET [Fault -> Nat]: bounds on the rare events, any of them

ASSUME CaseBlindAssumption == CaseBlind \subseteq Device

Fault == {"delete", "restore", "tick", "profile", "unreadable", "locked",
          "abandon", "unsaved", "crash", "rollback", "forgetBase",
          "forget", "release", "preview"}

ASSUME ParameterAssumption ==
    /\ IsFiniteSet(Path)
    /\ Keep \in [Device -> Nat]
    /\ Grace \in Nat
    /\ Profile \subseteq SUBSET Path
    /\ MaxGen \in Nat
    /\ Budgets \subseteq [Fault -> Nat]

\* The burst window is a length of time (plan.ts, deletionBurstWindow).
ASSUME WindowAssumption == Tuning.window \in Nat

Side == Hash \cup {Absent}

Op == [path : Path, kind : PullKinds \cup PushKinds, local : Side]

Phase == {"idle", "pull", "push", "ready", "published"}

Job == [phase   : Phase,
        full    : BOOLEAN,          \* confirmAndApply: pull half, then push half
        remote  : MaybeManifest,    \* the top manifest this job read
        planned : MaybeManifest,    \* the base it planned against
        plan    : SUBSET Op,        \* what it decided
        todo    : SUBSET Op,        \* what it still has to apply
        held    : SUBSET Path,      \* paths that sit this job out
        next    : MaybeManifest,    \* what it publishes
        changed : SUBSET Path]      \* the paths that publication changes

VARIABLES
    vault,       \* [Device -> [Path -> Side]]: the user's files
    copies,      \* [Device -> SUBSET Hash]: conflicted copies beside them
    profile,     \* [Device -> SUBSET Path]: the paths a device carries
    base,        \* [Device -> MaybeManifest]: Engine.base, in memory
    saved,       \* [Device -> MaybeManifest]: the base in the state file
    job,         \* [Device -> Job]
    shown,       \* [Device -> keys]: what a preview offered for confirmation
    store,       \* the manifests in the storage
    now,         \* the clock
    left,        \* [Fault -> Nat]: what remains of the budget
    authored,    \* ghost: contents some user has written
    superseded,  \* ghost: contents a user has overwritten or deleted
    deletions,   \* ghost: <<device, path>> a user has deleted
    seen         \* ghost: [Device -> SUBSET Hash]: what a device has held

files   == <<vault, copies>>
state   == <<base, saved>>
ghosts  == <<authored, superseded, deletions, seen>>
vars    == <<vault, copies, profile, base, saved, job, shown, store, now, left,
             authored, superseded, deletions, seen>>

IdleJob == [phase |-> "idle", full |-> FALSE, remote |-> NoManifest,
            planned |-> NoManifest, plan |-> {}, todo |-> {}, held |-> {},
            next |-> NoManifest, changed |-> {}]

Idle(d) == job[d].phase = "idle"

Spend(f) == left[f] > 0 /\ left' = [left EXCEPT ![f] = @ - 1]

Init ==
    /\ vault = [d \in Device |-> [p \in Path |-> Absent]]
    /\ copies = [d \in Device |-> {}]
    /\ profile = [d \in Device |-> Path]
    /\ base = [d \in Device |-> NoManifest]
    /\ saved = [d \in Device |-> NoManifest]
    /\ job = [d \in Device |-> IdleJob]
    /\ shown = [d \in Device |-> {}]
    /\ store = {}
    /\ now = 0
    /\ left \in Budgets
    /\ authored = {}
    /\ superseded = {}
    /\ deletions = {}
    /\ seen = [d \in Device |-> {}]

---------------------------------------------------------------------------
(* The users.  They act at any time, a running job included.               *)

\* Where a device's filesystem finds a path: the file that is there under a
\* spelling it does not tell apart, or the path itself.
At(d, p) ==
    IF d \in CaseBlind /\ \E q \in Path : Fold[q] = Fold[p] /\ vault[d][q] # Absent
    THEN CHOOSE q \in Path : Fold[q] = Fold[p] /\ vault[d][q] # Absent
    ELSE p

\* Mutation of FileAt: the scan's spelling is asked, not the filesystem.
FileSpelled(d, p) == vault[d][p]

FileAt(d, p) == vault[d][At(d, p)]

\* A user writes content nobody has written before.
UserEdit(d, p) ==
    /\ At(d, p) = p
    /\ \E h \in Hash \ authored :
         /\ vault' = [vault EXCEPT ![d][p] = h]
         /\ authored' = authored \cup {h}
         /\ seen' = [seen EXCEPT ![d] = @ \cup {h}]
    /\ superseded' = superseded \cup ({vault[d][p]} \cap Hash)
    /\ UNCHANGED <<copies, profile, state, job, shown, store, now, left, deletions>>

UserDelete(d, p) ==
    /\ vault[d][p] # Absent
    /\ Spend("delete")
    /\ vault' = [vault EXCEPT ![d][p] = Absent]
    /\ superseded' = superseded \cup {vault[d][p]}
    /\ deletions' = deletions \cup {<<d, p>>}
    /\ UNCHANGED <<copies, profile, state, job, shown, store, now, authored, seen>>

\* A user brings back content written before: an undo, a history restore.  What
\* it replaces is superseded; the old content itself stays so, as one copy of
\* it is not told from another.
UserRestore(d, p) ==
    /\ At(d, p) = p
    /\ Spend("restore")
    /\ \E h \in authored \ {vault[d][p]} :
         /\ vault' = [vault EXCEPT ![d][p] = h]
         /\ seen' = [seen EXCEPT ![d] = @ \cup {h}]
         /\ superseded' = superseded \cup ({vault[d][p]} \cap Hash)
    /\ UNCHANGED <<copies, profile, state, job, shown, store, now, authored, deletions>>

\* ObsidianVault.setProfile, called between syncs.
ChangeProfile(d) ==
    /\ Idle(d)
    /\ Spend("profile")
    /\ \E paths \in Profile \ {profile[d]} : profile' = [profile EXCEPT ![d] = paths]
    /\ UNCHANGED <<files, state, job, shown, store, now, ghosts>>

Tick ==
    /\ now < MaxNow
    /\ now' = now + 1
    /\ UNCHANGED <<files, profile, state, job, shown, store, left, ghosts>>

---------------------------------------------------------------------------
(* What every job starts from.                                             *)

\* scanVault: the carried files that could be read.
Scan(d, unreadable) ==
    [p \in Path |-> IF p \in profile[d] \ unreadable THEN vault[d][p] ELSE Absent]

\* The files that are there and a scan may fail to read, within the budget.
Unreadable(d) ==
    {U \in SUBSET {p \in profile[d] : vault[d][p] # Absent} :
        Cardinality(U) <= left["unreadable"]}

Planned(d) == BaseFor(base[d], store)

PlanFor(d, unreadable) ==
    PlanOps(Scan(d, unreadable), Planned(d), Top(store), profile[d] \ unreadable)

OpsOf(ops, kinds) == {o \in ops : o.kind \in kinds}

\* A job that has read, scanned and planned.
Planning(d, unreadable, phase, full, todo) ==
    [phase |-> phase, full |-> full, remote |-> Top(store), planned |-> Planned(d),
     plan |-> PlanFor(d, unreadable), todo |-> todo, held |-> unreadable,
     next |-> NoManifest, changed |-> {}]

Stops(d, unreadable) ==
    RequiresConfirmation(Scan(d, unreadable), PlanFor(d, unreadable),
                         Top(store), Tuning)

Charge(unreadable) ==
    left' = [left EXCEPT !["unreadable"] = @ - Cardinality(unreadable)]

---------------------------------------------------------------------------
(* pull                                                                    *)

\* doPull, up to the first operation it applies.
PullBegin(d) ==
    /\ Idle(d)
    /\ store # {}
    /\ ~RolledBack(base[d], store)
    /\ \E U \in Unreadable(d) :
         /\ ~Stops(d, U)
         /\ job' = [job EXCEPT ![d] =
                     Planning(d, U, "pull", FALSE, OpsOf(PlanFor(d, U), PullKinds))]
         /\ Charge(U)
    /\ UNCHANGED <<files, profile, state, shown, store, now, ghosts>>

\* The next operation of the pull, in the order the plan sorted them.
NextPullOp(d, op) ==
    /\ job[d].phase = "pull"
    /\ op \in OpsOf(job[d].todo, PullKinds)
    /\ \A o \in job[d].todo : ~Before(o, op)

Done(d, op) == [job EXCEPT ![d].todo = @ \ {op}]

DoneHeld(d, op) == [job EXCEPT ![d].todo = @ \ {op}, ![d].held = @ \cup {op.path}]

\* Mutation of StillAsScanned: what the scan saw is trusted.
TrustScan(d, op) == TRUE

\* stillAsScanned: the file at the path is the one the scan hashed.
StillAsScanned(d, op) == FileAt(d, op.path) = op.local

\* writeAndRemember, at the path or at a conflicted copy's path beside it.
WriteFile(d, p, h) ==
    /\ vault' = [vault EXCEPT ![d][At(d, p)] = h]
    /\ seen' = [seen EXCEPT ![d] = @ \cup {h}]
    /\ UNCHANGED copies

WriteCopy(d, h) ==
    /\ copies' = [copies EXCEPT ![d] = @ \cup {h}]
    /\ seen' = [seen EXCEPT ![d] = @ \cup {h}]
    /\ UNCHANGED vault

\* applyPullOps, download: fetched, then checked, then written.
ApplyDownload(d) ==
    /\ \E op \in job[d].todo :
         LET fetched == job[d].remote.files[op.path]
         IN  /\ NextPullOp(d, op)
             /\ op.kind = "download"
             /\ \/ /\ StillAsScanned(d, op)
                   /\ WriteFile(d, op.path, fetched)
                   /\ job' = Done(d, op)
                \/ /\ ~StillAsScanned(d, op)
                   /\ op.local = Absent
                   /\ WriteCopy(d, fetched)
                   /\ job' = Done(d, op)
                \/ /\ ~StillAsScanned(d, op)
                   /\ op.local # Absent
                   /\ job' = DoneHeld(d, op)
                   /\ UNCHANGED <<files, seen>>
    /\ UNCHANGED <<profile, state, shown, store, now, left,
                   authored, superseded, deletions>>

\* applyPullOps, delete-local: into the trash, unless the file has changed or
\* could not be moved.
ApplyDeleteLocal(d) ==
    /\ \E op \in job[d].todo :
         /\ NextPullOp(d, op)
         /\ op.kind = "deleteLocal"
         /\ \/ /\ FileAt(d, op.path) \in {op.local, Absent}
               /\ vault' = [vault EXCEPT ![d][At(d, op.path)] = Absent]
               /\ job' = Done(d, op)
               /\ UNCHANGED left
            \/ /\ FileAt(d, op.path) \notin {op.local, Absent}
               /\ job' = DoneHeld(d, op)
               /\ UNCHANGED <<vault, left>>
            \/ /\ FileAt(d, op.path) = op.local
               /\ Spend("locked")
               /\ job' = DoneHeld(d, op)
               /\ UNCHANGED vault
    /\ UNCHANGED <<copies, profile, state, shown, store, now, ghosts>>

\* applyPullOps, conflict: both versions are kept, an edit beats a deletion.
ApplyConflict(d) ==
    /\ \E op \in job[d].todo :
         LET theirs == job[d].remote.files[op.path]
         IN  /\ NextPullOp(d, op)
             /\ op.kind = "conflict"
             /\ \/ /\ theirs # Absent
                   /\ op.local = Absent /\ FileAt(d, op.path) = Absent
                   /\ WriteFile(d, op.path, theirs)
                \/ /\ theirs # Absent
                   /\ op.local # Absent \/ FileAt(d, op.path) # Absent
                   /\ WriteCopy(d, theirs)
                \/ /\ theirs = Absent
                   /\ UNCHANGED <<files, seen>>
             /\ job' = Done(d, op)
    /\ UNCHANGED <<profile, state, shown, store, now, left,
                   authored, superseded, deletions>>

\* adoptBase then saveState; a save that throws leaves the base in memory only.
Adopt(d, b) ==
    /\ base' = [base EXCEPT ![d] = b]
    /\ \/ /\ saved' = [saved EXCEPT ![d] = b]
          /\ UNCHANGED left
       \/ /\ Spend("unsaved")
          /\ UNCHANGED saved

\* Mutation of PullApplied: the base is adopted after an abort too.
AbortedOrNot(d) == TRUE

\* Every pull operation was applied: res.aborted is false.
PullApplied(d) == OpsOf(job[d].todo, PullKinds) = {}

\* The end of doPull, and of the pull half of applyFull.
FinishPull(d) ==
    /\ job[d].phase = "pull"
    /\ PullApplied(d)
    /\ LET b == AdoptPulled(job[d].remote, job[d].planned, job[d].held, profile[d])
       IN  /\ Adopt(d, b)
           /\ job' = [job EXCEPT ![d] =
                        IF saved'[d] = b /\ job[d].full /\ job[d].todo # {}
                        THEN [job[d] EXCEPT !.phase = "push", !.planned = b]
                        ELSE IdleJob]
    /\ UNCHANGED <<files, profile, shown, store, now, ghosts>>

---------------------------------------------------------------------------
(* push                                                                    *)

\* doPush, up to its first upload.
PushBegin(d) ==
    /\ Idle(d)
    /\ GenOf(Top(store)) < MaxGen
    /\ ~RolledBack(base[d], store)
    /\ ~PullFirst(Planned(d), Top(store))
    /\ \E U \in Unreadable(d) :
         LET ops == PlanFor(d, U)
         IN  /\ ~Stops(d, U)
             /\ OpsOf(ops, {"conflict"}) = {}
             /\ OpsOf(ops, PushKinds) # {}
             /\ job' = [job EXCEPT ![d] =
                         Planning(d, U, "push", FALSE, OpsOf(ops, PushKinds))]
             /\ Charge(U)
    /\ UNCHANGED <<files, profile, state, shown, store, now, ghosts>>

(***************************************************************************)
(* applyPushOps, then buildNextManifest: every upload reads its file again *)
(* and describes the bytes it read; a file that is gone or locked by now   *)
(* sits the run out; nothing pushed publishes nothing.                     *)
(***************************************************************************)
PushFiles(d) ==
    /\ job[d].phase = "push"
    /\ \E locked \in {L \in SUBSET {o.path : o \in OpsOf(job[d].todo, {"upload"})} :
                        Cardinality(L) <= left["locked"]} :
         LET uploads == {o.path : o \in OpsOf(job[d].todo, {"upload"})} \ locked
             uploaded == [p \in Path |-> IF p \in uploads THEN FileAt(d, p) ELSE Absent]
             tombstoned == {o.path : o \in OpsOf(job[d].todo, {"deleteRemote"})}
             changed == {p \in Path : uploaded[p] # Absent} \cup tombstoned
             body == BuildNext(job[d].remote, GenOf(job[d].remote) + 1, d,
                               uploaded, tombstoned, Keep[d], now, Grace)
         IN  /\ job' = [job EXCEPT ![d] =
                          IF changed = {} THEN IdleJob
                          ELSE [job[d] EXCEPT !.phase = "ready", !.todo = {},
                                  !.next = Stamped(body, job[d].remote),
                                  !.changed = changed]]
             /\ left' = [left EXCEPT !["locked"] = @ - Cardinality(locked)]
    /\ UNCHANGED <<files, profile, state, shown, store, now, ghosts>>

\* publishManifest, the put: create-if-absent where the storage can.
Publish(d) ==
    /\ job[d].phase = "ready"
    /\ IF Conditional /\ KeyTaken(store, job[d].next)
       THEN /\ job' = [job EXCEPT ![d] = IdleJob]
            /\ UNCHANGED store
       ELSE /\ job' = [job EXCEPT ![d].phase = "published"]
            /\ store' = Put(store, job[d].next)
    /\ UNCHANGED <<files, profile, state, shown, now, left, ghosts>>

\* publishManifest, the re-LIST, and the adoption of what was published.
Authoritative(d) ==
    /\ GenOf(Top(store)) <= job[d].next.gen
    /\ IsWinner(store, job[d].next)

Relist(d) ==
    /\ job[d].phase = "published"
    /\ \/ /\ Authoritative(d)
          /\ Adopt(d, AdoptPublished(job[d].next, job[d].planned, job[d].changed,
                                     profile[d]))
       \/ /\ ~Authoritative(d)
          /\ UNCHANGED <<state, left>>
    /\ job' = [job EXCEPT ![d] = IdleJob]
    /\ UNCHANGED <<files, profile, shown, store, now, ghosts>>

---------------------------------------------------------------------------
(* confirmAndApply                                                         *)

\* dryRun: the plan a person is shown.
Preview(d) ==
    /\ Idle(d)
    /\ Spend("preview")
    /\ shown' = [shown EXCEPT ![d] = DestructiveKeys(PlanFor(d, {}))]
    /\ UNCHANGED <<files, profile, state, job, store, now, ghosts>>

\* Mutation of StillShown: the plan a person saw is taken for the plan of now.
ShownOnce(d, unreadable) == TRUE

\* The check of the fresh plan against what was confirmed.
StillShown(d, unreadable) == DestructiveKeys(PlanFor(d, unreadable)) \subseteq shown[d]

\* doConfirmAndApply: plan afresh; anything destructive not shown stops it.
ConfirmBegin(d) ==
    /\ Idle(d)
    /\ shown[d] # {}
    /\ GenOf(Top(store)) < MaxGen
    /\ ~RolledBack(base[d], store)
    /\ \E U \in Unreadable(d) :
         /\ StillShown(d, U)
         /\ job' = [job EXCEPT ![d] =
                     Planning(d, U, IF store = {} THEN "push" ELSE "pull", TRUE,
                              IF store = {} THEN OpsOf(PlanFor(d, U), PushKinds)
                                            ELSE PlanFor(d, U))]
         /\ Charge(U)
    /\ UNCHANGED <<files, profile, state, shown, store, now, ghosts>>

\* The person closes the dialog, or the confirmed plan was found stale.
Dismiss(d) ==
    /\ Idle(d)
    /\ shown[d] # {}
    /\ shown' = [shown EXCEPT ![d] = {}]
    /\ UNCHANGED <<files, profile, state, job, store, now, left, ghosts>>

---------------------------------------------------------------------------
(* forgetPaths, releaseForgotten                                           *)

Publishing(d, body, changed) ==
    [phase |-> "ready", full |-> FALSE, remote |-> Top(store), planned |-> Planned(d),
     plan |-> {}, todo |-> {}, held |-> {},
     next |-> Stamped(body, Top(store)), changed |-> changed]

ForgetBegin(d) ==
    /\ Idle(d)
    /\ store # {}
    /\ GenOf(Top(store)) < MaxGen
    /\ ~RolledBack(base[d], store)
    /\ Spend("forget")
    /\ \E gone \in (SUBSET {p \in Path : Top(store).files[p] # Absent}) \ {{}} :
         job' = [job EXCEPT ![d] =
                   Publishing(d, ForgetNext(Top(store), GenOf(Top(store)) + 1, d, gone), gone)]
    /\ UNCHANGED <<files, profile, state, shown, store, now, ghosts>>

ReleaseBegin(d) ==
    /\ Idle(d)
    /\ store # {}
    /\ GenOf(Top(store)) < MaxGen
    /\ ~RolledBack(base[d], store)
    /\ Top(store).forgotten # {}
    /\ Spend("release")
    /\ job' = [job EXCEPT ![d] =
                 Publishing(d, ReleaseNext(Top(store), GenOf(Top(store)) + 1, d), {})]
    /\ UNCHANGED <<files, profile, state, shown, store, now, ghosts>>

---------------------------------------------------------------------------
(* The base as a person manages it, and what can go wrong.                 *)

DropBase(d) ==
    /\ base' = [base EXCEPT ![d] = NoManifest]
    /\ saved' = [saved EXCEPT ![d] = NoManifest]

ForgetBase(d) ==
    /\ Idle(d)
    /\ Spend("forgetBase")
    /\ DropBase(d)
    /\ UNCHANGED <<files, profile, job, shown, store, now, ghosts>>

\* acceptRolledBack: checked again when it happens.
AcceptRolledBack(d) ==
    /\ Idle(d)
    /\ RolledBack(base[d], store)
    /\ DropBase(d)
    /\ UNCHANGED <<files, profile, job, shown, store, now, left, ghosts>>

\* A job ends early: an abort between two operations, or an exception.  After
\* the put this is an answer that never came, the generation is out there.
Abandon(d) ==
    /\ ~Idle(d)
    /\ Spend("abandon")
    /\ job' = [job EXCEPT ![d] = IdleJob]
    /\ UNCHANGED <<files, profile, state, shown, store, now, ghosts>>

\* The program stops; the next start loads the state file.
Crash(d) ==
    /\ Spend("crash")
    /\ job' = [job EXCEPT ![d] = IdleJob]
    /\ shown' = [shown EXCEPT ![d] = {}]
    /\ base' = [base EXCEPT ![d] = Loaded(saved[d], profile[d])]
    /\ UNCHANGED <<files, profile, saved, store, now, ghosts>>

\* The storage loses its newest generation (a restored bucket).
StorageRollback ==
    /\ store # {}
    /\ Spend("rollback")
    /\ store' = {m \in store : m.gen # GenOf(Top(store))}
    /\ UNCHANGED <<files, profile, state, job, shown, now, ghosts>>

---------------------------------------------------------------------------

User(d) ==
    \/ \E p \in Path : UserEdit(d, p) \/ UserDelete(d, p) \/ UserRestore(d, p)
    \/ ChangeProfile(d)

Pull(d) ==
    PullBegin(d) \/ ApplyDownload(d) \/ ApplyDeleteLocal(d) \/ ApplyConflict(d)
    \/ FinishPull(d)

PushSteps(d) == PushFiles(d) \/ Publish(d) \/ Relist(d)

Engine(d) ==
    \/ Pull(d)
    \/ PushBegin(d) \/ PushSteps(d)
    \/ Preview(d) \/ ConfirmBegin(d) \/ Dismiss(d)
    \/ ForgetBegin(d) \/ ReleaseBegin(d)
    \/ ForgetBase(d) \/ AcceptRolledBack(d)

Next ==
    \/ \E d \in Device : User(d) \/ Engine(d) \/ Abandon(d) \/ Crash(d)
    \/ Tick
    \/ StorageRollback

Spec == Init /\ [][Next]_vars

(***************************************************************************)
(* The scheduler syncs each device again and again, and a sync is a pull   *)
(* followed by a push: a job that began is carried on, pulls keep coming,  *)
(* and a push that stays possible after every pull is eventually made.     *)
(***************************************************************************)
Fairness ==
    \A d \in Device :
        WF_vars(Pull(d)) /\ SF_vars(PushBegin(d)) /\ WF_vars(PushSteps(d))

---------------------------------------------------------------------------
(* Properties.                                                             *)

Keys == PullKinds \X Path \cup PushKinds \X Path

(***************************************************************************)
(* Every variable holds what the code keeps there; the budgets never run   *)
(* below zero.                                                             *)
(***************************************************************************)
TypeOK ==
    /\ vault \in [Device -> [Path -> Side]]
    /\ copies \in [Device -> SUBSET Hash]
    /\ profile \in [Device -> SUBSET Path]
    /\ base \in [Device -> MaybeManifest]
    /\ saved \in [Device -> MaybeManifest]
    /\ job \in [Device -> Job]
    /\ shown \in [Device -> SUBSET Keys]
    /\ store \in SUBSET Manifest
    /\ now \in Nat
    /\ left \in [Fault -> Nat]
    /\ authored \in SUBSET Hash
    /\ superseded \in SUBSET Hash
    /\ deletions \in SUBSET (Device \X Path)
    /\ seen \in [Device -> SUBSET Hash]

(***************************************************************************)
(* The reason this engine exists: content a user wrote, and that no user   *)
(* has since overwritten or deleted, is still somebody's file or stands    *)
(* beside one as a conflicted copy - through forks, aborted jobs, edits    *)
(* made while a pull is applying, lost bases and restored buckets.         *)
(***************************************************************************)
Visible == {vault[d][p] : d \in Device, p \in Path} \cup UNION {copies[d] : d \in Device}

NoEditLost == authored \ superseded \subseteq Visible

(***************************************************************************)
(* Whatever the engine takes out of a user's file, by a download over it   *)
(* or a move to the trash, is content some manifest in the storage names,  *)
(* live, retained or kept: it can be had back.  A file whose bytes were    *)
(* never published is never touched.                                       *)
(***************************************************************************)
Names(m) == {m.files[p] : p \in Path}
              \cup (UNION {{m.history[p][i] : i \in DOMAIN m.history[p]} : p \in Path})
              \cup m.forgotten

Recoverable == UNION {Names(m) : m \in store}

OnlyPublishedBytesReplaced ==
    [][(\E d \in Device : ApplyDownload(d) \/ ApplyDeleteLocal(d) \/ ApplyConflict(d))
         => \A d \in Device, p \in Path :
              vault[d][p] \notin {Absent, vault'[d][p]} => vault[d][p] \in Recoverable]_vars

(***************************************************************************)
(* A tombstone in the storage says that the user of its device deleted     *)
(* that path: an aborted pull, an unreadable file, a narrowed or widened   *)
(* profile or a base lost and found is never published as a deletion.  It  *)
(* need not be so after a pull that trashed a file and was stopped before  *)
(* its base was saved: if a user brings the content back, or with a third  *)
(* device and a fork.  No budget of the two-device runs has what it takes. *)
(***************************************************************************)
TombstonesAreDeletions ==
    \A m \in store, p \in Path :
        m.tombs[p] # Absent => <<m.tombs[p].dev, p>> \in deletions

(***************************************************************************)
(* A base vouches only for contents this device has held, as its file or   *)
(* as a copy beside it: never for a file another device published that it  *)
(* did not fetch, and never for one outside its profile.                   *)
(***************************************************************************)
BaseWasHeld ==
    \A d \in Device, p \in Path : FilesOf(base[d])[p] \in seen[d] \cup {Absent}

(***************************************************************************)
(* A device's base never goes back to an older generation by itself: only  *)
(* a person dropping it, or a restart from an older state file, does that. *)
(***************************************************************************)
BaseNeverGoesBack ==
    [][\A d \in Device :
         GenOf(base'[d]) < GenOf(base[d])
            => base'[d] \in {NoManifest, Loaded(saved[d], profile[d])}]_vars

(***************************************************************************)
(* Everything published can be read again: a path is live or tombstoned,   *)
(* never both, or every device would refuse the top manifest.              *)
(***************************************************************************)
PublishedParses == \A m \in store : Parses(m)

(***************************************************************************)
(* No publication loses a version: what the parent named, its child still  *)
(* names - as a file, in a history no device's setting may shorten, or     *)
(* kept after a forget - unless the history was full, a tombstone expired, *)
(* or the copies were released.                                            *)
(***************************************************************************)
Expired(n, m, p) == n.tombs[p] # Absent /\ m.tombs[p] = Absent /\ m.files[p] = Absent

Released(n, m) == n.forgotten # {} /\ m.forgotten = {}

HistoryFull(n, m, p) ==
    LET found == Len(n.history[p])
    IN  Len(m.history[p]) = IF Keep[m.dev] > found THEN Keep[m.dev] ELSE found

VersionsAt(n, p) == ({n.files[p]} \ {Absent}) \cup {n.history[p][i] : i \in DOMAIN n.history[p]}

VersionsRetained ==
    \A m \in store :
        m.anc # <<>> =>
            LET n == m.anc[1]
            IN  \/ Released(n, m)
                \/ /\ n.forgotten \subseteq m.forgotten
                   /\ \A p \in Path : \/ VersionsAt(n, p) \subseteq Names(m)
                                      \/ HistoryFull(n, m, p)
                                      \/ Expired(n, m, p)

(***************************************************************************)
(* Under a breaker set to ask about everything, a person has been shown    *)
(* every file the engine replaces or trashes here and every deletion it    *)
(* publishes, whatever moved between the preview and the confirmation.     *)
(***************************************************************************)
AsksAboutEverything == Tuning.floor = 0 /\ Tuning.maxFiles = 1

NothingDestroyedUnseen ==
    [][AsksAboutEverything =>
        \A d \in Device, p \in Path :
          /\ Pull(d) /\ vault[d][p] \notin {Absent, vault'[d][p]}
               => {<<"download", p>>, <<"deleteLocal", p>>} \cap shown[d] # {}
          /\ PushSteps(d) /\ FilesOf(job[d].remote)[p] # Absent
                          /\ job[d].phase = "ready" /\ job[d].next.tombs[p] # Absent
               => <<"deleteRemote", p>> \in shown[d]]_vars

(***************************************************************************)
(* The state file a device wrote is one it can read back: a restart keeps  *)
(* what this device last synced, held paths included.                      *)
(***************************************************************************)
StateFileReadable == \A d \in Device : saved[d] # NoManifest => Parses(saved[d])

(***************************************************************************)
(* Once the users pause for good, the devices' files become the same and   *)
(* stay the same: forks, conflicts and edit-against-delete all settle.     *)
(***************************************************************************)
Convergence == <>[](\A d, e \in Device : vault[d] = vault[e])

=============================================================================

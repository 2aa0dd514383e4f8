------------------------------ MODULE HashCache ------------------------------
(***************************************************************************)
(* The hash cache, for one file: scanVault and the persisted form of       *)
(* packages/core/src/scan.ts, stillAsScanned and writeAndRemember of       *)
(* engine/apply.ts, the read-back of obsidian-plugin/src/vault-adapter.ts, *)
(* and load, save and forgetHashCache of engine/engine.ts.                 *)
(*                                                                         *)
(* The cache answers for a file whose size and mtime it knows.  The user   *)
(* saves at any moment, the job reads at others, and timestamps are coarser *)
(* than both.  SyncEngine has the plan and several devices; here other     *)
(* devices are what they publish, and a push finds the storage's entry for *)
(* the file as it planned, or gives up.                                    *)
(***************************************************************************)
EXTENDS Naturals

CONSTANTS
    Content,        \* what a file can hold; a hash is its content
    Length,         \* [Content -> Nat]
    Granularity,    \* ticks to one value of a file timestamp
    Second,         \* ticks to a second, the unit of clock.now()
    MaxNow,         \* bound on time
    Budgets,        \* SUBSET [Rare -> Nat]: bounds on the rare events, any of them
    Nothing         \* no file, no entry, no hash

(***************************************************************************)
(* edit: the user saves or deletes the file.  other: another device        *)
(* publishes a version or a deletion.  crash: the app ends.  rehash: the   *)
(* user asks for the vault to be re-hashed.                                *)
(***************************************************************************)
Rare == {"edit", "other", "crash", "rehash"}

ASSUME HashCacheAssumption ==
    /\ Nothing \notin Content
    /\ Length \in [Content -> Nat]
    /\ Granularity \in Nat \ {0} /\ Second \in Nat \ {0} /\ MaxNow \in Nat
    /\ Budgets \subseteq [Rare -> Nat]

VARIABLES
    now,       \* the clock
    file,      \* [content, mtime], or Nothing
    remote,    \* what the storage's manifest says of the path
    base,      \* what this.base says of it
    cache,     \* this.cache: [size, mtime, hash], or Nothing
    loaded,    \* this.stateLoaded
    disk,      \* the state file
    job,       \* the pull or push in flight
    left,      \* [Rare -> Nat]: what remains of the budget
    held,      \* ghost: every [content, mtime] the file ever had
    published  \* ghost: every content the storage ever had

vars == <<now, file, remote, base, cache, loaded, disk, job, left, held, published>>

world == <<now, file, remote, left, held, published>>
memory == <<base, cache, loaded, disk>>

Idle == [kind |-> "none", phase |-> "idle", remote |-> Nothing, stat |-> Nothing,
         data |-> Nothing, local |-> Nothing, adopt |-> Nothing, judged |-> Nothing]

Spend(r) == left[r] > 0 /\ left' = [left EXCEPT ![r] = @ - 1]

Stamped(c) == [content |-> c, mtime |-> now - (now % Granularity)]

\* What a stat answers.
Stat(f) == IF f = Nothing THEN Nothing
           ELSE [size |-> Length[f.content], mtime |-> f.mtime]

ContentOf(f) == IF f = Nothing THEN Nothing ELSE f.content

\* RACY_WINDOW_SECONDS is one second; clock.now() is in whole seconds.
Aged(mtime) == mtime + Second <= now - (now % Second)

Entry(stat, hash) == [size |-> stat.size, mtime |-> stat.mtime, hash |-> hash]

Knows(entry, stat) == /\ entry # Nothing /\ stat # Nothing
                      /\ entry.size = stat.size /\ entry.mtime = stat.mtime

\* encodeHashCache
Encoded == IF cache # Nothing /\ Aged(cache.mtime) THEN cache ELSE Nothing

\* decodeHashCache
Decoded == disk.hashes

Init ==
    /\ now = 0
    /\ \E c \in Content \cup {Nothing} : file = IF c = Nothing THEN Nothing ELSE Stamped(c)
    /\ remote \in Content \cup {Nothing}
    /\ base = Nothing /\ cache = Nothing /\ loaded = FALSE
    /\ disk = [base |-> Nothing, hashes |-> Nothing]
    /\ job = Idle
    /\ left \in Budgets
    /\ held = {file} \ {Nothing}
    /\ published = {remote} \ {Nothing}

---------------------------------------------------------------------------
(* The world: nothing here waits for the engine.                           *)

Tick == now < MaxNow /\ now' = now + 1
        /\ UNCHANGED <<file, remote, memory, job, left, held, published>>

FileBecomes(c) ==
    /\ file' = IF c = Nothing THEN Nothing ELSE Stamped(c)
    /\ held' = held \cup ({file'} \ {Nothing})

Edit ==
    /\ Spend("edit")
    /\ \E c \in Content \cup {Nothing} : c # ContentOf(file) /\ FileBecomes(c)
    /\ UNCHANGED <<now, remote, published, memory, job>>

OtherPublishes ==
    /\ Spend("other")
    /\ \E c \in (Content \cup {Nothing}) \ {remote} :
         /\ remote' = c
         /\ published' = published \cup ({c} \ {Nothing})
    /\ UNCHANGED <<now, file, held, memory, job>>

Crash ==
    /\ Spend("crash")
    /\ base' = Nothing /\ cache' = Nothing /\ loaded' = FALSE
    /\ job' = Idle
    /\ UNCHANGED <<now, file, remote, held, published, disk>>

---------------------------------------------------------------------------
(* doPull and doPush up to the plan.                                       *)

At(phase) == job.phase = phase
Step(fields) == job' = [f \in DOMAIN job |-> IF f \in DOMAIN fields THEN fields[f] ELSE job[f]]
Goto(phase) == Step([phase |-> phase])
Ends == job' = Idle

\* loadStateOnce, readRemote.
Begin(kind) ==
    /\ At("idle")
    /\ loaded' = TRUE
    /\ IF loaded THEN UNCHANGED <<base, cache>>
                 ELSE base' = disk.base /\ cache' = Decoded
    /\ Step([kind |-> kind, phase |-> "scan", remote |-> remote])
    /\ UNCHANGED <<world, disk>>

\* An entry whose file is gone is dropped; one that knows the file answers.
ScanStat ==
    /\ At("scan")
    /\ IF file = Nothing
         THEN cache' = Nothing /\ Goto("plan")
         ELSE /\ UNCHANGED cache
              /\ IF Knows(cache, Stat(file))
                   THEN Step([phase |-> "plan", local |-> cache.hash])
                   ELSE Step([phase |-> "read", stat |-> Stat(file)])
    /\ UNCHANGED <<world, base, loaded, disk>>

ScanRead ==
    /\ At("read")
    /\ IF file = Nothing
         THEN cache' = Nothing /\ Goto("plan")
         ELSE UNCHANGED cache /\ Step([phase |-> "hash", data |-> file.content])
    /\ UNCHANGED <<world, base, loaded, disk>>

\* The clock is read when the hash is there, the stat was taken before.
Kept == IF Aged(job.stat.mtime) THEN Entry(job.stat, job.data) ELSE cache

ScanHash ==
    /\ At("hash")
    /\ cache' = Kept
    /\ Step([phase |-> "plan", local |-> job.data])
    /\ UNCHANGED <<world, base, loaded, disk>>

---------------------------------------------------------------------------
(* The pull half: applyPullOps.                                            *)

\* An unchanged file follows the storage; one that is gone comes back when the
\* storage's version is not the one this device last had.
Incoming == job.local # job.remote /\ base # job.remote
            /\ (job.local = base \/ job.local = Nothing)

\* A conflict keeps the file and puts the remote version beside it.
PlanPull ==
    /\ At("plan") /\ job.kind = "pull"
    /\ IF Incoming THEN Goto("check") ELSE Step([phase |-> "save", adopt |-> job.remote])
    /\ UNCHANGED <<world, memory>>

Write == Step([phase |-> "write", judged |-> file])
Hold == Step([phase |-> "save", adopt |-> base])
Applied == Step([phase |-> "save", adopt |-> job.remote])

\* stillAsScanned, up to its read
PullCheck ==
    /\ At("check")
    /\ \/ job.local = Nothing /\ file = Nothing /\ Write
       \/ job.local = Nothing /\ file # Nothing /\ Applied       \* a copy beside it
       \/ job.local # Nothing /\ file = Nothing
          /\ (IF job.remote = Nothing THEN Applied ELSE Hold)
       \/ /\ job.local # Nothing /\ Knows(cache, Stat(file))
          /\ IF cache.hash = job.local THEN Write ELSE Hold
       \/ job.local # Nothing /\ file # Nothing /\ ~Knows(cache, Stat(file)) /\ Goto("recheck")
    /\ UNCHANGED <<world, memory>>

\* Mutation of StillAsScanned: what the scan saw is trusted.
TrustScan == TRUE

StillAsScanned == ContentOf(file) = job.local

PullRecheck ==
    /\ At("recheck")
    /\ IF StillAsScanned THEN Write ELSE Hold
    /\ UNCHANGED <<world, memory>>

\* A deletion goes through the trash and leaves no cache entry.
PullTrash ==
    /\ At("write") /\ job.remote = Nothing
    /\ file' = Nothing /\ cache' = Nothing
    /\ Applied
    /\ UNCHANGED <<now, remote, left, held, published, base, loaded, disk>>

PullWrite ==
    /\ At("write") /\ job.remote # Nothing
    /\ FileBecomes(job.remote)
    /\ Goto("stat")
    /\ UNCHANGED <<now, remote, left, published, memory>>

StatBefore ==
    /\ At("stat")
    /\ Step([phase |-> "verify", stat |-> Stat(file)])
    /\ UNCHANGED <<world, memory>>

\* A read-back that differs fails the pull: no base is adopted, nothing saved.
ReadBack ==
    /\ At("verify")
    /\ IF ContentOf(file) = job.remote THEN Goto("vouch") ELSE Ends
    /\ UNCHANGED <<world, memory>>

\* Mutation of Vouched: the stat is taken after the write (review №2, F3).
VouchedAfter == IF file # Nothing THEN Entry(Stat(file), job.remote) ELSE cache

\* The stat taken around the read-back, if nothing moved it.
Vouched == IF job.stat = Stat(file) /\ job.stat # Nothing /\ job.stat.size = Length[job.remote]
           THEN Entry(job.stat, job.remote) ELSE cache

WriteAndRemember ==
    /\ At("vouch")
    /\ cache' = Vouched
    /\ Applied
    /\ UNCHANGED <<world, base, loaded, disk>>

---------------------------------------------------------------------------
(* The push half: applyPushOps, publishManifest.                           *)

\* No changes, someone else's changes, or a lost fork: nothing is published.
PlanPush ==
    /\ At("plan") /\ job.kind = "push"
    /\ IF job.local = base \/ job.remote # base THEN Ends ELSE Goto("upload")
    /\ UNCHANGED <<world, memory>>

\* The bytes are read again: the manifest says what was uploaded.  A file that
\* is gone by now sits the run out.
PushUpload ==
    /\ At("upload")
    /\ IF job.local # Nothing /\ file = Nothing
         THEN Ends
         ELSE Step([phase |-> "publish",
                    adopt |-> IF job.local = Nothing THEN Nothing ELSE file.content])
    /\ UNCHANGED <<world, memory>>

PushPublish ==
    /\ At("publish")
    /\ IF remote = job.remote
         THEN /\ remote' = job.adopt
              /\ published' = published \cup ({job.adopt} \ {Nothing})
              /\ Goto("save")
         ELSE Ends /\ UNCHANGED <<remote, published>>
    /\ UNCHANGED <<now, file, left, held, memory>>

---------------------------------------------------------------------------
(* State.                                                                  *)

SaveState(b, hashes) == disk' = [base |-> b, hashes |-> hashes]

\* adoptBase, saveState.
AdoptAndSave ==
    /\ At("save")
    /\ base' = job.adopt
    /\ SaveState(job.adopt, Encoded)
    /\ Ends
    /\ UNCHANGED <<world, cache, loaded>>

\* forgetHashCache does not load the state first: what it saves is the base in
\* memory, which before the first job of a run is none.
ForgetHashCache ==
    /\ At("idle")
    /\ Spend("rehash")
    /\ cache' = Nothing
    /\ SaveState(base, Nothing)
    /\ UNCHANGED <<now, file, remote, held, published, base, loaded, job>>

Next ==
    \/ Tick \/ Edit \/ OtherPublishes \/ Crash
    \/ \E kind \in {"pull", "push"} : Begin(kind)
    \/ ScanStat \/ ScanRead \/ ScanHash
    \/ PlanPull \/ PullCheck \/ PullRecheck \/ PullTrash \/ PullWrite
    \/ StatBefore \/ ReadBack \/ WriteAndRemember
    \/ PlanPush \/ PushUpload \/ PushPublish
    \/ AdoptAndSave \/ ForgetHashCache

Spec == Init /\ [][Next]_vars

---------------------------------------------------------------------------
(* Properties.                                                             *)

EntryNamesBytes(entry) ==
    Knows(entry, Stat(file)) =>
        [content |-> entry.hash, mtime |-> file.mtime] \in held

\* A cache entry that answers for the file, in memory or in the state file,
\* names bytes the file had under exactly this timestamp: the only saves it can
\* hide share a tick with the bytes it names.  scan.ts:97-118,
\* apply.ts:133-156 (ADR-0082, ADR-0089).
StaleWithinATick == EntryNamesBytes(cache) /\ EntryNamesBytes(disk.hashes)

\* Other bytes had the same timestamp: a stat need not tell them apart.
Ambiguous(f) == \E g \in held : g.mtime = f.mtime /\ g.content # f.content

\* A pull writes over the file only if the storage has had its bytes, unless
\* they came after the last check above the filesystem or in one tick of the
\* file's timestamp with other bytes.  apply.ts:217-237 (ADR-0064).
OnlyKnownBytesReplaced ==
    [][PullWrite /\ file # Nothing /\ file = job.judged
         => file.content \in published \/ Ambiguous(file)]_vars

\* Re-hashing the vault leaves the base in the state file alone: "Costs one
\* full re-hash and nothing else" (main.ts:1452-1456).  engine.ts:676-683.
RehashKeepsBase == [][ForgetHashCache => disk'.base = disk.base]_vars
=============================================================================

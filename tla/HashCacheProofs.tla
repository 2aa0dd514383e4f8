-------------------------- MODULE HashCacheProofs --------------------------
(***************************************************************************)
(* Proofs about HashCache, for every granularity of timestamps, any number *)
(* of contents, saves, foreign versions and restarts: what a cached hash   *)
(* can hide, and what a pull can write over.                               *)
(***************************************************************************)
EXTENDS HashCache, TLAPS

---------------------------------------------------------------------------
(* Timestamps, and what a step leaves in a job.                            *)

\* The timestamp a save of now gets.
Stamp == now - (now % Granularity)

\* Time does not go back when it is rounded down.
LEMMA RoundedDown ==
    ASSUME NEW t \in Nat, NEW g \in Nat \ {0}
    PROVE  /\ t - (t % g) \in Nat
           /\ t - (t % g) <= (t + 1) - ((t + 1) % g)
  OBVIOUS

Field == {"kind", "phase", "remote", "stat", "data", "local", "adopt", "judged"}

JobShape == job = [f \in Field |-> job[f]]

\* An idle job has nothing.
LEMMA IdleIs ==
    /\ Idle = [f \in Field |-> Idle[f]]
    /\ Idle.phase = "idle" /\ Idle.kind = "none"
    /\ \A f \in Field \ {"kind", "phase"} : Idle[f] = Nothing
  BY DEF Idle, Field

\* A step of a job changes the fields it names.
LEMMA StepIs ==
    ASSUME JobShape, NEW fields, DOMAIN fields \subseteq Field, Step(fields)
    PROVE  /\ JobShape'
           /\ \A f \in Field : job'[f] = IF f \in DOMAIN fields THEN fields[f] ELSE job[f]
  BY DEF JobShape, Step

---------------------------------------------------------------------------
(* The inductive invariant.                                                *)

\* No save to come, and not the file as it is, has this timestamp.
Past(m) == m < Stamp /\ (file # Nothing => m < file.mtime)

\* The file had these bytes under this timestamp, or nothing has it any more.
Named(hash, m) == m \in Nat /\ ([content |-> hash, mtime |-> m] \in held \/ Past(m))

\* The file had this timestamp when it was looked at.
Since(m) == m \in Nat /\ m <= Stamp /\ (file # Nothing => m <= file.mtime)

Truthful(entry) == entry # Nothing => Named(entry.hash, entry.mtime)

Known(c) == c \in published \cup {Nothing}

Clock ==
    /\ now \in Nat
    /\ file # Nothing => /\ file = [content |-> file.content, mtime |-> file.mtime]
                         /\ file.content # Nothing /\ file \in held
                         /\ file.mtime \in Nat /\ file.mtime <= Stamp

(***************************************************************************)
(* What a job knows where it waits.  A stat is older than the bytes read   *)
(* under it: had they been saved in between, the file would have left that *)
(* timestamp for good.  What a pull is about to write over was the base's, *)
(* or another save of one tick.                                            *)
(***************************************************************************)
Fits(j) ==
    /\ Known(j.remote)
    /\ j.phase = "read" => Since(j.stat.mtime)
    /\ j.phase = "hash" => Named(j.data, j.stat.mtime)
    /\ j.phase \in {"check", "recheck"} => Known(j.local)
    /\ j.phase = "write" /\ j.judged # Nothing
         => j.judged.content \in published \/ Ambiguous(j.judged)
    /\ j.phase \in {"stat", "verify", "vouch"} => j.remote # Nothing
    /\ j.phase = "verify" /\ j.stat # Nothing => Since(j.stat.mtime)
    /\ j.phase = "vouch" /\ j.stat # Nothing => Named(j.remote, j.stat.mtime)
    /\ j.phase = "save" => Known(j.adopt)

Memory ==
    /\ Known(remote) /\ Known(base) /\ Known(disk.base)
    /\ Truthful(cache) /\ Truthful(disk.hashes)

Inv == JobShape /\ Clock /\ Memory /\ Fits(job)

\* A truthful entry that knows the file names bytes of its tick.
LEMMA TruthfulNames ==
    ASSUME Clock, NEW entry, Truthful(entry), Knows(entry, Stat(file))
    PROVE  file # Nothing /\ [content |-> entry.hash, mtime |-> file.mtime] \in held
  BY DEF Clock, Truthful, Named, Past, Knows, Stat

\* What the file is has its own timestamp, and none later than now.
LEMMA StampIs == ASSUME Clock PROVE Stamp \in Nat
  BY RoundedDown, HashCacheAssumption DEF Clock, Stamp

\* Nothing is synced, and nothing cached, at first.
LEMMA InitInv == Init => Inv
  <1> SUFFICES ASSUME Init PROVE Inv  OBVIOUS
  <1> USE DEF Init
  <1>1. JobShape /\ Fits(job)
    BY IdleIs DEF JobShape, Fits, Known, Field
  <1>2. Memory  BY DEF Memory, Known, Truthful
  <1>3. Clock
    <2>1. now - (now % Granularity) \in Nat  BY RoundedDown, HashCacheAssumption
    <2>2. file # Nothing => \E c \in Content : file = Stamped(c)  OBVIOUS
    <2>3. file # Nothing => file \in held  OBVIOUS
    <2> QED  BY <2>1, <2>2, <2>3, HashCacheAssumption DEF Clock, Stamped, Stamp
  <1> QED  BY <1>1, <1>2, <1>3 DEF Inv

---------------------------------------------------------------------------
(* The world moves on.                                                     *)

(***************************************************************************)
(* Whatever happens, the file stays as it is, goes, or becomes one of now; *)
(* what it had and what the storage had is not unsaid.                     *)
(***************************************************************************)
Moves ==
    /\ held \subseteq held' /\ published \subseteq published'
    /\ Stamp \in Nat /\ Stamp' \in Nat /\ Stamp <= Stamp'
    /\ file' = file \/ (file' # Nothing => file'.mtime = Stamp')

\* A save has the timestamp of now.
LEMMA SavedNow ==
    ASSUME Clock, NEW c, FileBecomes(c), now' = now
    PROVE  Clock' /\ (file' # Nothing => file'.mtime = Stamp') /\ held \subseteq held'
  <1>1. now - (now % Granularity) \in Nat  BY RoundedDown, HashCacheAssumption DEF Clock
  <1> QED  BY <1>1 DEF FileBecomes, Stamped, Stamp, Clock

\* Every step is such a move, and keeps what the file is in its place.
LEMMA NextMoves == ASSUME Inv, [Next]_vars PROVE Moves /\ Clock'
  <1> USE DEF Inv
  <1>1. Stamp \in Nat  BY StampIs
  <1>2. CASE UNCHANGED <<now, file, held>> /\ published \subseteq published'
    BY <1>1, <1>2 DEF Moves, Clock, Stamp
  <1>3. CASE Tick
    <2>1. Stamp' \in Nat /\ Stamp <= Stamp'
      <3>1. now \in Nat /\ now' = now + 1 /\ now' \in Nat  BY <1>3 DEF Tick, Clock
      <3> QED  BY <3>1, RoundedDown, HashCacheAssumption DEF Stamp
    <2>2. UNCHANGED <<file, held, published>> /\ now' \in Nat  BY <1>3 DEF Tick, Clock
    <2> QED  BY <1>1, <2>1, <2>2 DEF Moves, Clock
  <1>4. ASSUME NEW c, FileBecomes(c), UNCHANGED <<now, published>>
        PROVE  Moves /\ Clock'
    <2>1. Stamp' = Stamp  BY <1>4 DEF Stamp
    <2> QED  BY <1>1, <1>4, <2>1, SavedNow DEF Moves
  <1>5. CASE PullTrash
    <2>1. UNCHANGED <<now, held, published>> /\ file' = Nothing  BY <1>5 DEF PullTrash
    <2> QED  BY <1>1, <2>1 DEF Moves, Clock, Stamp
  <1>6. CASE Edit  BY <1>4, <1>6 DEF Edit, memory
  <1>7. CASE PullWrite  BY <1>4, <1>7 DEF PullWrite, memory
  <1>8. CASE ~Tick /\ ~Edit /\ ~PullTrash /\ ~PullWrite
    <2>1. UNCHANGED <<now, file, held>> /\ published \subseteq published'
      BY <1>8 DEF Next, vars, world, memory, OtherPublishes, Crash, Begin, ScanStat, ScanRead,
                  ScanHash, PlanPull, PullCheck, PullRecheck, StatBefore, ReadBack,
                  WriteAndRemember, PlanPush, PushUpload, PushPublish, AdoptAndSave,
                  ForgetHashCache
    <2> QED  BY <1>2, <2>1
  <1> QED  BY <1>3, <1>5, <1>6, <1>7, <1>8

\* What was true of a timestamp, an entry or a content stays so.
LEMMA MovesKeep ==
    ASSUME Clock, Moves
    PROVE  /\ \A m : Since(m) => Since(m)'
           /\ \A hash, m : Named(hash, m) => Named(hash, m)'
           /\ \A entry : Truthful(entry) => Truthful(entry)'
           /\ \A c : Known(c) => Known(c)'
           /\ \A f : Ambiguous(f) => Ambiguous(f)'
  <1>1. \A m : Since(m) => Since(m)'  BY DEF Moves, Since
  <1>2. ASSUME NEW hash, NEW m, Named(hash, m) PROVE Named(hash, m)'
    BY <1>2 DEF Moves, Named, Past, Clock
  <1>3. \A entry : Truthful(entry) => Truthful(entry)'  BY <1>2 DEF Truthful
  <1>4. \A c : Known(c) => Known(c)'  BY DEF Known, Moves
  <1>5. \A f : Ambiguous(f) => Ambiguous(f)'  BY DEF Ambiguous, Moves
  <1> QED  BY <1>1, <1>2, <1>3, <1>4, <1>5

---------------------------------------------------------------------------
(* The job, step by step.                                                  *)

\* What a job takes with it to its next phase: nothing, or one or two fields.
LEMMA GotoIs ==
    ASSUME JobShape, NEW phase, Goto(phase)
    PROVE  /\ JobShape' /\ job'.phase = phase
           /\ job'.remote = job.remote /\ job'.stat = job.stat /\ job'.data = job.data
           /\ job'.local = job.local /\ job'.adopt = job.adopt /\ job'.judged = job.judged
  <1>1. DOMAIN [phase |-> phase] = {"phase"}  OBVIOUS
  <1> QED  BY <1>1, StepIs DEF Goto, Field

\* A stat taken is kept beside the phase.
LEMMA StatIs ==
    ASSUME JobShape, NEW phase, NEW s, Step([phase |-> phase, stat |-> s])
    PROVE  JobShape' /\ job'.phase = phase /\ job'.stat = s /\ job'.remote = job.remote
  <1>1. DOMAIN [phase |-> phase, stat |-> s] = {"phase", "stat"}  OBVIOUS
  <1> QED  BY <1>1, StepIs DEF Field

\* Bytes read are kept beside the stat they were read under.
LEMMA DataIs ==
    ASSUME JobShape, NEW phase, NEW d, Step([phase |-> phase, data |-> d])
    PROVE  /\ JobShape' /\ job'.phase = phase /\ job'.data = d
           /\ job'.remote = job.remote /\ job'.stat = job.stat
  <1>1. DOMAIN [phase |-> phase, data |-> d] = {"phase", "data"}  OBVIOUS
  <1> QED  BY <1>1, StepIs DEF Field

\* What the scan answers goes to the plan.
LEMMA LocalIs ==
    ASSUME JobShape, NEW phase, NEW c, Step([phase |-> phase, local |-> c])
    PROVE  JobShape' /\ job'.phase = phase /\ job'.remote = job.remote
  <1>1. DOMAIN [phase |-> phase, local |-> c] = {"phase", "local"}  OBVIOUS
  <1> QED  BY <1>1, StepIs DEF Field

\* What the base is to become goes to the save.
LEMMA AdoptIs ==
    ASSUME JobShape, NEW phase, NEW c, Step([phase |-> phase, adopt |-> c])
    PROVE  JobShape' /\ job'.phase = phase /\ job'.adopt = c /\ job'.remote = job.remote
  <1>1. DOMAIN [phase |-> phase, adopt |-> c] = {"phase", "adopt"}  OBVIOUS
  <1> QED  BY <1>1, StepIs DEF Field

\* The file as the last check saw it goes to the write.
LEMMA JudgedIs ==
    ASSUME JobShape, NEW phase, NEW f, Step([phase |-> phase, judged |-> f])
    PROVE  JobShape' /\ job'.phase = phase /\ job'.judged = f /\ job'.remote = job.remote
  <1>1. DOMAIN [phase |-> phase, judged |-> f] = {"phase", "judged"}  OBVIOUS
  <1> QED  BY <1>1, StepIs DEF Field

\* A job that is over.
LEMMA EndsFits == ASSUME Ends PROVE JobShape' /\ Fits(job)'
  BY IdleIs DEF Ends, JobShape, Fits, Known, Field

\* At these phases a job has nothing to remember but what it read of the storage.
Plain == {"scan", "plan", "upload", "publish"}

\* There a job fits as long as what it read of the storage does.
LEMMA PlainFits ==
    ASSUME Inv, Moves, job'.phase \in Plain, job'.remote = job.remote
    PROVE  Fits(job)'
  <1>1. Known(job.remote)'  BY MovesKeep DEF Inv, Fits
  <1> QED  BY <1>1 DEF Fits, Plain, Known

\* What is adopted is something the storage has had.
LEMMA SaveFits ==
    ASSUME Inv, Moves, job'.phase = "save", job'.remote = job.remote, Known(job.adopt)'
    PROVE  Fits(job)'
  <1>1. Known(job.remote)'  BY MovesKeep DEF Inv, Fits
  <1> QED  BY <1>1 DEF Fits, Known

\* A scan stats, reads, and hashes.
LEMMA ScanFits ==
    ASSUME Inv, Moves, ScanStat \/ ScanRead \/ ScanHash PROVE JobShape' /\ Fits(job)'
  <1>1. JobShape /\ Clock /\ Fits(job) /\ UNCHANGED <<now, file, held, published>>
    BY DEF Inv, ScanStat, ScanRead, ScanHash, world
  <1>2. ASSUME Goto("plan") PROVE JobShape' /\ Fits(job)'
    BY <1>1, <1>2, GotoIs, PlainFits DEF Plain
  <1>3. ASSUME NEW c, Step([phase |-> "plan", local |-> c]) PROVE JobShape' /\ Fits(job)'
    BY <1>1, <1>3, LocalIs, PlainFits DEF Plain
  <1>4. CASE file # Nothing /\ Step([phase |-> "read", stat |-> Stat(file)])
    <2>1. JobShape' /\ job'.phase = "read" /\ job'.stat = Stat(file) /\ job'.remote = job.remote
      BY <1>1, <1>4, StatIs
    <2>2. Since(job.stat.mtime)'
      BY <1>1, <1>4, <2>1 DEF Since, Stat, Clock, Stamp
    <2> QED  BY <1>1, <2>1, <2>2 DEF Fits, Known
  <1>5. CASE At("read") /\ file # Nothing /\ Step([phase |-> "hash", data |-> file.content])
    <2>1. /\ JobShape' /\ job'.phase = "hash" /\ job'.data = file.content
          /\ job'.remote = job.remote /\ job'.stat = job.stat
      BY <1>1, <1>5, DataIs
    <2>2. Since(job.stat.mtime)  BY <1>1, <1>5 DEF At, Fits
    <2>3. Named(file.content, job.stat.mtime)
      BY <1>1, <1>5, <2>2, StampIs DEF Since, Named, Past, Clock
    <2>4. Named(job.data, job.stat.mtime)'
      BY <1>1, <2>1, <2>3 DEF Named, Past, Stamp
    <2> QED  BY <1>1, <2>1, <2>4 DEF Fits, Known
  <1> QED  BY <1>2, <1>3, <1>4, <1>5 DEF ScanStat, ScanRead, ScanHash

\* A pull is about to write over what its base had, or over another save of one tick.
LEMMA CheckFits ==
    ASSUME Inv, Moves, PlanPull \/ PullCheck \/ PullRecheck PROVE JobShape' /\ Fits(job)'
  <1>1. /\ JobShape /\ Clock /\ Memory /\ Fits(job)
        /\ UNCHANGED <<now, file, held, published>>
    BY DEF Inv, PlanPull, PullCheck, PullRecheck, world
  <1>2. ASSUME NEW phase, phase \in {"check", "recheck"}, Goto(phase), Known(job.local)
        PROVE  JobShape' /\ Fits(job)'
    <2>1. /\ JobShape' /\ job'.phase = phase /\ job'.local = job.local
          /\ job'.remote = job.remote
      BY <1>1, <1>2, GotoIs
    <2> QED  BY <1>1, <1>2, <2>1 DEF Fits, Known
  <1>3. ASSUME NEW c, Known(c), Step([phase |-> "save", adopt |-> c])
        PROVE  JobShape' /\ Fits(job)'
    <2>1. JobShape' /\ job'.phase = "save" /\ job'.adopt = c /\ job'.remote = job.remote
      BY <1>1, <1>3, AdoptIs
    <2> QED  BY <1>1, <1>3, <2>1, SaveFits DEF Known
  <1>4. Known(job.remote) /\ Known(base)  BY <1>1 DEF Fits, Memory
  <1>5. ASSUME Applied \/ Hold PROVE JobShape' /\ Fits(job)'
    BY <1>3, <1>4, <1>5 DEF Applied, Hold
  <1>6. ASSUME Write, file # Nothing => file.content \in published \/ Ambiguous(file)
        PROVE  JobShape' /\ Fits(job)'
    <2>1. JobShape' /\ job'.phase = "write" /\ job'.judged = file /\ job'.remote = job.remote
      BY <1>1, <1>6, JudgedIs DEF Write
    <2> QED  BY <1>1, <1>6, <2>1 DEF Fits, Known, Ambiguous
  <1>7. CASE PlanPull
    <2>1. Incoming => Known(job.local)  BY <1>1 DEF Incoming, Memory, Known
    <2> QED  BY <1>2, <1>3, <1>4, <1>7, <2>1 DEF PlanPull
  <1>8. CASE PullCheck
    <2>1. Known(job.local)  BY <1>1, <1>8 DEF PullCheck, At, Fits
    <2>2. CASE Write
      <3>1. \/ file = Nothing
            \/ job.local # Nothing /\ Knows(cache, Stat(file)) /\ cache.hash = job.local
            \/ Applied \/ Hold \/ Goto("recheck")
        BY <1>8, <2>2 DEF PullCheck
      <3>2. CASE job.local # Nothing /\ Knows(cache, Stat(file)) /\ cache.hash = job.local
        <4>1. file # Nothing /\ [content |-> job.local, mtime |-> file.mtime] \in held
          BY <1>1, <3>2, TruthfulNames DEF Memory
        <4>2. job.local \in published  BY <2>1, <3>2 DEF Known
        <4>3. file.content = job.local \/ Ambiguous(file)  BY <4>1 DEF Ambiguous
        <4> QED  BY <1>6, <2>2, <4>2, <4>3
      <3> QED  BY <1>2, <1>5, <1>6, <2>1, <2>2, <3>1, <3>2
    <2> QED  BY <1>2, <1>5, <1>8, <2>1, <2>2 DEF PullCheck
  <1>9. CASE PullRecheck
    <2>1. Known(job.local)  BY <1>1, <1>9 DEF PullRecheck, At, Fits
    <2>2. StillAsScanned /\ file # Nothing => file.content \in published
      BY <1>1, <2>1 DEF StillAsScanned, ContentOf, Known, Clock
    <2> QED  BY <1>5, <1>6, <1>9, <2>2 DEF PullRecheck
  <1> QED  BY <1>7, <1>8, <1>9

\* A write is stat'ed and read back under that stat, and only then vouched for.
LEMMA WriteFits ==
    ASSUME Inv, Moves,
           PullTrash \/ PullWrite \/ StatBefore \/ ReadBack \/ WriteAndRemember
    PROVE  JobShape' /\ Fits(job)'
  <1>1. JobShape /\ Clock /\ Fits(job) /\ Known(job.remote)  BY DEF Inv, Fits
  <1>2. CASE Applied
    <2>1. /\ JobShape' /\ job'.phase = "save" /\ job'.adopt = job.remote
          /\ job'.remote = job.remote
      BY <1>1, <1>2, AdoptIs DEF Applied
    <2>2. Known(job.adopt)'  BY <1>1, <2>1, MovesKeep DEF Known, Moves
    <2> QED  BY <2>1, <2>2, SaveFits
  <1>3. CASE PullWrite
    <2>1. JobShape' /\ job'.phase = "stat" /\ job'.remote = job.remote /\ job.remote # Nothing
      BY <1>1, <1>3, GotoIs DEF PullWrite
    <2>2. Known(job.remote)'  BY <1>1, <2>1 DEF Known, Moves
    <2> QED  BY <2>1, <2>2 DEF Fits
  <1>4. CASE StatBefore
    <2>1. /\ JobShape' /\ job'.phase = "verify" /\ job'.stat = Stat(file)
          /\ job'.remote = job.remote /\ job.remote # Nothing
      BY <1>1, <1>4, StatIs DEF StatBefore, At, Fits
    <2>2. Known(job.remote)'  BY <1>1, <2>1 DEF Known, Moves
    <2>3. job'.stat # Nothing => Since(job.stat.mtime)'
      BY <1>1, <1>4, <2>1 DEF StatBefore, world, Since, Stat, Clock, Stamp
    <2> QED  BY <2>1, <2>2, <2>3 DEF Fits
  <1>5. CASE ReadBack
    <2>1. CASE Ends  BY <2>1, EndsFits
    <2>2. CASE ContentOf(file) = job.remote /\ Goto("vouch")
      <3>1. /\ JobShape' /\ job'.phase = "vouch" /\ job'.stat = job.stat
            /\ job'.remote = job.remote /\ job.remote # Nothing
        BY <1>1, <1>5, <2>2, GotoIs DEF ReadBack, At, Fits
      <3>2. Known(job.remote)'  BY <1>1, <3>1 DEF Known, Moves
      <3>3. file # Nothing /\ file.content = job.remote  BY <2>2, <3>1 DEF ContentOf
      <3>4. job.stat # Nothing => Since(job.stat.mtime)  BY <1>1, <1>5 DEF ReadBack, At, Fits
      <3>5. job.stat # Nothing => Named(job.remote, job.stat.mtime)
        BY <1>1, <3>3, <3>4, StampIs DEF Since, Named, Past, Clock
      <3>6. job'.stat # Nothing => Named(job.remote, job.stat.mtime)'
        BY <1>5, <3>1, <3>5 DEF ReadBack, world, Named, Past, Stamp
      <3> QED  BY <3>1, <3>2, <3>6 DEF Fits
    <2> QED  BY <1>5, <2>1, <2>2 DEF ReadBack
  <1> QED  BY <1>2, <1>3, <1>4, <1>5 DEF PullTrash, WriteAndRemember

\* What a push is to publish the storage has had by the time it is adopted.
LEMMA PushFits ==
    ASSUME Inv, Moves, PlanPush \/ PushUpload \/ PushPublish PROVE JobShape' /\ Fits(job)'
  <1>1. JobShape  BY DEF Inv
  <1>2. CASE Ends  BY <1>2, EndsFits
  <1>3. CASE PlanPush /\ Goto("upload")
    BY <1>1, <1>3, GotoIs, PlainFits DEF Plain
  <1>4. ASSUME NEW c, Step([phase |-> "publish", adopt |-> c]) PROVE JobShape' /\ Fits(job)'
    BY <1>1, <1>4, AdoptIs, PlainFits DEF Plain
  <1>5. CASE PushPublish /\ Goto("save")
    <2>1. /\ JobShape' /\ job'.phase = "save" /\ job'.adopt = job.adopt
          /\ job'.remote = job.remote
      BY <1>1, <1>5, GotoIs
    <2>2. CASE remote = job.remote
      <3>1. Known(job.adopt)'  BY <1>5, <2>1, <2>2 DEF PushPublish, Known
      <3> QED  BY <2>1, <3>1, SaveFits
    <2> QED  BY <1>2, <1>5, <2>2 DEF PushPublish
  <1> QED  BY <1>2, <1>3, <1>4, <1>5 DEF PlanPush, PushUpload, PushPublish

\* A job that waits still fits.
LEMMA WaitFits == ASSUME Inv, Moves, UNCHANGED job PROVE JobShape' /\ Fits(job)'
  <1>1. JobShape /\ Clock /\ Fits(job)  BY DEF Inv
  <1>2. JobShape'  BY <1>1 DEF JobShape
  <1>3. Fits(job)'
    BY <1>1, MovesKeep DEF Fits, Moves
  <1> QED  BY <1>2, <1>3

\* A job starts from what the storage has.
LEMMA BeginFits ==
    ASSUME Inv, Moves, NEW kind, Begin(kind) PROVE JobShape' /\ Fits(job)'
  <1>1. DOMAIN [kind |-> kind, phase |-> "scan", remote |-> remote]
          = {"kind", "phase", "remote"}
    OBVIOUS
  <1>2. JobShape' /\ job'.phase = "scan" /\ job'.remote = remote
    BY <1>1, StepIs DEF Inv, Begin, Field
  <1>3. Known(job.remote)'  BY <1>2 DEF Inv, Memory, Known, Moves
  <1> QED  BY <1>2, <1>3 DEF Fits

---------------------------------------------------------------------------
(* What is remembered.                                                     *)

\* Only a scan and a read-back vouch, and both have the bytes of their stat.
LEMMA CacheStaysTruthful ==
    ASSUME Inv, Moves, [Next]_vars PROVE Truthful(cache)' /\ Truthful(disk.hashes)'
  <1>1. Clock /\ Fits(job) /\ Truthful(cache) /\ Truthful(disk.hashes)
    BY DEF Inv, Memory
  <1>2. At("hash") => Truthful(Kept)
    BY <1>1 DEF At, Fits, Kept, Entry, Truthful
  <1>3. At("vouch") => Truthful(Vouched)
    BY <1>1 DEF At, Fits, Vouched, Entry, Truthful
  <1>4. cache' = cache \/ Truthful(cache')
    BY <1>1, <1>2, <1>3
    DEF Next, vars, memory, Truthful, Tick, Edit, OtherPublishes, Crash, Begin, Decoded, ScanStat,
        ScanRead, ScanHash, PlanPull, PullCheck, PullRecheck, PullTrash, PullWrite, StatBefore,
        ReadBack, WriteAndRemember, PlanPush, PushUpload, PushPublish, AdoptAndSave,
        ForgetHashCache
  <1>5. disk' = disk \/ disk'.hashes \in {Nothing, cache}
    BY DEF Next, vars, memory, Tick, Edit, OtherPublishes, Crash, Begin, ScanStat, ScanRead,
           ScanHash, PlanPull, PullCheck, PullRecheck, PullTrash, PullWrite, StatBefore,
           ReadBack, WriteAndRemember, PlanPush, PushUpload, PushPublish, AdoptAndSave,
           ForgetHashCache, SaveState, Encoded
  <1> QED  BY <1>1, <1>4, <1>5, MovesKeep DEF Truthful

\* The manifest, the base and the base on disk say what the storage had.
LEMMA BasesStayKnown ==
    ASSUME Inv, Moves, [Next]_vars
    PROVE  Known(remote)' /\ Known(base)' /\ Known(disk.base)'
  <1>1. Clock /\ Fits(job) /\ Known(remote) /\ Known(base) /\ Known(disk.base)
    BY DEF Inv, Memory
  <1>2. remote' = remote \/ Known(remote)'
    BY DEF Next, vars, world, Known, Tick, Edit, OtherPublishes, Crash, Begin, ScanStat, ScanRead,
           ScanHash, PlanPull, PullCheck, PullRecheck, PullTrash, PullWrite, StatBefore,
           ReadBack, WriteAndRemember, PlanPush, PushUpload, PushPublish, AdoptAndSave,
           ForgetHashCache
  <1>3. At("save") => Known(job.adopt)  BY <1>1 DEF At, Fits
  <1>4. Known(base')
    BY <1>1, <1>3
    DEF Next, vars, memory, Known, Tick, Edit, OtherPublishes, Crash, Begin, ScanStat, ScanRead,
        ScanHash, PlanPull, PullCheck, PullRecheck, PullTrash, PullWrite, StatBefore,
        ReadBack, WriteAndRemember, PlanPush, PushUpload, PushPublish, AdoptAndSave,
        ForgetHashCache
  <1>5. disk' = disk \/ Known(disk'.base)
    BY <1>1, <1>3
    DEF Next, vars, memory, Tick, Edit, OtherPublishes, Crash, Begin, ScanStat, ScanRead,
        ScanHash, PlanPull, PullCheck, PullRecheck, PullTrash, PullWrite, StatBefore,
        ReadBack, WriteAndRemember, PlanPush, PushUpload, PushPublish, AdoptAndSave,
        ForgetHashCache, SaveState
  <1> QED  BY <1>1, <1>2, <1>4, <1>5 DEF Known, Moves

---------------------------------------------------------------------------
(* Theorems.                                                               *)

\* Every step keeps the invariant.
LEMMA InvNext == ASSUME Inv, [Next]_vars PROVE Inv'
  <1>1. Moves /\ Clock'  BY NextMoves
  <1>2. Memory'  BY <1>1, CacheStaysTruthful, BasesStayKnown DEF Memory
  <1>3. JobShape' /\ Fits(job)'
    <2>1. CASE UNCHANGED job  BY <1>1, <2>1, WaitFits
    <2>2. CASE Ends  BY <2>2, EndsFits
    <2>3. ASSUME NEW kind, Begin(kind) PROVE JobShape' /\ Fits(job)'
      BY <1>1, <2>3, BeginFits
    <2>4. CASE ScanStat \/ ScanRead \/ ScanHash  BY <1>1, <2>4, ScanFits
    <2>5. CASE PlanPull \/ PullCheck \/ PullRecheck  BY <1>1, <2>5, CheckFits
    <2>6. CASE PullTrash \/ PullWrite \/ StatBefore \/ ReadBack \/ WriteAndRemember
      BY <1>1, <2>6, WriteFits
    <2>7. CASE PlanPush \/ PushUpload \/ PushPublish  BY <1>1, <2>7, PushFits
    <2>8. CASE Tick \/ Edit \/ OtherPublishes \/ ForgetHashCache
      BY <2>1, <2>8 DEF Tick, Edit, OtherPublishes, ForgetHashCache
    <2>9. CASE Crash \/ AdoptAndSave  BY <2>2, <2>9 DEF Crash, AdoptAndSave, Ends
    <2>10. CASE UNCHANGED vars  BY <2>1, <2>10 DEF vars
    <2> QED
      BY <2>3, <2>4, <2>5, <2>6, <2>7, <2>8, <2>9, <2>10 DEF Next
  <1> QED  BY <1>1, <1>2, <1>3 DEF Inv

\* The invariant holds in every reachable state.
LEMMA InvHolds == Spec => []Inv
  <1>1. Init => Inv  BY InitInv
  <1>2. Inv /\ [Next]_vars => Inv'  BY InvNext
  <1> QED  BY <1>1, <1>2, PTL DEF Spec

(***************************************************************************)
(* A cached hash that answers for the file names bytes the file had under  *)
(* exactly this timestamp, however the scan, the read-back, a crash and    *)
(* the state file interleave with the user's saves (scan.ts:97-118,        *)
(* apply.ts:133-156).                                                      *)
(***************************************************************************)
THEOREM CachedHashesNameBytes == Spec => []StaleWithinATick
  <1>1. Inv => StaleWithinATick
    BY TruthfulNames DEF Inv, Memory, StaleWithinATick, EntryNamesBytes
  <1> QED  BY <1>1, InvHolds, PTL

(***************************************************************************)
(* A pull writes over the file only bytes the storage has had, unless they *)
(* came after the last check or shared a tick with others                  *)
(* (apply.ts:217-237).                                                     *)
(***************************************************************************)
THEOREM PullsReplaceKnownBytes == Spec => OnlyKnownBytesReplaced
  <1>1. Inv /\ [Next]_vars
        => [PullWrite /\ file # Nothing /\ file = job.judged
              => file.content \in published \/ Ambiguous(file)]_vars
    BY DEF Inv, Fits, PullWrite, At
  <1> QED  BY <1>1, InvHolds, PTL DEF Spec, OnlyKnownBytesReplaced
=============================================================================

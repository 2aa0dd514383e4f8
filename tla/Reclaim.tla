------------------------------- MODULE Reclaim -------------------------------
(***************************************************************************)
(* Storage reclamation: packages/core/src/reclaim.ts, gc-mark.ts,          *)
(* engine/reclaim-io.ts and previewReclaim/reclaimStorage of               *)
(* engine/engine.ts, against pushes of every device that upload, adopt     *)
(* (the deduplication probe of engine/apply.ts) and publish.               *)
(*                                                                         *)
(* A content object is its key.  Of a manifest only its generation, its    *)
(* device and the objects it names count here: files, retained versions    *)
(* and the copies kept for forgotten entries alike.  What a push, a forget *)
(* or a release publishes names what it uploaded and any part of what its  *)
(* parent named.  Every device reads its own clock.                        *)
(***************************************************************************)
EXTENDS Integers, FiniteSets

CONSTANTS
    Device,       \* device ids; numbers, because a fork is won by the smallest
    Sweeper,      \* the devices whose user runs the reclaim command
    Object,       \* object keys; numbers, in the order they sort
    Keep,         \* generationsToKeep
    Grace,        \* reclaimGraceSeconds
    MaxMarked,    \* MAX_MARKED_KEYS (20000 in the code)
    MaxNow,       \* bound on the clocks
    Conditional,  \* the storage can put an object only if it is not there
    Budgets,      \* SUBSET [Fault -> Nat]: bounds on the rare events, any of them
    Unmarked,     \* an object the mark has no time for
    Nothing       \* no manifest, no plan

ASSUME ReclaimAssumption ==
    /\ Device \subseteq Nat /\ Sweeper \subseteq Device
    /\ Object \subseteq Nat /\ IsFiniteSet(Object)
    /\ Keep \in Nat /\ Grace \in Nat /\ MaxMarked \in Nat
    /\ Unmarked \notin Nat
    /\ Conditional \in BOOLEAN

(***************************************************************************)
(* publish: manifests put.  command: the reclaim command is run.           *)
(* content: a content nobody stored before is uploaded.                    *)
(* adopt: the content a push has to upload is in the storage.  again: it   *)
(* was, and has been swept.  overlap: a push and a sweep of two devices    *)
(* run at the same time.  unanswered: a question about an object fails     *)
(* with no answer.  stop: a job ends half way.  unsaved: the mark cannot   *)
(* be written.  jump: a clock is set.  short: the storage lists fewer      *)
(* manifests than it has.                                                  *)
(***************************************************************************)
Fault == {"publish", "command", "content", "adopt", "again",
          "overlap", "unanswered", "stop", "unsaved", "jump", "short"}

ASSUME BudgetAssumption == Budgets \subseteq [Fault -> Nat]

Manifest == [gen : Nat, dev : Device, names : SUBSET Object]

ASSUME NothingAssumption == Nothing \notin Manifest

Mark == [Object -> Nat \cup {Unmarked}]

Plan == [sweep : SUBSET Object, pruned : SUBSET Manifest, mark : Mark]

VARIABLES
    objects,     \* what is under objects/
    manifests,   \* what a list of manifests/ returns
    hidden,      \* manifests the storage has and does not list at the moment
    mark,        \* [Device -> Mark]: meta/gc-mark-<device>.json
    clock,       \* [Device -> Nat]
    base,        \* [Device -> Manifest or Nothing]: what it last synced
    job,         \* [Device -> Job]: the engine's operation, one at a time
    shown,       \* [Device -> Plan or Nothing]: the plan in the dialog
    left,        \* [Fault -> Nat]: what remains of the budget
    ever,        \* ghost: objects that were ever stored
    published,   \* ghost: manifests that were ever published
    timely,      \* ghost: those no higher generation had been published before
    late         \* ghost: adopted objects whose loss nobody could be told: a sweep
                 \* in progress deleted them after the check, or still had to
                 \* when they were published; or the check was not answered

vars == <<objects, manifests, hidden, mark, clock, base, job, shown, left,
          ever, published, timely, late>>

storage == <<objects, manifests, hidden>>

NoMarks == [o \in Object |-> Unmarked]

IdleJob == [phase |-> "idle", parent |-> Nothing, uploads |-> {}, adopted |-> {},
            age |-> 0, index |-> {}, sweep |-> {}, pruned |-> {}, mark |-> NoMarks]

Idle(d) == job[d].phase = "idle"
Pushing(d) == job[d].phase \in {"uploaded", "confirmed"}
Sweeping(d) == job[d].phase \in {"indexed", "sweeping"}

Spend(f) == left[f] > 0 /\ left' = [left EXCEPT ![f] = @ - 1]

Init ==
    /\ objects = {} /\ manifests = {} /\ hidden = {}
    /\ mark = [d \in Device |-> NoMarks]
    /\ clock = [d \in Device |-> 0]
    /\ base = [d \in Device |-> Nothing]
    /\ job = [d \in Device |-> IdleJob]
    /\ shown = [d \in Device |-> Nothing]
    /\ left \in Budgets
    /\ ever = {} /\ published = {} /\ timely = {} /\ late = {}

---------------------------------------------------------------------------
(* The pure half: reclaim.ts.                                              *)

Gens(ms) == {m.gen : m \in ms}

Forked(ms) == {g \in Gens(ms) : \E m, n \in ms : m # n /\ m.gen = g /\ n.gen = g}

\* Mutation of RetainedGenerations: a fork is pruned like any generation.
RetainedNewest(ms) ==
    {g \in Gens(ms) : Cardinality({h \in Gens(ms) : h > g})
                        < (IF Keep > 1 THEN Keep ELSE 1)}

\* retainedGenerations: the newest Keep of them, and every forked one.
RetainedGenerations(ms) ==
    {g \in Gens(ms) : Cardinality({h \in Gens(ms) : h > g})
                        < (IF Keep > 1 THEN Keep ELSE 1)} \cup Forked(ms)

Retained(ms) == {m \in ms : m.gen \in RetainedGenerations(ms)}

\* reachableObjectKeys: live entries, retained versions and kept copies.
Reachable(ms) == UNION {m.names : m \in ms}

\* Mutation of Since: an object nobody marked is as old as can be.
SinceEver(marked, o, at) == IF marked[o] = Unmarked THEN 0 ELSE marked[o]

\* An object already marked keeps its time, unless that is in the future.
Since(marked, o, at) ==
    IF marked[o] = Unmarked \/ marked[o] > at THEN at ELSE marked[o]

\* capMark: the longest marked are kept, ties in the order of their keys.
CapMark(since) ==
    LET marked == {o \in Object : since[o] # Unmarked}
        ahead(o) == {p \in marked : \/ since[p] < since[o]
                                    \/ since[p] = since[o] /\ p < o}
    IN  [o \in Object |-> IF o \in marked /\ Cardinality(ahead(o)) < MaxMarked
                          THEN since[o] ELSE Unmarked]

\* planReclaim refuses a storage that lists objects and no manifest.
Refuses(ms, objs) == ms = {} /\ objs # {}

PlanReclaim(at, ms, objs, marked) ==
    LET garbage == objs \ Reachable(Retained(ms))
    IN  [sweep  |-> {o \in garbage : Since(marked, o, at) + Grace <= at},
         pruned |-> ms \ Retained(ms),
         mark   |-> CapMark([o \in Object |-> IF o \in garbage
                                              THEN Since(marked, o, at)
                                              ELSE Unmarked])]

\* The winner of the highest generation, or Nothing.
Top(ms) ==
    IF ms = {} THEN Nothing
    ELSE CHOOSE m \in ms : \A n \in ms : n.gen < m.gen \/ (n.gen = m.gen /\ m.dev <= n.dev)

GenOf(m) == IF m = Nothing THEN 0 ELSE m.gen

\* refuseReclaimOnRollback, and the same check of a pull or a push.
RolledBack(d, ms) == GenOf(Top(ms)) < GenOf(base[d])

---------------------------------------------------------------------------
(* A push: its uploads, the check of what it adopted, its publication.     *)

\* Two devices' jobs of different kinds run beside each other.
Beside(Other(_)) == IF \E e \in Device : Other(e) THEN 1 ELSE 0

(***************************************************************************)
(* What a push takes over: the probe finds it, or where the probe is not   *)
(* answered a guarded put is refused.  Without guards it is put again, and *)
(* counts as this push's own.                                              *)
(***************************************************************************)
Adopts(up, answered) == IF answered \/ Conditional THEN up \cap objects ELSE {}

(***************************************************************************)
(* doPush and applyPushOps up to the last upload: what is not adopted is   *)
(* put.  With nothing adopted there is nothing left to check.              *)
(***************************************************************************)
PushUpload(d) ==
    /\ Idle(d)
    /\ ~RolledBack(d, manifests)
    /\ \E up \in {{}} \cup {{o} : o \in Object}, answered \in BOOLEAN :
         /\ IF up = {} THEN manifests # {} /\ answered ELSE base[d] = Top(manifests)
         /\ left' = [left EXCEPT
                       !["content"] = @ - Cardinality(up \ ever),
                       !["adopt"] = @ - Cardinality(up \cap objects),
                       !["again"] = @ - Cardinality(up \cap (ever \ objects)),
                       !["unanswered"] = @ - (IF answered THEN 0 ELSE 1),
                       !["overlap"] = @ - Beside(Sweeping)]
         /\ \A f \in Fault : left'[f] >= 0
         /\ LET adopted == Adopts(up, answered)
            IN  job' = [job EXCEPT ![d] =
                          [IdleJob EXCEPT !.phase = IF adopted = {} THEN "confirmed"
                                                                   ELSE "uploaded",
                                          !.parent = Top(manifests),
                                          !.uploads = up, !.adopted = adopted]]
         /\ objects' = objects \cup up
         /\ ever' = ever \cup up
    /\ UNCHANGED <<manifests, hidden, mark, clock, base, shown, published, timely, late>>

(***************************************************************************)
(* confirmAdopted: an adopted object the storage says is gone ends the     *)
(* push; one it says nothing about does not.                               *)
(***************************************************************************)
PushConfirm(d) ==
    /\ job[d].phase = "uploaded"
    /\ \E told \in SUBSET job[d].adopted :
         /\ left' = [left EXCEPT !["unanswered"] = @ - Cardinality(job[d].adopted \ told)]
         /\ left'["unanswered"] >= 0
         /\ IF told \subseteq objects
            THEN /\ job' = [job EXCEPT ![d].phase = "confirmed"]
                 /\ late' = late \cup (job[d].adopted \ objects)
            ELSE job' = [job EXCEPT ![d] = IdleJob] /\ UNCHANGED late
    /\ UNCHANGED <<storage, mark, clock, base, shown, ever, published, timely>>

\* publishManifest and adoptBase: this device's base moves if it stands.
PushPublish(d) ==
    /\ job[d].phase = "confirmed"
    /\ hidden = {}
    /\ Spend("publish")
    /\ \E kept \in SUBSET (IF job[d].parent = Nothing THEN {} ELSE job[d].parent.names) :
         LET next == [gen |-> GenOf(job[d].parent) + 1, dev |-> d,
                      names |-> kept \cup job[d].uploads]
             others == {m \in manifests : m.gen # next.gen \/ m.dev # d}
         IN  /\ manifests' = others \cup {next}
             /\ published' = published \cup {next}
             /\ timely' = timely \cup {m \in {next} : \A n \in published : n.gen <= m.gen}
             /\ base' = [base EXCEPT ![d] = IF Top(manifests') = next THEN next ELSE @]
    /\ late' = late \cup {o \in job[d].adopted : \E e \in Device : o \in job[e].sweep}
    /\ job' = [job EXCEPT ![d] = IdleJob]
    /\ UNCHANGED <<objects, hidden, mark, clock, shown, ever>>

\* A pull, as far as the base goes.
Pull(d) ==
    /\ Idle(d)
    /\ manifests # {}
    /\ ~RolledBack(d, manifests)
    /\ base' = [base EXCEPT ![d] = Top(manifests)]
    /\ UNCHANGED <<storage, mark, clock, job, shown, left, ever, published, timely, late>>

---------------------------------------------------------------------------
(* The reclaim command: preview, dialog, recomputation, sweep.             *)

\* previewReclaim: the plan of now, for the dialog.
Preview(d) ==
    /\ d \in Sweeper
    /\ Idle(d) /\ shown[d] = Nothing
    /\ ~RolledBack(d, manifests)
    /\ ~Refuses(manifests, objects)
    /\ Spend("command")
    /\ shown' = [shown EXCEPT ![d] = PlanReclaim(clock[d], manifests, objects, mark[d])]
    /\ UNCHANGED <<storage, mark, clock, base, job, ever, published, timely, late>>

\* The dialog is closed: nothing follows if there was something to approve.
Decline(d) ==
    /\ shown[d] # Nothing
    /\ shown[d].sweep # {} \/ shown[d].pruned # {} \/ shown[d].mark = NoMarks
    /\ shown' = [shown EXCEPT ![d] = Nothing]
    /\ UNCHANGED <<storage, mark, clock, base, job, left, ever, published, timely, late>>

(***************************************************************************)
(* reclaimStorage, the first half of computeReclaimPlan: the manifests.    *)
(* Approved, the plan shown is the ceiling; closed with nothing to decide, *)
(* the ceiling is empty, which is what the plan shown is then.             *)
(***************************************************************************)
SweepIndex(d) ==
    /\ shown[d] # Nothing
    /\ Idle(d)
    /\ left' = [left EXCEPT !["overlap"] = @ - Beside(Pushing)]
    /\ left'["overlap"] >= 0
    /\ shown' = [shown EXCEPT ![d] = Nothing]
    /\ job' = [job EXCEPT ![d] =
                 [IdleJob EXCEPT !.phase = "indexed", !.index = manifests,
                                 !.sweep = shown[d].sweep, !.pruned = shown[d].pruned]]
    /\ UNCHANGED <<storage, mark, clock, base, ever, published, timely, late>>

\* The plan of now under the ceiling of the plan shown.
Recomputed(d, plan) ==
    [plan EXCEPT !.sweep = @ \cap job[d].sweep, !.pruned = @ \cap job[d].pruned]

\* The second half: objects and mark; then the refusals, then the ceiling.
SweepPlan(d) ==
    /\ job[d].phase = "indexed"
    /\ LET plan == Recomputed(d, PlanReclaim(clock[d], job[d].index, objects, mark[d]))
       IN  job' = [job EXCEPT ![d] =
                     IF RolledBack(d, job[d].index) \/ Refuses(job[d].index, objects)
                     THEN IdleJob
                     ELSE [job[d] EXCEPT !.phase = "sweeping", !.index = {},
                                         !.sweep = plan.sweep, !.pruned = plan.pruned,
                                         !.mark = plan.mark]]
    /\ UNCHANGED <<storage, mark, clock, base, shown, left, ever, published, timely, late>>

\* One object is deleted and leaves the mark (markAfterSweep).
SweepObject(d) ==
    /\ job[d].phase = "sweeping"
    /\ \E o \in job[d].sweep :
         /\ \A p \in job[d].sweep : o <= p
         /\ objects' = objects \ {o}
         /\ job' = [job EXCEPT ![d].sweep = @ \ {o}, ![d].mark[o] = Unmarked]
         /\ late' = IF \E e \in Device : job[e].phase = "confirmed" /\ o \in job[e].adopted
                    THEN late \cup {o} ELSE late
    /\ UNCHANGED <<manifests, hidden, mark, clock, base, shown, left, ever, published, timely>>

\* Then the manifests below the cut, one by one.
PruneManifest(d) ==
    /\ job[d].phase = "sweeping"
    /\ job[d].sweep = {}
    /\ \E m \in job[d].pruned :
         /\ manifests' = {n \in manifests : n.gen # m.gen \/ n.dev # m.dev}
         /\ hidden' = {n \in hidden : n.gen # m.gen \/ n.dev # m.dev}
         /\ job' = [job EXCEPT ![d].pruned = @ \ {m}]
    /\ UNCHANGED <<objects, mark, clock, base, shown, left, ever, published, timely, late>>

\* writeGcMark, whose failure is ignored.
SweepEnd(d) ==
    /\ job[d].phase = "sweeping"
    /\ job[d].sweep = {} /\ job[d].pruned = {}
    /\ \/ mark' = [mark EXCEPT ![d] = job[d].mark] /\ UNCHANGED left
       \/ Spend("unsaved") /\ UNCHANGED mark
    /\ job' = [job EXCEPT ![d] = IdleJob]
    /\ UNCHANGED <<storage, clock, base, shown, ever, published, timely, late>>

\* A lock, an error or a crash ends a job; a cancelled sweep writes no mark.
Stop(d) ==
    /\ ~Idle(d)
    /\ Spend("stop")
    /\ job' = [job EXCEPT ![d] = IdleJob]
    /\ UNCHANGED <<storage, mark, clock, base, shown, ever, published, timely, late>>

---------------------------------------------------------------------------
(* Time and storage.                                                       *)

(***************************************************************************)
(* Time passes on every clock.  A push takes less than the grace window:   *)
(* the assumption reclaim.ts:9-14 is built on.                             *)
(***************************************************************************)
Tick ==
    /\ \A d \in Device : clock[d] < MaxNow
    /\ \A d \in Device : Pushing(d) => job[d].age + 1 < Grace
    /\ clock' = [d \in Device |-> clock[d] + 1]
    /\ job' = [d \in Device |-> IF Pushing(d) THEN [job[d] EXCEPT !.age = @ + 1] ELSE job[d]]
    /\ UNCHANGED <<storage, mark, base, shown, left, ever, published, timely, late>>

\* A sweeper's clock is set, forwards only while nothing is being pushed.
ClockSet(d) ==
    /\ d \in Sweeper
    /\ Spend("jump")
    /\ \E t \in 0..MaxNow :
         /\ t < clock[d] \/ (t > clock[d] /\ \A e \in Device : ~Pushing(e))
         /\ clock' = [clock EXCEPT ![d] = t]
    /\ UNCHANGED <<storage, mark, base, job, shown, ever, published, timely, late>>

(***************************************************************************)
(* The storage lists none of its manifests, or none above a generation     *)
(* that every sweeping device has synced past; later it lists them again.  *)
(* Nobody publishes meanwhile.                                             *)
(***************************************************************************)
ListShort ==
    /\ hidden = {}
    /\ Spend("short")
    /\ \E g \in {0} \cup Gens(manifests) :
         /\ g = 0 \/ \A d \in Sweeper : GenOf(base[d]) > g
         /\ hidden' = {m \in manifests : m.gen > g}
         /\ hidden' # {}
    /\ manifests' = manifests \ hidden'
    /\ UNCHANGED <<objects, mark, clock, base, job, shown, ever, published, timely, late>>

ListWhole ==
    /\ hidden # {}
    /\ manifests' = manifests \cup hidden
    /\ hidden' = {}
    /\ UNCHANGED <<objects, mark, clock, base, job, shown, left, ever, published, timely, late>>

DeviceNext(d) ==
    \/ PushUpload(d) \/ PushConfirm(d) \/ PushPublish(d) \/ Pull(d)
    \/ Preview(d) \/ Decline(d) \/ SweepIndex(d) \/ SweepPlan(d)
    \/ SweepObject(d) \/ PruneManifest(d) \/ SweepEnd(d)
    \/ Stop(d) \/ ClockSet(d)

Next == (\E d \in Device : DeviceNext(d)) \/ Tick \/ ListShort \/ ListWhole

Spec == Init /\ [][Next]_vars

---------------------------------------------------------------------------
(***************************************************************************)
(* Every object a retained manifest names can be fetched, the manifests a  *)
(* short list leaves out included.  Two losses that the code accepts are   *)
(* left out, both of an object that a push adopts though nothing names it  *)
(* any more: a sweep that had planned it deletes it after the push has     *)
(* checked that it is there; or it is gone before, and the check is not    *)
(* answered, which does not fail the push (apply.ts:443-468).              *)
(* confirmAdopted, planReclaim, ADR-0030, ADR-0061.                        *)
(***************************************************************************)
Fetchable ==
    \A m \in Retained(manifests \cup hidden) : m.names \subseteq objects \cup late

(***************************************************************************)
(* Pruning never hides from a device that its base lost a fork: where the  *)
(* winner was published before anybody went on to the next generation,     *)
(* whoever overruled the base is still there to be found (ADR-0084).       *)
(***************************************************************************)
Overruled(ms, b) ==
    \E m \in ms : m.gen = b.gen /\ m.dev < b.dev

LoserFindsOut ==
    \A d \in Device :
        base[d] # Nothing /\ Overruled(timely, base[d])
            => Overruled(manifests \cup hidden, base[d])
=============================================================================

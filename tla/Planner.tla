------------------------------ MODULE Planner ------------------------------
(***************************************************************************)
(* The pure planner of packages/core/src/plan.ts: a deterministic function *)
(* of what the scan found, the base and the storage's manifest.  A plan is *)
(* the set of its operations; Before is the order they are applied in.     *)
(***************************************************************************)
EXTENDS Manifests, FiniteSetsExt

CONSTANT Fold   \* [Path -> anything]: paths a case-insensitive disk confuses

Live(side) == side \in Hash

\* manifestState
SideOf(m, p) ==
    IF m = NoManifest THEN Absent
    ELSE IF m.files[p] # Absent THEN m.files[p]
    ELSE IF m.tombs[p] # Absent THEN Tombstoned ELSE Absent

KindOrder == [conflict |-> 0, download |-> 1, deleteLocal |-> 2,
              upload |-> 3, deleteRemote |-> 4]

\* Operations are sorted by kind, those of one kind by path.
Before(o, op) ==
    \/ KindOrder[o.kind] < KindOrder[op.kind]
    \/ o.kind = op.kind /\ o.path < op.path

PullKinds == {"conflict", "download", "deleteLocal"}
PushKinds == {"upload", "deleteRemote"}

(***************************************************************************)
(* classify: the decision table over (local, base, remote); "none" when    *)
(* there is nothing to do.                                                 *)
(***************************************************************************)
Classify(l, b, r) ==
    CASE ~Live(l) /\ ~Live(r)                       -> "none"
      [] ~Live(l) /\ Live(r) /\ ~Live(b)            -> "download"
      [] ~Live(l) /\ Live(r) /\ b = r               -> "deleteRemote"
      [] ~Live(l) /\ Live(r) /\ Live(b) /\ b # r    -> "conflict"
      [] Live(l) /\ l = r                           -> "none"
      [] Live(l) /\ Live(r) /\ l # r /\ ~Live(b)    -> "conflict"
      [] Live(l) /\ Live(r) /\ l # r /\ b = r       -> "upload"
      [] Live(l) /\ Live(r) /\ l # r /\ b = l       -> "download"
      [] Live(l) /\ Live(r) /\ l # r /\ Live(b)
           /\ b # l /\ b # r                        -> "conflict"
      [] Live(l) /\ r = Tombstoned /\ b = l         -> "deleteLocal"
      [] Live(l) /\ r = Tombstoned /\ b = Tombstoned -> "upload"
      [] Live(l) /\ r = Tombstoned /\ b # l /\ b # Tombstoned -> "conflict"
      [] Live(l) /\ r = Absent                      -> "upload"

\* A remote file whose name a local file takes once case is folded; of several
\* such files the map of folded names keeps the last.
Collides(local, p) ==
    LET takers == {q \in Path : local[q] # Absent /\ Fold[q] = Fold[p]}
    IN  takers # {} /\ Max(takers) # p

Operation(local, b, remote, p) ==
    LET kind == Classify(local[p], SideOf(b, p), SideOf(remote, p))
    IN  [path  |-> p,
         kind  |-> IF kind = "download" /\ Collides(local, p)
                   THEN "conflict" ELSE kind,
         local |-> local[p]]

Operations(local, b, remote, syncable) ==
    {Operation(local, b, remote, p) :
        p \in {q \in Path : local[q] # Absent \/ q \in syncable}}

\* The operations of a plan: "none" is no operation.
PlanOps(local, b, remote, syncable) ==
    {o \in Operations(local, b, remote, syncable) : o.kind # "none"}

---------------------------------------------------------------------------
(* The bulk-change breaker.                                                *)

\* An operation that destroys or replaces existing bytes somewhere.
Destructive(op) ==
    \/ op.kind \in {"deleteLocal", "deleteRemote"}
    \/ op.kind = "download" /\ op.local # Absent

\* destructiveKey: what a person confirmed, by what it does and where.
DestructiveKeys(ops) == {<<o.kind, o.path>> : o \in {x \in ops : Destructive(x)}}

(***************************************************************************)
(* peakBurst: the most deletions of one device inside one window.  A       *)
(* deletion is a path with its tombstone, so equal times still count.      *)
(***************************************************************************)
PeakBurst(deletions, window) ==
    Max({0} \cup
        {Cardinality({e \in deletions : /\ e.tomb.dev = d.tomb.dev
                                        /\ e.tomb.at <= d.tomb.at
                                        /\ d.tomb.at - e.tomb.at <= window})
            : d \in deletions})

\* How much the breaker counts: everything unpaced, and the largest burst.
Effective(ops, remote, window) ==
    LET destructive == {o \in ops : Destructive(o)}
        paced == {o \in destructive : /\ o.kind = "deleteLocal"
                                      /\ remote.tombs[o.path] # Absent}
        deletions == {[path |-> o.path, tomb |-> remote.tombs[o.path]] : o \in paced}
    IN  Cardinality(destructive \ paced) + PeakBurst(deletions, window)

\* n of the local files, against the floor, the ceiling and the fraction.
Fires(n, localCount, tuning) ==
    /\ n > tuning.floor
    /\ \/ n >= tuning.maxFiles
       \/ n * tuning.fractionOf >= tuning.fraction * localCount

LocalCount(local) == Cardinality({p \in Path : local[p] # Absent})

RequiresConfirmation(local, ops, remote, tuning) ==
    Fires(Effective(ops, remote, tuning.window), LocalCount(local), tuning)

\* The divergence guard: somebody published since the base.
PullFirst(b, remote) == remote # NoManifest /\ remote.gen > GenOf(b)
=============================================================================

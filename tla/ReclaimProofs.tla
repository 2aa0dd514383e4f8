---------------------------- MODULE ReclaimProofs ----------------------------
(***************************************************************************)
(* Proofs about Reclaim: whatever the number of devices, objects and       *)
(* generations kept, and however pushes, pulls and sweeps interleave, a    *)
(* device whose base lost a fork can still find out.                       *)
(***************************************************************************)
EXTENDS Reclaim, FiniteSetTheorems, WellFoundedInduction, TLAPS

Listed == manifests \cup hidden

\* There is a manifest of this generation and device.
Slot(ms, g, e) == \E n \in ms : n.gen = g /\ n.dev = e

(***************************************************************************)
(* The inductive invariant.                                                *)
(***************************************************************************)

\* A record with the fields of a job.
Record(j) ==
    j = [phase |-> j.phase, parent |-> j.parent, uploads |-> j.uploads,
         adopted |-> j.adopted, age |-> j.age, index |-> j.index, sweep |-> j.sweep,
         pruned |-> j.pruned, mark |-> j.mark]

\* A job knows manifests that were published.
KnowsPublished(j) ==
    /\ Record(j)
    /\ j.parent \in published \cup {Nothing}
    /\ j.index \subseteq published

Shape ==
    /\ \A m \in published : m.gen \in Nat /\ m.gen >= 1 /\ m.dev \in Nat
    /\ \E top \in Nat : \A m \in published : m.gen <= top
    /\ manifests \subseteq published /\ hidden \subseteq published
    /\ timely \subseteq published
    /\ base = [d \in Device |-> base[d]] /\ job = [d \in Device |-> job[d]]
    /\ \A d \in Device : base[d] \in published \cup {Nothing} /\ KnowsPublished(job[d])

\* What is not there any more was not of the highest generation.
NewestStays ==
    \A p \in published :
        Slot(Listed, p.gen, p.dev) \/ \E q \in published : q.gen > p.gen

\* A plan being carried out prunes below the highest generation only.
PrunesBelow(j) ==
    j.phase = "sweeping" => \A p \in j.pruned : \E q \in published : q.gen > p.gen

\* No sweep in progress will prune this generation.
Spares(j, g) ==
    /\ j.phase = "sweeping" => \A p \in j.pruned : p.gen # g
    /\ j.phase = "indexed" => g \in Forked(j.index) \/ \A q \in j.index : q.gen <= g

\* The fork that a base lost is whole, and no sweep in progress will prune it.
ForkStands(b) ==
    /\ Overruled(Listed, b) /\ Slot(Listed, b.gen, b.dev)
    /\ \A e \in Device : Spares(job[e], b.gen)

ForksStand ==
    \A d \in Device :
        base[d] # Nothing /\ Overruled(timely, base[d]) => ForkStands(base[d])

\* Who is shown a short list has synced past all it shows.
ShortSeen ==
    hidden # {} => \A d \in Device : \A m \in manifests : m.gen < GenOf(base[d])

Inv == /\ Shape /\ NewestStays /\ ForksStand /\ ShortSeen
       /\ \A d \in Device : PrunesBelow(job[d])

(***************************************************************************)
(* Least and greatest elements.                                            *)
(***************************************************************************)

\* A set of naturals that is not empty has a least element.
LEMMA LeastOf ==
    ASSUME NEW S \in SUBSET Nat, S # {}
    PROVE  \E x \in S : \A y \in S : x <= y
<1>1. PICK x \in S : \A y \in S : ~(<<y, x>> \in OpToRel(<, Nat))
  BY NatLessThanWellFounded, WFMin
<1>2. ASSUME NEW y \in S PROVE x <= y
  <2>1. x \in Nat /\ y \in Nat /\ ~(y < x)
    BY <1>1 DEF OpToRel
  <2> QED
    BY <2>1
<1> QED
  BY <1>2

\* A bounded one has a greatest.
LEMMA GreatestOf ==
    ASSUME NEW S \in SUBSET Nat, S # {}, NEW top \in Nat, \A x \in S : x <= top
    PROVE  \E x \in S : \A y \in S : y <= x
<1> DEFINE gaps == {top - x : x \in S}
<1>1. gaps \in SUBSET Nat /\ gaps # {}
  <2>1. \A x \in S : top - x \in Nat
    OBVIOUS
  <2> QED
    BY <2>1
<1>2. PICK b \in gaps : \A c \in gaps : b <= c
  BY <1>1, LeastOf
<1>3. PICK x \in S : b = top - x
  OBVIOUS
<1>4. ASSUME NEW y \in S PROVE y <= x
  <2>1. x \in Nat /\ y \in Nat /\ top - x <= top - y
    BY <1>2, <1>3
  <2> QED
    BY <2>1
<1> QED
  BY <1>4

\* Manifests with generations below a bound have a winner (loadRemote, winnerAt).
LEMMA TopIs ==
    ASSUME NEW ms, ms # {}, \A m \in ms : m.gen \in Nat /\ m.dev \in Nat,
           NEW top \in Nat, \A m \in ms : m.gen <= top
    PROVE  /\ Top(ms) \in ms
           /\ \A n \in ms : n.gen < Top(ms).gen
                              \/ (n.gen = Top(ms).gen /\ Top(ms).dev <= n.dev)
<1>1. PICK g \in Gens(ms) : \A h \in Gens(ms) : h <= g
  <2>1. Gens(ms) \in SUBSET Nat /\ Gens(ms) # {} /\ \A h \in Gens(ms) : h <= top
    BY DEF Gens
  <2> QED
    BY <2>1, GreatestOf
<1> DEFINE devs == {m.dev : m \in {n \in ms : n.gen = g}}
<1>2. devs \in SUBSET Nat /\ devs # {}
  BY DEF Gens
<1>3. PICK e \in devs : \A f \in devs : e <= f
  BY <1>2, LeastOf
<1>4. PICK m \in ms : m.gen = g /\ m.dev = e
  OBVIOUS
<1>5. \A n \in ms : m.gen \in Nat /\ n.gen \in Nat /\ n.gen <= m.gen
  BY <1>1, <1>4 DEF Gens
<1>6. \A n \in ms : n.gen = m.gen => m.dev <= n.dev
  BY <1>3, <1>4
<1>7. \A n \in ms : n.gen < m.gen \/ (n.gen = m.gen /\ m.dev <= n.dev)
  BY <1>5, <1>6
<1> QED
  BY <1>7 DEF Top

(***************************************************************************)
(* retainedGenerations: what is pruned was not forked and not the newest.  *)
(***************************************************************************)
LEMMA PrunedIsOld ==
    ASSUME NEW ms, NEW p \in ms \ Retained(ms)
    PROVE  p.gen \notin Forked(ms) /\ \E q \in ms : q.gen > p.gen
<1> DEFINE above == {h \in Gens(ms) : h > p.gen}
           kept == IF Keep > 1 THEN Keep ELSE 1
<1>1. p.gen \in Gens(ms) /\ p.gen \notin RetainedGenerations(ms)
  BY DEF Retained, Gens
<1>2. p.gen \notin Forked(ms) /\ ~(Cardinality(above) < kept)
  BY <1>1 DEF RetainedGenerations
<1>3. kept \in Nat /\ 0 < kept
  BY ReclaimAssumption
<1>4. above # {}
  BY <1>2, <1>3, FS_EmptySet
<1> QED
  BY <1>2, <1>4 DEF Gens

---------------------------------------------------------------------------
(* The winner of what is listed.                                           *)

\* A storage that lists something lists a winner.
LEMMA TopListed ==
    ASSUME Shape, manifests # {}
    PROVE  /\ Top(manifests) \in manifests /\ Top(manifests) \in published
           /\ \A n \in manifests : n.gen < Top(manifests).gen
                \/ (n.gen = Top(manifests).gen /\ Top(manifests).dev <= n.dev)
<1>1. PICK top \in Nat : \A m \in published : m.gen <= top
  BY DEF Shape
<1>2. \A m \in manifests : m.gen \in Nat /\ m.dev \in Nat /\ m.gen <= top
  BY <1>1 DEF Shape
<1>3. /\ Top(manifests) \in manifests
      /\ \A n \in manifests : n.gen < Top(manifests).gen
           \/ (n.gen = Top(manifests).gen /\ Top(manifests).dev <= n.dev)
  BY <1>2, TopIs
<1> QED
  BY <1>3 DEF Shape

\* Nothing that was published overrules the winner of a whole list.
LEMMA TopStands ==
    ASSUME NEW pub, NEW ms, ms \subseteq pub, ms # {},
           \A m \in pub : m.gen \in Nat /\ m.dev \in Nat,
           NEW top \in Nat, \A m \in pub : m.gen <= top,
           \A p \in pub : Slot(ms, p.gen, p.dev) \/ \E q \in pub : q.gen > p.gen
    PROVE  ~Overruled(pub, Top(ms))
<1> DEFINE t == Top(ms)
<1>1. /\ t \in ms
      /\ \A n \in ms : n.gen < t.gen \/ (n.gen = t.gen /\ t.dev <= n.dev)
  <2>1. \A m \in ms : m.gen \in Nat /\ m.dev \in Nat /\ m.gen <= top
    OBVIOUS
  <2> QED
    BY <2>1, TopIs
<1> HIDE DEF t
<1>2. PICK g \in Gens(pub) : \A h \in Gens(pub) : h <= g
  <2>1. /\ Gens(pub) \in SUBSET Nat /\ Gens(pub) # {}
        /\ \A h \in Gens(pub) : h <= top
    BY <1>1 DEF Gens
  <2> QED
    BY <2>1, GreatestOf
<1>3. g \in Nat /\ \A p \in pub : p.gen <= g
  BY <1>2 DEF Gens
<1>4. \A p \in pub : p.gen = g => Slot(ms, p.gen, p.dev)
  BY <1>3
<1>5. t.gen = g
  <2>1. PICK p \in pub : p.gen = g
    BY <1>2 DEF Gens
  <2>2. PICK n \in ms : n.gen = g
    BY <1>4, <2>1 DEF Slot
  <2> QED
    BY <1>1, <1>3, <2>2
<1>6. ASSUME NEW m \in pub, m.gen = t.gen, m.dev < t.dev
      PROVE  FALSE
  <2>1. PICK n \in ms : n.gen = g /\ n.dev = m.dev
    BY <1>4, <1>5, <1>6 DEF Slot
  <2>2. n \in pub /\ t \in pub
    BY <1>1
  <2> QED
    BY <1>1, <1>3, <1>5, <1>6, <2>1, <2>2
<1> QED
  BY <1>6 DEF Overruled, t

---------------------------------------------------------------------------
(* Steps that leave the manifests and the bases alone.                     *)

\* The jobs change, and still spare the forks that a base lost.
LEMMA JobsKeepInv ==
    ASSUME Inv, UNCHANGED <<manifests, hidden, base, published, timely>>,
           job' = [e \in Device |-> job'[e]],
           \A e \in Device : /\ KnowsPublished(job'[e]) /\ PrunesBelow(job'[e])
                             /\ \A c \in Device :
                                  base[c] # Nothing /\ Overruled(timely, base[c])
                                    => Spares(job'[e], base[c].gen)
    PROVE  Inv'
<1>1. Shape'
  BY DEF Inv, Shape, KnowsPublished
<1>2. NewestStays' /\ ShortSeen'
  BY DEF Inv, NewestStays, ShortSeen, Listed
<1>3. ForksStand'
  BY DEF Inv, ForksStand, ForkStands, Listed
<1>4. (\A e \in Device : PrunesBelow(job[e]))'
  BY DEF PrunesBelow
<1> QED
  BY <1>1, <1>2, <1>3, <1>4 DEF Inv

\* A job that is not a sweep in progress prunes nothing.
LEMMA NotSweeping ==
    ASSUME NEW j, j.phase \notin {"indexed", "sweeping"}
    PROVE  PrunesBelow(j) /\ \A g : Spares(j, g)
BY DEF PrunesBelow, Spares

\* One job becomes another.
LEMMA JobKeepsInv ==
    ASSUME Inv, UNCHANGED <<manifests, hidden, base, published, timely>>,
           NEW d \in Device, NEW j, job' = [job EXCEPT ![d] = j],
           KnowsPublished(j), PrunesBelow(j),
           \A c \in Device : base[c] # Nothing /\ Overruled(timely, base[c])
                               => Spares(j, base[c].gen)
    PROVE  Inv'
<1>1. /\ job = [e \in Device |-> job[e]]
      /\ \A e \in Device : KnowsPublished(job[e]) /\ PrunesBelow(job[e])
      /\ \A c, e \in Device : base[c] # Nothing /\ Overruled(timely, base[c])
                                => Spares(job[e], base[c].gen)
  BY DEF Inv, Shape, ForksStand, ForkStands
<1>2. job' = [e \in Device |-> job'[e]] /\ \A e \in Device : job'[e] \in {j, job[e]}
  BY <1>1
<1> QED
  BY <1>1, <1>2, JobsKeepInv

\* No job changes either.
LEMMA SameKeepsInv ==
    ASSUME Inv, UNCHANGED <<manifests, hidden, base, published, timely, job>>
    PROVE  Inv'
<1>1. /\ job = [e \in Device |-> job[e]]
      /\ \A e \in Device : KnowsPublished(job[e]) /\ PrunesBelow(job[e])
      /\ \A c, e \in Device : base[c] # Nothing /\ Overruled(timely, base[c])
                                => Spares(job[e], base[c].gen)
  BY DEF Inv, Shape, ForksStand, ForkStands
<1> QED
  BY <1>1, JobsKeepInv

\* A job ends.
LEMMA IdleKnows == KnowsPublished(IdleJob) /\ IdleJob.phase = "idle"
BY DEF KnowsPublished, Record, IdleJob

\* The job a push starts as.
Starting(phase, parent, uploads, adopted) ==
    [IdleJob EXCEPT !.phase = phase, !.parent = parent,
                    !.uploads = uploads, !.adopted = adopted]

\* It has the fields of a job and no manifests of a sweep.
LEMMA StartsAs ==
    ASSUME NEW phase, NEW parent, NEW uploads, NEW adopted
    PROVE  /\ Record(Starting(phase, parent, uploads, adopted))
           /\ Starting(phase, parent, uploads, adopted).phase = phase
           /\ Starting(phase, parent, uploads, adopted).parent = parent
           /\ Starting(phase, parent, uploads, adopted).index = {}
           /\ Starting(phase, parent, uploads, adopted).uploads = uploads
<1> DEFINE w == [IdleJob EXCEPT !.phase = phase]
           x == [w EXCEPT !.parent = parent]
           y == [x EXCEPT !.uploads = uploads]
           z == [y EXCEPT !.adopted = adopted]
<1>1. Starting(phase, parent, uploads, adopted) = z
  BY DEF Starting
<1>2. Record(IdleJob) /\ IdleJob.index = {}
  BY IdleKnows DEF KnowsPublished, IdleJob
<1>3. Record(w) /\ w.phase = phase /\ w.index = {}
  BY <1>2 DEF Record
<1> HIDE DEF w
<1>4. Record(x) /\ x.phase = phase /\ x.index = {} /\ x.parent = parent
  BY <1>3 DEF Record
<1> HIDE DEF x
<1>5. /\ Record(y) /\ y.phase = phase /\ y.index = {} /\ y.parent = parent
      /\ y.uploads = uploads
  BY <1>4 DEF Record
<1> HIDE DEF y
<1>6. /\ Record(z) /\ z.phase = phase /\ z.index = {} /\ z.parent = parent
      /\ z.uploads = uploads
  BY <1>5 DEF Record
<1> HIDE DEF z
<1> QED
  BY <1>1, <1>6

\* A push uploads, and checks what it adopted (doPush, confirmAdopted).
LEMMA PushKeepsInv ==
    ASSUME Inv, NEW d \in Device, PushUpload(d) \/ PushConfirm(d)
    PROVE  Inv'
<1>1. UNCHANGED <<manifests, hidden, base, published, timely>>
  BY DEF PushUpload, PushConfirm, storage
<1>2. ASSUME NEW j, job' = [job EXCEPT ![d] = j], KnowsPublished(j),
             j.phase \notin {"indexed", "sweeping"}
      PROVE  Inv'
  BY <1>1, <1>2, NotSweeping, JobKeepsInv
<1>3. CASE PushUpload(d)
  <2>1. PICK up, answered :
          job' = [job EXCEPT ![d] =
                    [IdleJob EXCEPT !.phase = IF Adopts(up, answered) = {}
                                              THEN "confirmed" ELSE "uploaded",
                                    !.parent = Top(manifests), !.uploads = up,
                                    !.adopted = Adopts(up, answered)]]
    BY <1>3 DEF PushUpload
  <2> DEFINE t == Top(manifests)
             adopted == Adopts(up, answered)
             phase == IF adopted = {} THEN "confirmed" ELSE "uploaded"
             j == Starting(phase, t, up, adopted)
  <2>2. job' = [job EXCEPT ![d] = j]
    BY <2>1 DEF Starting
  <2>3. t \in published \cup {Nothing}
    BY TopListed DEF Inv, Top
  <2>4. phase \in {"confirmed", "uploaded"}
    OBVIOUS
  <2> HIDE DEF t, phase, adopted
  <2>5. KnowsPublished(j) /\ j.phase = phase
    <3>1. Record(j) /\ j.phase = phase /\ j.parent = t /\ j.index = {}
      BY StartsAs
    <3> HIDE DEF j
    <3> QED
      BY <2>3, <3>1 DEF KnowsPublished
  <2> QED
    BY <1>2, <2>2, <2>4, <2>5
<1>4. CASE PushConfirm(d)
  <2>1. CASE job' = [job EXCEPT ![d] = IdleJob]
    BY <1>2, <2>1, IdleKnows
  <2>2. CASE job' = [job EXCEPT ![d] = [job[d] EXCEPT !.phase = "confirmed"]]
    <3> DEFINE j == [job[d] EXCEPT !.phase = "confirmed"]
    <3>1. KnowsPublished(job[d])
      BY DEF Inv, Shape
    <3>2. KnowsPublished(j) /\ j.phase = "confirmed"
      BY <3>1 DEF KnowsPublished, Record
    <3> QED
      BY <1>2, <2>2, <3>2
  <2> QED
    BY <1>4, <2>1, <2>2 DEF PushConfirm
<1> QED
  BY <1>3, <1>4


\* The updates a sweep makes to its job.
Indexing(j, phase, index, sweep, pruned) ==
    [j EXCEPT !.phase = phase, !.index = index, !.sweep = sweep, !.pruned = pruned]

Planned(j, phase, index, sweep, pruned, marked) ==
    [j EXCEPT !.phase = phase, !.index = index, !.sweep = sweep, !.pruned = pruned,
              !.mark = marked]

Deleting(j, sweep, marked) == [j EXCEPT !.sweep = sweep, !.mark = marked]

Shows(k, parent, phase, index, sweep, pruned) ==
    /\ Record(k) /\ k.parent = parent
    /\ k.phase = phase /\ k.index = index /\ k.sweep = sweep /\ k.pruned = pruned

\* They leave the rest of it as it was.
LEMMA SweepUpdates ==
    ASSUME NEW j, Record(j), NEW phase, NEW index, NEW sweep, NEW pruned, NEW marked
    PROVE  /\ Shows(Indexing(j, phase, index, sweep, pruned),
                    j.parent, phase, index, sweep, pruned)
           /\ Shows(Planned(j, phase, index, sweep, pruned, marked),
                    j.parent, phase, index, sweep, pruned)
           /\ Shows(Deleting(j, sweep, marked), j.parent, j.phase, j.index, sweep, j.pruned)
<1> USE DEF Shows
<1> DEFINE w == [j EXCEPT !.phase = phase]
           x == [w EXCEPT !.index = index]
           y == [x EXCEPT !.sweep = sweep]
           z == [y EXCEPT !.pruned = pruned]
           m == [z EXCEPT !.mark = marked]
           u == [j EXCEPT !.sweep = sweep]
           v == [u EXCEPT !.mark = marked]
<1>1. /\ Indexing(j, phase, index, sweep, pruned) = z
      /\ Planned(j, phase, index, sweep, pruned, marked) = m
      /\ Deleting(j, sweep, marked) = v
  BY DEF Indexing, Planned, Deleting
<1>2. Shows(u, j.parent, j.phase, j.index, sweep, j.pruned)
  BY DEF Record
<1> HIDE DEF u
<1>3. Shows(v, j.parent, j.phase, j.index, sweep, j.pruned)
  BY <1>2 DEF Record
<1> HIDE DEF v
<1>4. Shows(w, j.parent, phase, j.index, j.sweep, j.pruned)
  BY DEF Record
<1> HIDE DEF w
<1>5. Shows(x, j.parent, phase, index, j.sweep, j.pruned)
  BY <1>4 DEF Record
<1> HIDE DEF x
<1>6. Shows(y, j.parent, phase, index, sweep, j.pruned)
  BY <1>5 DEF Record
<1> HIDE DEF y
<1>7. Shows(z, j.parent, phase, index, sweep, pruned)
  BY <1>6 DEF Record
<1> HIDE DEF z
<1>8. Shows(m, j.parent, phase, index, sweep, pruned)
  BY <1>7 DEF Record
<1> HIDE DEF m
<1> QED
  BY <1>1, <1>3, <1>7, <1>8

\* A sweep plans, deletes and ends; any job may (reclaimStorage).
LEMMA SweepKeepsInv ==
    ASSUME Inv, NEW d \in Device,
           SweepIndex(d) \/ SweepPlan(d) \/ SweepObject(d) \/ SweepEnd(d) \/ Stop(d)
    PROVE  Inv'
<1>1. UNCHANGED <<manifests, hidden, base, published, timely>>
  BY DEF SweepIndex, SweepPlan, SweepObject, SweepEnd, Stop, storage
<1>2. KnowsPublished(job[d]) /\ PrunesBelow(job[d]) /\ manifests \subseteq published
  BY DEF Inv, Shape
<1>3. \A c \in Device :
        base[c] # Nothing /\ Overruled(timely, base[c])
          => ForkStands(base[c]) /\ Spares(job[d], base[c].gen)
  BY DEF Inv, ForksStand, ForkStands
<1>4. ASSUME job' = [job EXCEPT ![d] = IdleJob]
      PROVE  Inv'
  BY <1>1, <1>4, NotSweeping, IdleKnows, JobKeepsInv
<1>5. CASE SweepIndex(d)
  <2> DEFINE j == Indexing(IdleJob, "indexed", manifests, shown[d].sweep, shown[d].pruned)
  <2>1. job' = [job EXCEPT ![d] = j]
    BY <1>5 DEF SweepIndex, Indexing
  <2>2. /\ Record(j) /\ j.phase = "indexed" /\ j.index = manifests
        /\ j.parent \in published \cup {Nothing}
    <3>1. Record(IdleJob) /\ IdleJob.parent \in published \cup {Nothing}
      BY IdleKnows DEF KnowsPublished
    <3>2. /\ Record(j) /\ j.phase = "indexed" /\ j.index = manifests
          /\ j.parent = IdleJob.parent
      BY <3>1, SweepUpdates DEF Shows
    <3> QED
      BY <3>1, <3>2
  <2> HIDE DEF j
  <2>3. KnowsPublished(j) /\ PrunesBelow(j)
    BY <1>2, <2>2 DEF KnowsPublished, PrunesBelow
  <2>4. ASSUME NEW c \in Device, base[c] # Nothing, Overruled(timely, base[c])
        PROVE  Spares(j, base[c].gen)
    <3> DEFINE b == base[c]
    <3>1. ForkStands(b)
      BY <1>3, <2>4
    <3>2. b \in published /\ b.gen \in Nat /\ b.dev \in Nat
      BY <2>4 DEF Inv, Shape
    <3>3. CASE hidden = {}
      <4>1. PICK m \in manifests : m.gen = b.gen /\ m.dev < b.dev
        BY <3>1, <3>3 DEF ForkStands, Overruled, Listed
      <4>2. PICK n \in manifests : n.gen = b.gen /\ n.dev = b.dev
        BY <3>1, <3>3 DEF ForkStands, Slot, Listed
      <4>3. m # n
        BY <3>2, <4>1, <4>2
      <4>4. b.gen \in Forked(manifests)
        BY <4>1, <4>2, <4>3 DEF Forked, Gens
      <4> QED
        BY <2>2, <4>4 DEF Spares
    <3>4. CASE hidden # {}
      <4>1. \A q \in manifests : q.gen < GenOf(b) /\ q.gen \in Nat
        BY <3>4 DEF Inv, ShortSeen, Shape
      <4>2. \A q \in manifests : q.gen <= b.gen
        BY <2>4, <3>2, <4>1 DEF GenOf
      <4> QED
        BY <2>2, <4>2 DEF Spares
    <3> QED
      BY <3>3, <3>4
  <2> QED
    BY <1>1, <2>1, <2>3, <2>4, JobKeepsInv
<1>6. CASE SweepPlan(d)
  <2> DEFINE plan == Recomputed(d, PlanReclaim(clock[d], job[d].index, objects, mark[d]))
             j == Planned(job[d], "sweeping", {}, plan.sweep, plan.pruned, plan.mark)
  <2>1. job' = [job EXCEPT ![d] = IdleJob] \/ job' = [job EXCEPT ![d] = j]
    BY <1>6 DEF SweepPlan, Planned
  <2>2. plan.pruned \subseteq job[d].index \ Retained(job[d].index)
    BY DEF Recomputed, PlanReclaim
  <2> HIDE DEF plan
  <2>3. /\ Record(j) /\ j.phase = "sweeping" /\ j.index = {} /\ j.pruned = plan.pruned
        /\ j.parent = job[d].parent
    BY <1>2, SweepUpdates DEF KnowsPublished, Shows
  <2> HIDE DEF j
  <2>4. \A p \in j.pruned :
          p.gen \notin Forked(job[d].index) /\ \E q \in job[d].index : q.gen > p.gen
    BY <2>2, <2>3, PrunedIsOld
  <2>5. KnowsPublished(j) /\ PrunesBelow(j)
    BY <1>2, <2>3, <2>4 DEF KnowsPublished, PrunesBelow
  <2>6. ASSUME NEW c \in Device, base[c] # Nothing, Overruled(timely, base[c])
        PROVE  Spares(j, base[c].gen)
    <3> DEFINE g == base[c].gen
    <3>1. g \in Forked(job[d].index) \/ \A q \in job[d].index : q.gen <= g
      BY <1>3, <1>6, <2>6 DEF Spares, SweepPlan
    <3>2. g \in Nat /\ \A q \in job[d].index : q.gen \in Nat
      BY <1>2, <2>6 DEF KnowsPublished, Inv, Shape
    <3>3. \A p \in j.pruned : p.gen # g
      BY <2>4, <3>1, <3>2
    <3> QED
      BY <2>3, <3>3 DEF Spares
  <2> QED
    BY <1>1, <1>4, <2>1, <2>5, <2>6, JobKeepsInv
<1>7. CASE SweepObject(d)
  <2>1. PICK o \in job[d].sweep :
          job' = [job EXCEPT ![d].sweep = @ \ {o}, ![d].mark[o] = Unmarked]
    BY <1>7 DEF SweepObject
  <2> DEFINE sweep == job[d].sweep \ {o}
             marked == [job[d].mark EXCEPT ![o] = Unmarked]
             j == Deleting(job[d], sweep, marked)
  <2>2. job' = [job EXCEPT ![d] = j]
    BY <1>2, <2>1 DEF KnowsPublished, Record, Inv, Shape, Deleting
  <2> HIDE DEF sweep, marked
  <2>3. /\ Record(j) /\ j.phase = job[d].phase /\ j.index = job[d].index
        /\ j.pruned = job[d].pruned /\ j.parent = job[d].parent
    BY <1>2, SweepUpdates DEF KnowsPublished, Shows
  <2> HIDE DEF j
  <2>4. KnowsPublished(j) /\ PrunesBelow(j)
    BY <1>2, <2>3 DEF KnowsPublished, PrunesBelow
  <2>5. ASSUME NEW c \in Device, base[c] # Nothing, Overruled(timely, base[c])
        PROVE  Spares(j, base[c].gen)
    BY <1>3, <2>3, <2>5 DEF Spares
  <2> QED
    BY <1>1, <2>2, <2>4, <2>5, JobKeepsInv
<1>8. CASE SweepEnd(d) \/ Stop(d)
  BY <1>4, <1>8 DEF SweepEnd, Stop
<1> QED
  BY <1>5, <1>6, <1>7, <1>8

\* Time passes: a push ages (the grace window).
LEMMA TickKeepsInv == ASSUME Inv, Tick PROVE Inv'
<1>1. UNCHANGED <<manifests, hidden, base, published, timely>>
  BY DEF Tick, storage
<1>2. job' = [e \in Device |-> job'[e]]
  BY DEF Tick
<1>3. ASSUME NEW e \in Device
      PROVE  /\ KnowsPublished(job'[e]) /\ PrunesBelow(job'[e])
             /\ \A c \in Device : base[c] # Nothing /\ Overruled(timely, base[c])
                                    => Spares(job'[e], base[c].gen)
  <2>1. /\ KnowsPublished(job[e]) /\ PrunesBelow(job[e])
        /\ \A c \in Device : base[c] # Nothing /\ Overruled(timely, base[c])
                               => Spares(job[e], base[c].gen)
    BY DEF Inv, Shape, ForksStand, ForkStands
  <2>2. CASE Pushing(e)
    <3> DEFINE older == [job[e] EXCEPT !.age = @ + 1]
    <3>1. job'[e] = older
      BY <2>2 DEF Tick
    <3>2. KnowsPublished(older) /\ older.phase = job[e].phase
      BY <2>1 DEF KnowsPublished, Record
    <3>3. older.phase \notin {"indexed", "sweeping"}
      BY <2>2, <3>2 DEF Pushing
    <3> QED
      BY <3>1, <3>2, <3>3, NotSweeping
  <2>3. CASE ~Pushing(e)
    BY <2>1, <2>3 DEF Tick
  <2> QED
    BY <2>2, <2>3
<1> QED
  BY <1>1, <1>2, <1>3, JobsKeepInv

---------------------------------------------------------------------------
(* Steps that move a base or change what is listed.                        *)

\* A base moves to the winner of a whole list, which nothing overrules (pull).
LEMMA PullKeepsInv == ASSUME Inv, NEW d \in Device, Pull(d) PROVE Inv'
<1> DEFINE t == Top(manifests)
<1>1. /\ UNCHANGED <<manifests, hidden, published, timely, job>>
      /\ base' = [base EXCEPT ![d] = t] /\ manifests # {}
  BY DEF Pull, storage
<1>2. /\ Shape /\ NewestStays /\ ShortSeen /\ base = [c \in Device |-> base[c]]
  BY DEF Inv, Shape
<1>3. t \in manifests /\ t \in published
  BY <1>1, <1>2, TopListed
<1>4. hidden = {}
  <2>1. SUFFICES ASSUME hidden # {} PROVE FALSE
    OBVIOUS
  <2>2. t.gen < GenOf(base[d]) /\ t.gen \in Nat /\ t.gen >= 1
    BY <1>2, <1>3, <2>1 DEF ShortSeen, Shape
  <2>3. GenOf(base[d]) \in Nat
    BY <1>2 DEF Shape, GenOf
  <2>4. GenOf(t) < GenOf(base[d])
    BY <2>2, <2>3 DEF GenOf
  <2> QED
    BY <2>4 DEF Pull, RolledBack
<1>5. ~Overruled(published, t)
  <2>1. PICK top \in Nat : \A m \in published : m.gen <= top
    BY <1>2 DEF Shape
  <2>2. \A p \in published :
          Slot(manifests, p.gen, p.dev) \/ \E q \in published : q.gen > p.gen
    BY <1>2, <1>4 DEF NewestStays, Listed
  <2>3. /\ manifests \subseteq published
        /\ \A m \in published : m.gen \in Nat /\ m.dev \in Nat
    BY <1>2 DEF Shape
  <2> QED
    BY <1>1, <2>1, <2>2, <2>3, TopStands
<1> HIDE DEF t
<1>6. \A c \in Device : base'[c] = base[c] \/ base'[c] = t
  BY <1>1, <1>2
<1>7. Shape'
  <2>1. \A c \in Device : base'[c] \in published \cup {Nothing}
    BY <1>2, <1>3, <1>6 DEF Shape
  <2>2. base' = [c \in Device |-> base'[c]]
    BY <1>1, <1>2
  <2> QED
    BY <1>1, <1>2, <2>1, <2>2 DEF Shape, KnowsPublished
<1>8. NewestStays' /\ ShortSeen'
  BY <1>1, <1>2, <1>4 DEF NewestStays, ShortSeen, Listed
<1>9. ForksStand'
  <2>1. ~Overruled(timely, t)
    BY <1>2, <1>5 DEF Shape, Overruled
  <2> QED
    BY <1>1, <1>6, <2>1 DEF Inv, ForksStand, ForkStands, Listed
<1>10. (\A e \in Device : PrunesBelow(job[e]))'
  BY <1>1 DEF Inv, PrunesBelow
<1> QED
  BY <1>7, <1>8, <1>9, <1>10 DEF Inv

\* A manifest is published (publishManifest, adoptBase).
LEMMA PublishKeepsInv == ASSUME Inv, NEW d \in Device, PushPublish(d) PROVE Inv'
<1>1. PICK next :
        /\ next.gen = GenOf(job[d].parent) + 1 /\ next.dev = d
        /\ manifests' = {m \in manifests : m.gen # next.gen \/ m.dev # d} \cup {next}
        /\ published' = published \cup {next}
        /\ timely' = timely \cup {m \in {next} : \A n \in published : n.gen <= m.gen}
        /\ base' = [base EXCEPT ![d] = IF Top(manifests') = next THEN next ELSE @]
  <2> DEFINE made(kept) == [gen |-> GenOf(job[d].parent) + 1, dev |-> d,
                            names |-> kept \cup job[d].uploads]
  <2>1. PICK kept :
          /\ manifests' = {m \in manifests : m.gen # made(kept).gen \/ m.dev # d}
                            \cup {made(kept)}
          /\ published' = published \cup {made(kept)}
          /\ timely' = timely \cup
                         {m \in {made(kept)} : \A n \in published : n.gen <= m.gen}
          /\ base' = [base EXCEPT ![d] = IF Top(manifests') = made(kept)
                                         THEN made(kept) ELSE @]
    BY DEF PushPublish
  <2>2. made(kept).gen = GenOf(job[d].parent) + 1 /\ made(kept).dev = d
    OBVIOUS
  <2> HIDE DEF made
  <2> QED
    BY <2>1, <2>2
<1>2. hidden = {} /\ hidden' = {} /\ job' = [job EXCEPT ![d] = IdleJob]
  BY DEF PushPublish
<1>3. /\ Shape /\ NewestStays
      /\ base = [c \in Device |-> base[c]] /\ job = [c \in Device |-> job[c]]
      /\ \A m \in published : m.gen \in Nat /\ m.gen >= 1 /\ m.dev \in Nat
      /\ manifests \subseteq published /\ timely \subseteq published
      /\ \A c \in Device : base[c] \in published \cup {Nothing} /\ KnowsPublished(job[c])
  BY DEF Inv, Shape
<1>4. next.gen \in Nat /\ next.gen >= 1 /\ next.dev \in Nat
  <2>1. GenOf(job[d].parent) \in Nat
    BY <1>3 DEF KnowsPublished, GenOf
  <2> QED
    BY <1>1, <2>1, ReclaimAssumption
<1>5. \A g, e : Slot(manifests, g, e) => Slot(manifests', g, e)
  BY <1>1 DEF Slot
<1>6. PICK top \in Nat : \A m \in published' : m.gen <= top
  <2>1. PICK old \in Nat : \A m \in published : m.gen <= old
    BY <1>3 DEF Shape
  <2>2. \A m \in published' : m.gen \in Nat
    BY <1>1, <1>3, <1>4
  <2>3. CASE next.gen <= old
    BY <1>1, <2>1, <2>3
  <2>4. CASE next.gen > old
    <3>1. \A m \in published' : m.gen <= next.gen
      BY <1>1, <1>3, <1>4, <2>1, <2>4
    <3> QED
      BY <1>4, <3>1
  <2> QED
    BY <1>4, <2>3, <2>4
<1>7. \A c \in Device : base'[c] = base[c] \/ (base'[c] = next /\ next = Top(manifests'))
  BY <1>1, <1>3
<1>8. \A e \in Device : job'[e] \in {IdleJob, job[e]}
  BY <1>2, <1>3
<1>9. Shape'
  <2>1. (\A e \in Device : KnowsPublished(job[e]))'
    BY <1>1, <1>3, <1>8, IdleKnows DEF KnowsPublished
  <2>2. \A c \in Device : base'[c] \in published' \cup {Nothing}
    BY <1>1, <1>3, <1>7
  <2>3. base' = [c \in Device |-> base'[c]] /\ job' = [c \in Device |-> job'[c]]
    BY <1>1, <1>2, <1>3
  <2>4. /\ \A m \in published' : m.gen \in Nat /\ m.gen >= 1 /\ m.dev \in Nat
        /\ manifests' \subseteq published' /\ hidden' \subseteq published'
        /\ timely' \subseteq published'
    BY <1>1, <1>2, <1>3, <1>4
  <2> QED
    BY <1>6, <2>1, <2>2, <2>3, <2>4 DEF Shape
<1>10. \A p \in published' :
         Slot(manifests', p.gen, p.dev) \/ \E q \in published' : q.gen > p.gen
  <2>1. Slot(manifests', next.gen, next.dev)
    BY <1>1 DEF Slot
  <2>2. \A p \in published :
          Slot(manifests, p.gen, p.dev) \/ \E q \in published : q.gen > p.gen
    BY <1>2, <1>3 DEF NewestStays, Listed
  <2> QED
    BY <1>1, <1>5, <2>1, <2>2
<1>11. NewestStays' /\ ShortSeen'
  <2>1. Listed' = manifests'
    BY <1>2 DEF Listed
  <2> QED
    BY <1>2, <1>10, <2>1 DEF NewestStays, ShortSeen
<1>12. (\A e \in Device : PrunesBelow(job[e]))'
  BY <1>1, <1>8, IdleKnows DEF Inv, PrunesBelow
<1>13. \A g : \A e \in Device : Spares(job[e], g) => Spares(job'[e], g)
  BY <1>8, IdleKnows DEF Spares
<1>14. ASSUME NEW c \in Device, base'[c] # Nothing, Overruled(timely', base'[c])
       PROVE  /\ Overruled(manifests', base'[c])
              /\ Slot(manifests', base'[c].gen, base'[c].dev)
              /\ \A e \in Device : Spares(job'[e], base'[c].gen)
  <2> DEFINE b == base[c]
  <2>1. CASE next = Top(manifests') /\ base'[c] = next
    <3>1. ~Overruled(published', next)
      <4>1. /\ manifests' \subseteq published' /\ manifests' # {}
            /\ \A m \in published' : m.gen \in Nat /\ m.dev \in Nat
        BY <1>1, <1>9 DEF Shape
      <4> QED
        BY <1>6, <1>10, <2>1, <4>1, TopStands
    <3> QED
      BY <1>9, <1>14, <2>1, <3>1 DEF Overruled, Shape
  <2>2. CASE base'[c] = b /\ Overruled(timely, b)
    <3>1. ForkStands(b)
      BY <1>14, <2>2 DEF Inv, ForksStand
    <3>2. Overruled(manifests, b) /\ Slot(manifests, b.gen, b.dev)
      BY <1>2, <3>1 DEF ForkStands, Listed
    <3>3. Overruled(manifests', b)
      <4>1. PICK m \in manifests : m.gen = b.gen /\ m.dev < b.dev
        BY <3>2 DEF Overruled
      <4>2. Slot(manifests', b.gen, m.dev)
        BY <1>5, <4>1 DEF Slot
      <4> QED
        BY <4>1, <4>2 DEF Slot, Overruled
    <3> QED
      BY <1>5, <1>13, <2>2, <3>1, <3>2, <3>3 DEF ForkStands
  <2>3. CASE base'[c] = b /\ ~Overruled(timely, b)
    <3>1. /\ next.gen = b.gen /\ next.dev < b.dev
          /\ \A n \in published : n.gen <= next.gen
      BY <1>1, <1>14, <2>3 DEF Overruled
    <3>2. b \in published
      BY <1>3, <1>14, <2>3
    <3>3. Overruled(manifests', b)
      BY <1>1, <3>1 DEF Overruled
    <3>4. \A q \in published : q.gen \in Nat /\ ~(q.gen > b.gen) /\ b.gen \in Nat
      BY <1>3, <1>4, <3>1
    <3>5. Slot(manifests', b.gen, b.dev)
      BY <1>2, <1>3, <1>5, <3>2, <3>4 DEF NewestStays, Listed
    <3>6. \A e \in Device : Spares(job[e], b.gen)
      <4> TAKE e \in Device
      <4>1. PrunesBelow(job[e]) /\ job[e].index \subseteq published
        BY <1>3 DEF Inv, KnowsPublished
      <4>2. job[e].phase = "sweeping" => \A p \in job[e].pruned : p.gen # b.gen
        BY <3>4, <4>1 DEF PrunesBelow
      <4>3. \A q \in job[e].index : q.gen <= b.gen
        BY <3>1, <4>1
      <4> QED
        BY <4>2, <4>3 DEF Spares
    <3> QED
      BY <1>13, <2>3, <3>3, <3>5, <3>6
  <2> QED
    BY <1>7, <2>1, <2>2, <2>3
<1>15. ForksStand'
  <2>1. Listed' = manifests'
    BY <1>2 DEF Listed
  <2> QED
    BY <1>14, <2>1 DEF ForksStand, ForkStands
<1> QED
  BY <1>9, <1>11, <1>12, <1>15 DEF Inv

\* A manifest is pruned: below the highest generation, of no fork a base lost.
LEMMA PruneKeepsInv == ASSUME Inv, NEW d \in Device, PruneManifest(d) PROVE Inv'
<1>1. PICK m \in job[d].pruned :
        /\ manifests' = {n \in manifests : n.gen # m.gen \/ n.dev # m.dev}
        /\ hidden' = {n \in hidden : n.gen # m.gen \/ n.dev # m.dev}
        /\ job' = [job EXCEPT ![d].pruned = @ \ {m}]
  BY DEF PruneManifest
<1>2. /\ job[d].phase = "sweeping"
      /\ UNCHANGED <<base, published, timely>>
  BY DEF PruneManifest
<1>3. /\ Shape /\ NewestStays /\ ForksStand
      /\ \A e \in Device : KnowsPublished(job[e]) /\ PrunesBelow(job[e])
      /\ job = [e \in Device |-> job[e]]
  BY DEF Inv, Shape
<1> DEFINE pruned == job[d].pruned \ {m}
           j == [job[d] EXCEPT !.pruned = pruned]
<1>4. job' = [job EXCEPT ![d] = j]
  BY <1>1, <1>3
<1> HIDE DEF pruned
<1>5. /\ Record(j) /\ j.phase = job[d].phase /\ j.index = job[d].index
      /\ j.parent = job[d].parent /\ j.pruned = pruned
  BY <1>3 DEF KnowsPublished, Record
<1> HIDE DEF j
<1>6. j.pruned \subseteq job[d].pruned
  BY <1>5 DEF pruned
<1>7. \A e \in Device : job'[e] = job[e] \/ (e = d /\ job'[e] = j)
  BY <1>3, <1>4
<1>8. \A g, e : Slot(Listed, g, e) /\ (g # m.gen \/ e # m.dev) => Slot(Listed', g, e)
  BY <1>1 DEF Slot, Listed
<1>9. PICK newer \in published : newer.gen > m.gen
  BY <1>2, <1>3 DEF PrunesBelow
<1>10. Shape'
  <2>1. (\A e \in Device : KnowsPublished(job[e]))'
    BY <1>2, <1>3, <1>5, <1>7 DEF KnowsPublished
  <2>2. job' = [e \in Device |-> job'[e]]
    BY <1>3, <1>4
  <2>3. manifests' \subseteq published /\ hidden' \subseteq published
    BY <1>1, <1>3 DEF Shape
  <2> QED
    BY <1>2, <1>3, <2>1, <2>2, <2>3 DEF Shape
<1>11. NewestStays'
  <2> SUFFICES ASSUME NEW p \in published
               PROVE  Slot(Listed', p.gen, p.dev) \/ \E q \in published : q.gen > p.gen
    BY <1>2 DEF NewestStays
  <2>1. CASE p.gen = m.gen
    BY <1>9, <2>1
  <2>2. CASE p.gen # m.gen
    BY <1>3, <1>8, <2>2 DEF NewestStays
  <2> QED
    BY <2>1, <2>2
<1>12. ForksStand'
  <2> SUFFICES ASSUME NEW c \in Device, base[c] # Nothing, Overruled(timely, base[c])
               PROVE  /\ Overruled(Listed', base[c])
                      /\ Slot(Listed', base[c].gen, base[c].dev)
                      /\ \A e \in Device : Spares(job'[e], base[c].gen)
    BY <1>2 DEF ForksStand, ForkStands
  <2> DEFINE b == base[c]
  <2>1. ForkStands(b)
    BY <1>3 DEF ForksStand
  <2>2. m.gen # b.gen
    BY <1>2, <2>1 DEF ForkStands, Spares
  <2>3. Overruled(Listed', b)
    <3>1. PICK n \in Listed : n.gen = b.gen /\ n.dev < b.dev
      BY <2>1 DEF ForkStands, Overruled
    <3>2. Slot(Listed', b.gen, n.dev)
      BY <1>8, <2>2, <3>1 DEF Slot
    <3> QED
      BY <3>1, <3>2 DEF Slot, Overruled
  <2>4. Slot(Listed', b.gen, b.dev)
    BY <1>8, <2>1, <2>2 DEF ForkStands
  <2>5. \A e \in Device : Spares(job'[e], b.gen)
    BY <1>5, <1>6, <1>7, <2>1 DEF ForkStands, Spares
  <2> QED
    BY <2>3, <2>4, <2>5
<1>13. ShortSeen'
  BY <1>1, <1>2 DEF Inv, ShortSeen
<1>14. (\A e \in Device : PrunesBelow(job[e]))'
  BY <1>2, <1>3, <1>5, <1>6, <1>7 DEF PrunesBelow
<1> QED
  BY <1>10, <1>11, <1>12, <1>13, <1>14 DEF Inv

\* What is listed at the moment changes, not what is there.
LEMMA RelistKeepsInv ==
    ASSUME Inv, UNCHANGED <<base, published, timely, job>>, Listed' = Listed, ShortSeen'
    PROVE  Inv'
<1>1. manifests' \subseteq published /\ hidden' \subseteq published
  BY DEF Inv, Shape, Listed
<1>2. Shape'
  BY <1>1 DEF Inv, Shape, KnowsPublished
<1>3. NewestStays' /\ ForksStand'
  BY DEF Inv, NewestStays, ForksStand, ForkStands
<1>4. (\A e \in Device : PrunesBelow(job[e]))'
  BY DEF Inv, PrunesBelow
<1> QED
  BY <1>2, <1>3, <1>4 DEF Inv

(***************************************************************************)
(* A list that lags is short of what every device that sweeps has synced   *)
(* past: where every device is one of those, none takes it for the truth.  *)
(***************************************************************************)
LEMMA ShortKeepsInv ==
    ASSUME Inv, ListShort \/ ListWhole, Sweeper = Device \/ ~ListShort
    PROVE  Inv'
<1>1. UNCHANGED <<base, published, timely, job>>
  BY DEF ListShort, ListWhole
<1>2. CASE ListShort
  <2>1. PICK g \in {0} \cup Gens(manifests) :
          /\ g = 0 \/ \A d \in Sweeper : GenOf(base[d]) > g
          /\ hidden' = {m \in manifests : m.gen > g}
    BY <1>2 DEF ListShort
  <2>2. manifests' = manifests \ hidden' /\ hidden = {}
    BY <1>2 DEF ListShort
  <2>3. /\ \A m \in published : m.gen \in Nat /\ m.gen >= 1
        /\ manifests \subseteq published
        /\ \A d \in Device : base[d] \in published \cup {Nothing}
    BY DEF Inv, Shape
  <2>4. g \in Nat /\ \A d \in Device : GenOf(base[d]) \in Nat
    BY <2>3 DEF Gens, GenOf
  <2>5. \A m \in manifests' : m.gen \in Nat /\ m.gen >= 1 /\ m.gen <= g
    BY <2>1, <2>2, <2>3, <2>4
  <2>6. \A m \in manifests' : \A d \in Device : m.gen < GenOf(base[d])
    BY <1>2, <2>1, <2>4, <2>5
  <2>7. ShortSeen'
    BY <1>1, <2>6 DEF ShortSeen
  <2>8. Listed' = Listed
    BY <2>1, <2>2 DEF Listed
  <2> QED
    BY <1>1, <2>7, <2>8, RelistKeepsInv
<1>3. CASE ListWhole
  <2>1. ShortSeen' /\ Listed' = Listed
    BY <1>3 DEF ListWhole, ShortSeen, Listed
  <2> QED
    BY <1>1, <2>1, RelistKeepsInv
<1> QED
  BY <1>2, <1>3

---------------------------------------------------------------------------
(* The theorem.                                                            *)

\* Where the list never lags, or everybody sweeps.
Trusted == Sweeper = Device \/ \A b \in Budgets : b["short"] = 0

\* What is left of a budget stays a budget.
Budgeted ==
    /\ left = [f \in Fault |-> left[f]]
    /\ Sweeper = Device \/ left["short"] = 0

\* The empty storage.
LEMMA InitInv == ASSUME Init, Trusted PROVE Inv /\ Budgeted
<1>1. \A d \in Device : base[d] = Nothing /\ job[d] = IdleJob
  BY DEF Init
<1>2. Shape
  <2>1. \A d \in Device : KnowsPublished(job[d])
    BY <1>1, IdleKnows
  <2> QED
    BY <1>1, <2>1 DEF Shape, Init
<1>3. NewestStays /\ ForksStand /\ ShortSeen
  BY <1>1 DEF Init, NewestStays, ForksStand, ShortSeen
<1>4. \A d \in Device : PrunesBelow(job[d])
  BY <1>1, IdleKnows, NotSweeping
<1>5. Budgeted
  BY BudgetAssumption DEF Init, Trusted, Budgeted
<1> QED
  BY <1>2, <1>3, <1>4, <1>5 DEF Inv

\* Budgets are spent one fault at a time; without short lists there is none.
LEMMA BudgetNext ==
    ASSUME Budgeted, [Next]_vars
    PROVE  Budgeted' /\ (Sweeper = Device \/ ~ListShort)
<1>1. "short" \in Fault
  BY DEF Fault
<1>2. ASSUME NEW f \in Fault, Spend(f)
      PROVE  Budgeted'
  <2>1. left[f] > 0 /\ left' = [left EXCEPT ![f] = left[f] - 1]
    BY <1>2 DEF Spend
  <2>2. left' = [g \in Fault |-> left'[g]]
    BY <2>1 DEF Budgeted
  <2>3. f # "short" => left'["short"] = left["short"]
    BY <1>1, <2>1 DEF Budgeted
  <2>4. Sweeper = Device \/ f # "short"
    BY <2>1 DEF Budgeted
  <2> QED
    BY <2>2, <2>3, <2>4 DEF Budgeted
<1>3. Sweeper = Device \/ ~ListShort
  <2>1. ListShort => left["short"] > 0
    BY DEF ListShort, Spend
  <2> QED
    BY <2>1 DEF Budgeted
<1>4. ASSUME UNCHANGED left
      PROVE  Budgeted'
  BY <1>4 DEF Budgeted
<1>5. ASSUME UNCHANGED vars \/ Tick \/ ListShort \/ ListWhole
      PROVE  Budgeted'
  BY <1>1, <1>2, <1>4, <1>5 DEF vars, Tick, ListShort, ListWhole
<1>6. ASSUME NEW d \in Device, DeviceNext(d)
      PROVE  Budgeted'
  <2>1. CASE PushUpload(d)
    <3> DEFINE content(up) == left["content"] - Cardinality(up \ ever)
               adopt(up) == left["adopt"] - Cardinality(up \cap objects)
               again(up) == left["again"] - Cardinality(up \cap (ever \ objects))
               asks(answered) == left["unanswered"] - (IF answered THEN 0 ELSE 1)
               overlap == left["overlap"] - Beside(Sweeping)
    <3>1. PICK up, answered :
            left' = [left EXCEPT !["content"] = content(up), !["adopt"] = adopt(up),
                                 !["again"] = again(up), !["unanswered"] = asks(answered),
                                 !["overlap"] = overlap]
      BY <2>1 DEF PushUpload
    <3> HIDE DEF content, adopt, again, asks, overlap
    <3>2. left' = [f \in Fault |-> left'[f]] /\ left'["short"] = left["short"]
      BY <1>1, <3>1 DEF Budgeted
    <3> QED
      BY <3>2 DEF Budgeted
  <2>2. CASE SweepIndex(d)
    <3>1. left' = [left EXCEPT !["overlap"] = @ - Beside(Pushing)]
      BY <2>2 DEF SweepIndex
    <3> DEFINE e == left["overlap"] - Beside(Pushing)
    <3>2. left' = [left EXCEPT !["overlap"] = e]
      BY <3>1
    <3> HIDE DEF e
    <3> QED
      BY <1>1, <3>2 DEF Budgeted
  <2>3. CASE PushConfirm(d)
    <3> DEFINE asks(told) == left["unanswered"] - Cardinality(job[d].adopted \ told)
    <3>1. PICK told : left' = [left EXCEPT !["unanswered"] = asks(told)]
      BY <2>3 DEF PushConfirm
    <3> HIDE DEF asks
    <3> QED
      BY <1>1, <3>1 DEF Budgeted
  <2>4. CASE ~PushUpload(d) /\ ~SweepIndex(d) /\ ~PushConfirm(d)
    <3>1. \A f \in {"publish", "command", "unsaved", "stop", "jump"} : f \in Fault
      BY DEF Fault
    <3>2. UNCHANGED left \/ \E f \in {"publish", "command", "unsaved", "stop", "jump"} : Spend(f)
      BY <1>6, <2>4
      DEF DeviceNext, PushPublish, Pull, Preview, Decline, SweepPlan,
          SweepObject, PruneManifest, SweepEnd, Stop, ClockSet
    <3> QED
      BY <1>2, <1>4, <3>1, <3>2
  <2> QED
    BY <2>1, <2>2, <2>3, <2>4
<1> QED
  BY <1>3, <1>5, <1>6 DEF Next

\* The invariant is inductive.
LEMMA InvNext == ASSUME Inv, Budgeted, [Next]_vars PROVE Inv' /\ Budgeted'
<1>1. CASE UNCHANGED vars
  BY <1>1, SameKeepsInv, BudgetNext DEF vars
<1>2. ASSUME NEW d \in Device, DeviceNext(d)
      PROVE  Inv'
  <2>1. CASE Preview(d) \/ Decline(d) \/ ClockSet(d)
    BY <2>1, SameKeepsInv DEF Preview, Decline, ClockSet, storage
  <2> QED
    BY <1>2, <2>1, PushKeepsInv, PublishKeepsInv, PullKeepsInv, SweepKeepsInv,
       PruneKeepsInv DEF DeviceNext
<1>3. CASE Tick
  BY <1>3, TickKeepsInv, BudgetNext
<1>4. CASE ListShort \/ ListWhole
  BY <1>4, BudgetNext, ShortKeepsInv
<1> QED
  BY <1>1, <1>2, <1>3, <1>4, BudgetNext DEF Next

(***************************************************************************)
(* Whatever is pruned, and however late a plan, a push or a base is: a     *)
(* device whose base lost a fork that was decided before anybody went on   *)
(* can still find out (retainedGenerations, ADR-0084).  Where lists lag it *)
(* takes that every device sweeps, as ListShort bounds the lag by what the *)
(* sweeping devices have synced: one that never reclaims may pull a late   *)
(* loser of a short list after its generation was pruned.                  *)
(***************************************************************************)
THEOREM LosersFindOut ==
    ASSUME Sweeper = Device \/ \A b \in Budgets : b["short"] = 0
    PROVE  Spec => []LoserFindsOut
<1>1. Trusted
  BY DEF Trusted
<1>2. Init => Inv /\ Budgeted
  BY <1>1, InitInv
<1>3. Inv /\ Budgeted /\ [Next]_vars => Inv' /\ Budgeted'
  BY InvNext
<1>4. Inv => LoserFindsOut
  BY DEF Inv, ForksStand, ForkStands, LoserFindsOut, Listed
<1> QED
  BY <1>2, <1>3, <1>4, PTL DEF Spec

---------------------------------------------------------------------------
(* What is retained can be fetched, where no sweep runs beside a push.     *)

Newest == IF Keep > 1 THEN Keep ELSE 1

Above(ms, g) == {h \in Gens(ms) : h > g}

\* Manifests with bounded generations have finitely many.
LEMMA FiniteGens ==
    ASSUME Shape, NEW ms, ms \subseteq published
    PROVE  IsFiniteSet(Gens(ms)) /\ Gens(ms) \subseteq Nat
<1>1. PICK top \in Nat : \A m \in published : m.gen <= top
  BY DEF Shape
<1>2. Gens(ms) \subseteq 0..top /\ Gens(ms) \subseteq Nat
  BY <1>1 DEF Shape, Gens
<1>3. IsFiniteSet(0..top)
  BY <1>1, FS_Interval
<1> QED
  BY <1>2, <1>3, FS_Subset

\* Fewer generations above: among the newest all the more.
LEMMA FewerAbove ==
    ASSUME NEW S, NEW T, S \subseteq T, IsFiniteSet(T), Cardinality(T) < Newest
    PROVE  Cardinality(S) < Newest
<1>1. /\ IsFiniteSet(S) /\ Cardinality(S) <= Cardinality(T)
      /\ Cardinality(S) \in Nat /\ Cardinality(T) \in Nat
  BY FS_Subset, FS_CardinalityType
<1>2. Newest \in Nat
  BY ReclaimAssumption DEF Newest
<1> QED
  BY <1>1, <1>2

\* A manifest that is published makes no other generation a retained one.
LEMMA PublishRetains ==
    ASSUME NEW ms, NEW ns, NEW next, IsFiniteSet(Gens(ms)),
           ns = {m \in ms : m.gen # next.gen \/ m.dev # next.dev} \cup {next},
           NEW g \in RetainedGenerations(ns), g # next.gen
    PROVE  g \in RetainedGenerations(ms)
<1>1. /\ Gens(ms) \subseteq Gens(ns) /\ Gens(ns) \subseteq Gens(ms) \cup {next.gen}
      /\ g \in Gens(ms)
  BY DEF Gens, RetainedGenerations, Forked
<1>2. CASE g \in Forked(ns)
  <2>1. g \in Forked(ms)
    BY <1>2 DEF Forked, Gens
  <2> QED
    BY <2>1 DEF RetainedGenerations
<1>3. CASE Cardinality(Above(ns, g)) < Newest
  <2>1. IsFiniteSet(Above(ns, g))
    BY <1>1, FS_AddElement, FS_Subset DEF Above
  <2>2. Above(ms, g) \subseteq Above(ns, g)
    BY <1>1 DEF Above
  <2>3. Cardinality(Above(ms, g)) < Newest
    BY <1>3, <2>1, <2>2, FewerAbove
  <2> QED
    BY <1>1, <2>3 DEF RetainedGenerations, Above, Newest
<1> QED
  BY <1>2, <1>3 DEF RetainedGenerations, Above, Newest

\* Neither does pruning one that is not retained: the newest are above it.
LEMMA PruneRetains ==
    ASSUME NEW ms, NEW ns, NEW p, IsFiniteSet(Gens(ms)), Gens(ms) \subseteq Nat,
           ns = {n \in ms : n.gen # p.gen \/ n.dev # p.dev},
           p.gen \notin RetainedGenerations(ms)
    PROVE  RetainedGenerations(ns) \subseteq RetainedGenerations(ms)
<1> SUFFICES ASSUME NEW g \in RetainedGenerations(ns)
             PROVE  g \in RetainedGenerations(ms)
  OBVIOUS
<1>1. CASE p.gen \notin Gens(ms)
  <2>1. ns = ms
    BY <1>1 DEF Gens
  <2> QED
    BY <2>1
<1>2. CASE p.gen \in Gens(ms)
  <2>1. g \in Gens(ms) /\ Gens(ns) \subseteq Gens(ms)
        /\ \A h \in Gens(ms) : h # p.gen => h \in Gens(ns)
    BY DEF Gens, RetainedGenerations, Forked
  <2>2. ~(Cardinality(Above(ms, p.gen)) < Newest)
    BY <1>2 DEF RetainedGenerations, Above, Newest
  <2>3. CASE g \in Forked(ns)
    <3>1. g \in Forked(ms)
      BY <2>3 DEF Forked, Gens
    <3> QED
      BY <3>1 DEF RetainedGenerations
  <2>4. CASE Cardinality(Above(ns, g)) < Newest
    <3>1. IsFiniteSet(Above(ns, g))
      BY <2>1, FS_Subset DEF Above
    <3>2. p.gen \in Nat /\ g \in Nat
      BY <1>2, <2>1
    <3>3. CASE p.gen > g
      <4>1. Above(ms, p.gen) \subseteq Above(ns, g)
        BY <2>1, <3>2, <3>3 DEF Above
      <4> QED
        BY <2>2, <2>4, <3>1, <4>1, FewerAbove
    <3>4. CASE p.gen <= g
      <4>1. Above(ms, g) \subseteq Above(ns, g)
        BY <2>1, <3>2, <3>4 DEF Above
      <4>2. Cardinality(Above(ms, g)) < Newest
        BY <2>4, <3>1, <4>1, FewerAbove
      <4> QED
        BY <2>1, <4>2 DEF RetainedGenerations, Above, Newest
    <3> QED
      BY <3>2, <3>3, <3>4
  <2> QED
    BY <2>3, <2>4 DEF RetainedGenerations, Above, Newest
<1> QED
  BY <1>1, <1>2

\* The winner is retained.
LEMMA TopRetained ==
    ASSUME Shape, manifests # {} PROVE Top(manifests) \in Retained(manifests)
<1> DEFINE g == Top(manifests).gen
<1>1. /\ Top(manifests) \in manifests
      /\ \A n \in manifests : n.gen < g \/ n.gen = g
  BY TopListed
<1>2. g \in Nat /\ \A n \in manifests : n.gen \in Nat
  BY <1>1 DEF Shape
<1>3. Above(manifests, g) = {}
  BY <1>1, <1>2 DEF Above, Gens
<1>4. Cardinality(Above(manifests, g)) < Newest
  BY <1>3, FS_EmptySet, ReclaimAssumption DEF Newest
<1> QED
  BY <1>1, <1>4 DEF Retained, RetainedGenerations, Gens, Above, Newest

(***************************************************************************)
(* The invariant.  What a push will publish is there, and so is what was   *)
(* published since it began: its manifest may make a fork of it.  A sweep  *)
(* deletes nothing that is retained, and prunes no retained generation.    *)
(***************************************************************************)
PushJob(j) == j.phase \in {"uploaded", "confirmed"}
SweepJob(j) == j.phase \in {"indexed", "sweeping"}

Carries(j) ==
    PushJob(j) => /\ j.uploads \subseteq objects
                  /\ j.parent # Nothing => j.parent.names \subseteq objects
                  /\ \A m \in manifests : m.gen > GenOf(j.parent) => m.names \subseteq objects

Rests(j) ==
    /\ j.phase = "indexed"
         => /\ manifests \subseteq j.index
            /\ RetainedGenerations(manifests) \subseteq RetainedGenerations(j.index)
    /\ j.phase = "sweeping"
         => /\ \A p \in j.pruned : p.gen \notin RetainedGenerations(manifests)
            /\ \A m \in Retained(manifests) : m.names \cap j.sweep = {}

Stored ==
    /\ hidden = {} /\ objects \subseteq Object /\ published \subseteq Manifest
    /\ \A m \in Retained(manifests) : m.names \subseteq objects

OneKind == \A d, e \in Device : PushJob(job[d]) => ~SweepJob(job[e])

FetchInv == Stored /\ OneKind /\ \A d \in Device : Carries(job[d]) /\ Rests(job[d])

\* A job that does neither knows nothing that could be wrong.
LEMMA IdleCarries ==
    Carries(IdleJob) /\ Rests(IdleJob) /\ ~PushJob(IdleJob) /\ ~SweepJob(IdleJob)
BY IdleKnows DEF Carries, Rests, PushJob, SweepJob

\* The jobs change, the storage does not.
LEMMA JobsKeepFetch ==
    ASSUME FetchInv, UNCHANGED <<manifests, hidden, objects, published>>,
           \A e \in Device : Carries(job'[e]) /\ Rests(job'[e]),
           \A d, e \in Device : PushJob(job'[d]) => ~SweepJob(job'[e])
    PROVE  FetchInv'
<1>1. Stored'
  BY DEF FetchInv, Stored
<1>2. OneKind'
  BY DEF OneKind
<1>3. (\A e \in Device : Carries(job[e]) /\ Rests(job[e]))'
  BY DEF Carries, Rests
<1> QED
  BY <1>1, <1>2, <1>3 DEF FetchInv

\* One job becomes another that fits beside the rest.
LEMMA JobKeepsFetch ==
    ASSUME Inv, FetchInv, UNCHANGED <<manifests, hidden, objects, published>>,
           NEW d \in Device, NEW j, job' = [job EXCEPT ![d] = j],
           Carries(j), Rests(j), ~PushJob(j) \/ ~SweepJob(j),
           PushJob(j) => \A e \in Device : ~SweepJob(job[e]),
           SweepJob(j) => \A e \in Device : ~PushJob(job[e])
    PROVE  FetchInv'
<1>1. job = [e \in Device |-> job[e]]
  BY DEF Inv, Shape
<1>2. \A e \in Device : job'[e] = IF e = d THEN j ELSE job[e]
  BY <1>1
<1>3. \A e \in Device : Carries(job'[e]) /\ Rests(job'[e])
  BY <1>2 DEF FetchInv
<1>4. \A c, e \in Device : PushJob(job'[c]) => ~SweepJob(job'[e])
  BY <1>2 DEF FetchInv, OneKind
<1> QED
  BY <1>3, <1>4, JobsKeepFetch

\* Nothing at all changes of them.
LEMMA SameKeepsFetch ==
    ASSUME FetchInv, UNCHANGED <<manifests, hidden, objects, published, job>>
    PROVE  FetchInv'
BY JobsKeepFetch DEF FetchInv, OneKind

\* A push uploads while nobody sweeps (doPush, applyPushOps).
LEMMA UploadKeepsFetch ==
    ASSUME Inv, FetchInv, NEW d \in Device, PushUpload(d), \A e \in Device : ~Sweeping(e)
    PROVE  FetchInv'
<1>1. PICK up \in {{}} \cup {{o} : o \in Object}, answered \in BOOLEAN :
        /\ objects' = objects \cup up
        /\ job' = [job EXCEPT ![d] =
                     Starting(IF Adopts(up, answered) = {} THEN "confirmed" ELSE "uploaded",
                              Top(manifests), up, Adopts(up, answered))]
  BY DEF PushUpload, Starting
<1> DEFINE t == Top(manifests)
           adopted == Adopts(up, answered)
           phase == IF adopted = {} THEN "confirmed" ELSE "uploaded"
           j == Starting(phase, t, up, adopted)
<1>2. phase \in {"confirmed", "uploaded"}
  OBVIOUS
<1>3. j.phase = phase /\ j.parent = t /\ j.uploads = up
  BY StartsAs
<1>4. job' = [job EXCEPT ![d] = j]
  BY <1>1
<1>5. manifests = {} => t = Nothing
  BY DEF Top
<1> HIDE DEF t, phase, j
<1>6. Shape /\ UNCHANGED <<manifests, hidden, published>> /\ job = [e \in Device |-> job[e]]
  BY DEF PushUpload, Inv, Shape
<1>7. t # Nothing => t.names \subseteq objects
  BY <1>5, <1>6, TopRetained DEF FetchInv, Stored, t
<1>8. \A m \in manifests : ~(m.gen > GenOf(t))
  <2> SUFFICES ASSUME NEW m \in manifests PROVE ~(m.gen > GenOf(t))
    OBVIOUS
  <2>1. t \in published /\ (m.gen < t.gen \/ m.gen = t.gen)
    BY <1>6, TopListed DEF t
  <2>2. m.gen \in Nat /\ t.gen \in Nat
    BY <1>6, <2>1 DEF Shape
  <2>3. t # Nothing
    BY <2>1, NothingAssumption DEF FetchInv, Stored
  <2> QED
    BY <2>1, <2>2, <2>3 DEF GenOf
<1>9. PushJob(j) /\ ~SweepJob(j)
  BY <1>2, <1>3 DEF PushJob, SweepJob
<1>10. \A e \in Device : ~SweepJob(job[e])
  BY DEF Sweeping, SweepJob
<1>11. \A e \in Device : job'[e] = IF e = d THEN j ELSE job[e]
  BY <1>4, <1>6
<1>12. Stored'
  BY <1>1, <1>6 DEF FetchInv, Stored
<1>13. OneKind'
  BY <1>9, <1>10, <1>11 DEF OneKind
<1>14. ASSUME NEW e \in Device
       PROVE  (Carries(job[e]) /\ Rests(job[e]))'
  <2>1. ~SweepJob(job'[e])
    BY <1>9, <1>10, <1>11
  <2>2. CASE e = d
    <3>1. job'[e] = j
      BY <1>11, <2>2
    <3> QED
      BY <1>1, <1>3, <1>6, <1>7, <1>8, <2>1, <3>1 DEF Carries, Rests, SweepJob
  <2>3. CASE e # d
    <3>1. job'[e] = job[e] /\ Carries(job[e])
      BY <1>11, <2>3 DEF FetchInv
    <3> QED
      BY <1>1, <1>6, <2>1, <3>1 DEF Carries, Rests, SweepJob
  <2> QED
    BY <2>2, <2>3
<1> QED
  BY <1>12, <1>13, <1>14 DEF FetchInv

\* What it adopted is checked (confirmAdopted).
LEMMA ConfirmKeepsFetch ==
    ASSUME Inv, FetchInv, NEW d \in Device, PushConfirm(d) PROVE FetchInv'
<1>1. UNCHANGED <<manifests, hidden, objects, published>> /\ job[d].phase = "uploaded"
  BY DEF PushConfirm, storage
<1>2. CASE job' = [job EXCEPT ![d] = IdleJob]
  BY <1>1, <1>2, IdleCarries, JobKeepsFetch
<1>3. CASE job' = [job EXCEPT ![d] = [job[d] EXCEPT !.phase = "confirmed"]]
  <2> DEFINE j == [job[d] EXCEPT !.phase = "confirmed"]
  <2>1. Record(job[d]) /\ Carries(job[d]) /\ \A e \in Device : ~SweepJob(job[e])
    BY <1>1 DEF Inv, Shape, KnowsPublished, FetchInv, OneKind, PushJob
  <2>2. j.phase = "confirmed" /\ j.parent = job[d].parent /\ j.uploads = job[d].uploads
    BY <2>1 DEF Record
  <2> HIDE DEF j
  <2>3. Carries(j) /\ Rests(j) /\ ~SweepJob(j)
    BY <1>1, <2>1, <2>2 DEF Carries, Rests, PushJob, SweepJob
  <2>4. job' = [job EXCEPT ![d] = j]
    BY <1>3 DEF j
  <2> QED
    BY <1>1, <2>1, <2>3, <2>4, JobKeepsFetch
<1> QED
  BY <1>2, <1>3 DEF PushConfirm

(***************************************************************************)
(* A push publishes.  The generation it lands in may have been let go of   *)
(* before and is a fork now; what it names was published since the push    *)
(* began, and nobody has swept since.                                      *)
(***************************************************************************)
LEMMA PublishKeepsFetch ==
    ASSUME Inv, FetchInv, NEW d \in Device, PushPublish(d) PROVE FetchInv'
<1> DEFINE parent == job[d].parent
<1>1. PICK next :
        /\ next \in {[gen |-> GenOf(parent) + 1, dev |-> d, names |-> kept \cup job[d].uploads] :
                       kept \in SUBSET (IF parent = Nothing THEN {} ELSE parent.names)}
        /\ manifests' = {m \in manifests : m.gen # next.gen \/ m.dev # d} \cup {next}
        /\ published' = published \cup {next}
  BY DEF PushPublish
<1>2. /\ job[d].phase = "confirmed" /\ hidden' = {} /\ objects' = objects
      /\ job' = [job EXCEPT ![d] = IdleJob]
  BY DEF PushPublish
<1>3. /\ Shape /\ job = [e \in Device |-> job[e]] /\ parent \in published \cup {Nothing}
      /\ Carries(job[d]) /\ PushJob(job[d]) /\ \A e \in Device : ~SweepJob(job[e])
  BY <1>2 DEF Inv, Shape, KnowsPublished, FetchInv, OneKind, PushJob
<1>4. /\ next.gen = GenOf(parent) + 1 /\ next.dev = d /\ next.names \subseteq objects
  BY <1>1, <1>3 DEF Carries
<1>5. GenOf(parent) \in Nat
  BY <1>3 DEF GenOf, Shape
<1>6. next \in Manifest
  <2>1. next.gen \in Nat /\ next.names \in SUBSET Object
    BY <1>4, <1>5 DEF FetchInv, Stored
  <2>2. next = [gen |-> next.gen, dev |-> next.dev, names |-> next.names]
    BY <1>1
  <2> QED
    BY <1>4, <2>1, <2>2 DEF Manifest
<1>7. \A e \in Device : job'[e] \in {IdleJob, job[e]}
  BY <1>2, <1>3
<1>8. ASSUME NEW m \in Retained(manifests')
      PROVE  m.names \subseteq objects
  <2>1. m \in manifests' /\ m.gen \in RetainedGenerations(manifests')
    BY DEF Retained
  <2>2. CASE m = next
    BY <1>4, <2>2
  <2>3. CASE m \in manifests /\ m.gen = next.gen
    <3>1. m.gen > GenOf(parent)
      BY <1>4, <1>5, <2>3
    <3> QED
      BY <1>3, <2>3, <3>1 DEF Carries
  <2>4. CASE m \in manifests /\ m.gen # next.gen
    <3>1. manifests \subseteq published
      BY <1>3 DEF Shape
    <3>2. IsFiniteSet(Gens(manifests))
      BY <1>3, <3>1, FiniteGens
    <3>3. m.gen \in RetainedGenerations(manifests)
      BY <1>1, <1>4, <2>1, <2>4, <3>2, PublishRetains
    <3> QED
      BY <2>4, <3>3 DEF FetchInv, Stored, Retained
  <2> QED
    BY <1>1, <2>1, <2>2, <2>3, <2>4
<1>9. Stored'
  BY <1>1, <1>2, <1>6, <1>8 DEF FetchInv, Stored
<1>10. OneKind'
  BY <1>3, <1>7, IdleCarries DEF OneKind
<1>11. ASSUME NEW e \in Device
       PROVE  (Carries(job[e]) /\ Rests(job[e]))'
  <2>1. ~SweepJob(job'[e])
    BY <1>3, <1>7, IdleCarries
  <2>2. CASE job'[e] = IdleJob
    BY <2>2, IdleKnows DEF Carries, Rests, PushJob
  <2>3. CASE job'[e] = job[e]
    <3>1. Carries(job[e])
      BY DEF FetchInv
    <3> QED
      BY <1>1, <1>2, <1>4, <2>1, <2>3, <3>1 DEF Carries, Rests, SweepJob
  <2> QED
    BY <1>7, <2>2, <2>3
<1> QED
  BY <1>9, <1>10, <1>11 DEF FetchInv

\* A sweep reads what is listed while nobody pushes.
LEMMA IndexKeepsFetch ==
    ASSUME Inv, FetchInv, NEW d \in Device, SweepIndex(d), \A e \in Device : ~Pushing(e)
    PROVE  FetchInv'
<1> DEFINE j == Indexing(IdleJob, "indexed", manifests, shown[d].sweep, shown[d].pruned)
<1>1. job' = [job EXCEPT ![d] = j] /\ UNCHANGED <<manifests, hidden, objects, published>>
  BY DEF SweepIndex, Indexing, storage
<1>2. j.phase = "indexed" /\ j.index = manifests
  BY IdleKnows, SweepUpdates DEF KnowsPublished, Shows
<1> HIDE DEF j
<1>3. Carries(j) /\ Rests(j) /\ ~PushJob(j)
  BY <1>2 DEF Carries, Rests, PushJob
<1>4. \A e \in Device : ~PushJob(job[e])
  BY DEF Pushing, PushJob
<1> QED
  BY <1>1, <1>3, <1>4, JobKeepsFetch

\* It plans to delete and to prune what is not retained (planReclaim).
LEMMA PlanKeepsFetch ==
    ASSUME Inv, FetchInv, NEW d \in Device, SweepPlan(d) PROVE FetchInv'
<1> DEFINE index == job[d].index
           plan == Recomputed(d, PlanReclaim(clock[d], index, objects, mark[d]))
           j == Planned(job[d], "sweeping", {}, plan.sweep, plan.pruned, plan.mark)
<1>1. job' = [job EXCEPT ![d] = IdleJob] \/ job' = [job EXCEPT ![d] = j]
  BY DEF SweepPlan, Planned
<1>2. UNCHANGED <<manifests, hidden, objects, published>> /\ job[d].phase = "indexed"
  BY DEF SweepPlan, storage
<1>3. /\ plan.pruned \subseteq index \ Retained(index)
      /\ plan.sweep \cap Reachable(Retained(index)) = {}
  BY DEF Recomputed, PlanReclaim
<1> HIDE DEF plan
<1>4. Record(job[d]) /\ Rests(job[d]) /\ \A e \in Device : ~PushJob(job[e])
  BY <1>2 DEF Inv, Shape, KnowsPublished, FetchInv, OneKind, SweepJob
<1>5. j.phase = "sweeping" /\ j.sweep = plan.sweep /\ j.pruned = plan.pruned
  BY <1>4, SweepUpdates DEF Shows
<1> HIDE DEF j
<1>6. /\ manifests \subseteq index
      /\ RetainedGenerations(manifests) \subseteq RetainedGenerations(index)
  BY <1>2, <1>4 DEF Rests
<1>7. Retained(manifests) \subseteq Retained(index)
  BY <1>6 DEF Retained
<1>8. \A p \in j.pruned : p.gen \notin RetainedGenerations(manifests)
  BY <1>3, <1>5, <1>6 DEF Retained
<1>9. \A m \in Retained(manifests) : m.names \cap j.sweep = {}
  BY <1>3, <1>5, <1>7 DEF Reachable
<1>10. Carries(j) /\ Rests(j) /\ ~PushJob(j)
  BY <1>5, <1>8, <1>9 DEF Carries, Rests, PushJob
<1> QED
  BY <1>1, <1>2, <1>4, <1>10, IdleCarries, JobKeepsFetch

\* It deletes an object.
LEMMA DeleteKeepsFetch ==
    ASSUME Inv, FetchInv, NEW d \in Device, SweepObject(d) PROVE FetchInv'
<1>1. PICK o \in job[d].sweep :
        /\ objects' = objects \ {o}
        /\ job' = [job EXCEPT ![d].sweep = @ \ {o}, ![d].mark[o] = Unmarked]
  BY DEF SweepObject
<1>2. UNCHANGED <<manifests, hidden, published>> /\ job[d].phase = "sweeping"
  BY DEF SweepObject
<1> DEFINE sweep == job[d].sweep \ {o}
           marked == [job[d].mark EXCEPT ![o] = Unmarked]
           j == Deleting(job[d], sweep, marked)
<1>3. /\ Record(job[d]) /\ Rests(job[d]) /\ job = [e \in Device |-> job[e]]
      /\ \A e \in Device : ~PushJob(job[e])
  BY <1>2 DEF Inv, Shape, KnowsPublished, FetchInv, OneKind, SweepJob
<1>4. job' = [job EXCEPT ![d] = j]
  BY <1>1, <1>3 DEF Record, Deleting
<1> HIDE DEF marked
<1>5. j.phase = "sweeping" /\ j.sweep = sweep /\ j.pruned = job[d].pruned
  BY <1>2, <1>3, SweepUpdates DEF Shows
<1> HIDE DEF j
<1>6. \A e \in Device : job'[e] = IF e = d THEN j ELSE job[e]
  BY <1>3, <1>4
<1>7. ~PushJob(j)
  BY <1>5 DEF PushJob
<1>8. Stored'
  <2>1. \A m \in Retained(manifests) : o \notin m.names
    BY <1>1, <1>2, <1>3 DEF Rests
  <2> QED
    BY <1>1, <1>2, <2>1 DEF FetchInv, Stored
<1>9. OneKind'
  BY <1>3, <1>6, <1>7 DEF OneKind
<1>10. ASSUME NEW e \in Device
       PROVE  (Carries(job[e]) /\ Rests(job[e]))'
  <2>1. ~PushJob(job'[e])
    BY <1>3, <1>6, <1>7
  <2>2. CASE e = d
    BY <1>2, <1>3, <1>5, <1>6, <2>1, <2>2 DEF Carries, Rests
  <2>3. CASE e # d
    <3>1. job'[e] = job[e] /\ Rests(job[e])
      BY <1>6, <2>3 DEF FetchInv
    <3> QED
      BY <1>2, <2>1, <3>1 DEF Carries, Rests
  <2> QED
    BY <2>2, <2>3
<1> QED
  BY <1>8, <1>9, <1>10 DEF FetchInv

\* It prunes a manifest, which takes nothing from what is retained.
LEMMA PruneKeepsFetch ==
    ASSUME Inv, FetchInv, NEW d \in Device, PruneManifest(d) PROVE FetchInv'
<1>1. PICK p \in job[d].pruned :
        /\ manifests' = {n \in manifests : n.gen # p.gen \/ n.dev # p.dev}
        /\ hidden' = {n \in hidden : n.gen # p.gen \/ n.dev # p.dev}
        /\ job' = [job EXCEPT ![d].pruned = @ \ {p}]
  BY DEF PruneManifest
<1>2. UNCHANGED <<objects, published>> /\ job[d].phase = "sweeping"
  BY DEF PruneManifest
<1>3. /\ Record(job[d]) /\ Rests(job[d]) /\ job = [e \in Device |-> job[e]]
      /\ Shape /\ manifests \subseteq published /\ \A e \in Device : ~PushJob(job[e])
  BY <1>2 DEF Inv, Shape, KnowsPublished, FetchInv, OneKind, SweepJob
<1> DEFINE j == [job[d] EXCEPT !.pruned = job[d].pruned \ {p}]
<1>4. job' = [job EXCEPT ![d] = j]
  BY <1>1, <1>3
<1>5. j.phase = "sweeping" /\ j.sweep = job[d].sweep /\ j.pruned \subseteq job[d].pruned
  BY <1>2, <1>3 DEF Record
<1> HIDE DEF j
<1>6. \A e \in Device : job'[e] = IF e = d THEN j ELSE job[e]
  BY <1>3, <1>4
<1>7. RetainedGenerations(manifests') \subseteq RetainedGenerations(manifests)
  <2>1. p.gen \notin RetainedGenerations(manifests)
    BY <1>2, <1>3 DEF Rests
  <2>2. IsFiniteSet(Gens(manifests)) /\ Gens(manifests) \subseteq Nat
    BY <1>3, FiniteGens
  <2> QED
    BY <1>1, <2>1, <2>2, PruneRetains
<1>8. manifests' \subseteq manifests /\ Retained(manifests') \subseteq Retained(manifests)
  BY <1>1, <1>7 DEF Retained
<1>9. ~PushJob(j)
  BY <1>5 DEF PushJob
<1>10. Stored'
  BY <1>1, <1>2, <1>8 DEF FetchInv, Stored
<1>11. OneKind'
  BY <1>3, <1>6, <1>9 DEF OneKind
<1>12. ASSUME NEW e \in Device
       PROVE  (Carries(job[e]) /\ Rests(job[e]))'
  <2>1. ~PushJob(job'[e])
    BY <1>3, <1>6, <1>9
  <2>2. CASE e = d
    BY <1>2, <1>3, <1>5, <1>6, <1>7, <1>8, <2>1, <2>2 DEF Carries, Rests
  <2>3. CASE e # d
    <3>1. job'[e] = job[e] /\ Rests(job[e])
      BY <1>6, <2>3 DEF FetchInv
    <3> QED
      BY <1>7, <1>8, <2>1, <3>1 DEF Carries, Rests
  <2> QED
    BY <2>2, <2>3
<1> QED
  BY <1>10, <1>11, <1>12 DEF FetchInv

\* Time passes.
LEMMA TickKeepsFetch == ASSUME Inv, FetchInv, Tick PROVE FetchInv'
<1>1. UNCHANGED <<manifests, hidden, objects, published>>
  BY DEF Tick, storage
<1>2. ASSUME NEW e \in Device
      PROVE  /\ job'[e].phase = job[e].phase
             /\ Carries(job'[e]) /\ Rests(job'[e])
  <2>1. Record(job[e]) /\ Carries(job[e]) /\ Rests(job[e])
    BY DEF Inv, Shape, KnowsPublished, FetchInv
  <2>2. CASE ~Pushing(e)
    BY <2>1, <2>2 DEF Tick
  <2>3. CASE Pushing(e)
    <3> DEFINE older == [job[e] EXCEPT !.age = @ + 1]
    <3>1. job'[e] = older
      BY <2>3 DEF Tick
    <3>2. /\ older.phase = job[e].phase /\ older.parent = job[e].parent
          /\ older.uploads = job[e].uploads
      BY <2>1 DEF Record
    <3> HIDE DEF older
    <3> QED
      BY <2>1, <2>3, <3>1, <3>2 DEF Carries, Rests, PushJob, Pushing
  <2> QED
    BY <2>2, <2>3
<1>3. \A d, e \in Device : PushJob(job'[d]) => ~SweepJob(job'[e])
  BY <1>2 DEF FetchInv, OneKind, PushJob, SweepJob
<1> QED
  BY <1>1, <1>2, <1>3, JobsKeepFetch

(***************************************************************************)
(* No short list, and no sweep beside a push.                              *)
(***************************************************************************)
Apart == left = [f \in Fault |-> left[f]] /\ left["overlap"] = 0 /\ left["short"] = 0

\* A budget of one kind of fault does not grow.
LEMMA ApartNext ==
    ASSUME Apart, [Next]_vars
    PROVE  /\ Apart' /\ ~ListShort
           /\ \A d, e \in Device : PushUpload(d) => ~Sweeping(e)
           /\ \A d, e \in Device : SweepIndex(d) => ~Pushing(e)
<1>1. "short" \in Fault /\ "overlap" \in Fault
  BY DEF Fault
<1>2. ASSUME NEW f \in Fault, Spend(f)
      PROVE  Apart'
  <2>1. left[f] > 0 /\ left' = [left EXCEPT ![f] = left[f] - 1]
    BY <1>2 DEF Spend
  <2> QED
    BY <1>1, <2>1 DEF Apart
<1>3. ~ListShort
  BY DEF ListShort, Spend, Apart
<1>4. ASSUME UNCHANGED left
      PROVE  Apart'
  BY <1>4 DEF Apart
<1>5. ASSUME NEW d \in Device, PushUpload(d)
      PROVE  Apart' /\ \A e \in Device : ~Sweeping(e)
  <2> DEFINE content(up) == left["content"] - Cardinality(up \ ever)
             adopt(up) == left["adopt"] - Cardinality(up \cap objects)
             again(up) == left["again"] - Cardinality(up \cap (ever \ objects))
             asks(answered) == left["unanswered"] - (IF answered THEN 0 ELSE 1)
             beside == IF \E e \in Device : Sweeping(e) THEN 1 ELSE 0
  <2>1. PICK up, answered :
          /\ left' = [left EXCEPT !["content"] = content(up), !["adopt"] = adopt(up),
                                  !["again"] = again(up), !["unanswered"] = asks(answered),
                                  !["overlap"] = @ - beside]
          /\ \A f \in Fault : left'[f] >= 0
    BY <1>5 DEF PushUpload, Beside
  <2> HIDE DEF content, adopt, again, asks
  <2>2. beside \in {0, 1}
    OBVIOUS
  <2> HIDE DEF beside
  <2>3. /\ left' = [f \in Fault |-> left'[f]] /\ left'["short"] = left["short"]
        /\ left'["overlap"] = left["overlap"] - beside
    BY <1>1, <2>1 DEF Apart
  <2>4. left'["overlap"] >= 0
    BY <1>1, <2>1
  <2>5. beside = 0
    BY <2>2, <2>3, <2>4 DEF Apart
  <2>6. Apart'
    BY <2>3, <2>5 DEF Apart
  <2> QED
    BY <2>5, <2>6 DEF beside
<1>6. ASSUME NEW d \in Device, SweepIndex(d)
      PROVE  Apart' /\ \A e \in Device : ~Pushing(e)
  <2> DEFINE beside == IF \E e \in Device : Pushing(e) THEN 1 ELSE 0
  <2>1. left' = [left EXCEPT !["overlap"] = @ - beside] /\ left'["overlap"] >= 0
    BY <1>6 DEF SweepIndex, Beside
  <2>2. beside \in {0, 1}
    OBVIOUS
  <2> HIDE DEF beside
  <2>3. beside = 0
    BY <1>1, <2>1, <2>2 DEF Apart
  <2>4. Apart'
    BY <1>1, <2>1, <2>3 DEF Apart
  <2> QED
    BY <2>3, <2>4 DEF beside
<1>7. ASSUME NEW d \in Device, PushConfirm(d)
      PROVE  Apart'
  <2> DEFINE asks(told) == left["unanswered"] - Cardinality(job[d].adopted \ told)
  <2>1. PICK told : left' = [left EXCEPT !["unanswered"] = asks(told)]
    BY <1>7 DEF PushConfirm
  <2> HIDE DEF asks
  <2> QED
    BY <1>1, <2>1 DEF Apart
<1>8. Apart'
  <2>1. \A f \in {"publish", "command", "unsaved", "stop", "jump"} : f \in Fault
    BY DEF Fault
  <2>2. \/ UNCHANGED left \/ ListShort
        \/ \E f \in {"publish", "command", "unsaved", "stop", "jump"} : Spend(f)
        \/ \E d \in Device : PushUpload(d) \/ SweepIndex(d) \/ PushConfirm(d)
    BY DEF Next, vars, DeviceNext, PushPublish, Pull, Preview, Decline, SweepPlan,
           SweepObject, PruneManifest, SweepEnd, Stop, ClockSet, Tick, ListWhole
  <2> QED
    BY <1>2, <1>3, <1>4, <1>5, <1>6, <1>7, <2>1, <2>2
<1> QED
  BY <1>3, <1>5, <1>6, <1>8

\* At first there is nothing to fetch.
LEMMA InitFetch == Init => FetchInv
<1> SUFFICES ASSUME Init PROVE FetchInv
  OBVIOUS
<1>1. \A d \in Device : job[d] = IdleJob
  BY DEF Init
<1>2. Stored
  BY DEF Init, Stored, Retained
<1> QED
  BY <1>1, <1>2, IdleCarries DEF FetchInv, OneKind

\* The invariant is inductive.
LEMMA FetchNext == ASSUME Inv, FetchInv, Apart, [Next]_vars PROVE FetchInv'
<1>1. CASE UNCHANGED vars
  BY <1>1, SameKeepsFetch DEF vars
<1>2. ASSUME NEW d \in Device, DeviceNext(d)
      PROVE  FetchInv'
  <2>1. CASE Pull(d) \/ Preview(d) \/ Decline(d) \/ ClockSet(d)
    BY <2>1, SameKeepsFetch DEF Pull, Preview, Decline, ClockSet, storage
  <2>2. CASE SweepEnd(d) \/ Stop(d)
    BY <2>2, IdleCarries, JobKeepsFetch DEF SweepEnd, Stop, storage
  <2>3. CASE PushUpload(d) \/ SweepIndex(d)
    BY <2>3, ApartNext, UploadKeepsFetch, IndexKeepsFetch
  <2> QED
    BY <1>2, <2>1, <2>2, <2>3, ConfirmKeepsFetch, PublishKeepsFetch, PlanKeepsFetch,
       DeleteKeepsFetch, PruneKeepsFetch DEF DeviceNext
<1>3. CASE Tick
  BY <1>3, TickKeepsFetch
<1>4. ~ListShort /\ ~ListWhole
  BY ApartNext DEF ListWhole, FetchInv, Stored
<1> QED
  BY <1>1, <1>2, <1>3, <1>4 DEF Next

(***************************************************************************)
(* Where sweeps and pushes do not overlap and lists are whole, everything  *)
(* a retained manifest names can be fetched: after any number of sweeps,   *)
(* by any devices, that stop half way, leave marks unwritten or over the   *)
(* cap and time the grace window by clocks that jump; and when a push that *)
(* began before others published makes a fork of a generation that was     *)
(* already let go of (planReclaim, retainedGenerations, confirmAdopted),   *)
(* whether or not the storage answers the probes and the checks of what a  *)
(* push adopts.  What the grace window has to answer for is the overlap.   *)
(***************************************************************************)
THEOREM RetainedCanBeFetched ==
    ASSUME \A b \in Budgets : b["overlap"] = 0 /\ b["short"] = 0
    PROVE  Spec => []Fetchable
<1>1. Trusted
  BY DEF Trusted
<1>2. Init => Inv /\ Budgeted /\ FetchInv /\ Apart
  BY <1>1, InitInv, InitFetch, BudgetAssumption DEF Init, Apart
<1>3. Inv /\ Budgeted /\ FetchInv /\ Apart /\ [Next]_vars
        => (Inv /\ Budgeted /\ FetchInv /\ Apart)'
  BY InvNext, FetchNext, ApartNext
<1>4. FetchInv => Fetchable
  BY DEF FetchInv, Stored, Fetchable
<1> QED
  BY <1>2, <1>3, <1>4, PTL DEF Spec
=============================================================================

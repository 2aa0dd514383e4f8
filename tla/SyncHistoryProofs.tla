------------------------- MODULE SyncHistoryProofs -------------------------
(***************************************************************************)
(* What SyncEngine keeps, on top of its safety: no publication drops a     *)
(* version its parent had, a base vouches only for what its device held,   *)
(* and what a pull replaces is published or has been shown to a person.    *)
(***************************************************************************)
EXTENDS SyncProofs

---------------------------------------------------------------------------
(* One publication on top of another.                                      *)

\* What VersionsRetained asks of a child `m` and the body `n` of its parent.
Retained(n, m) ==
    \/ Released(n, m)
    \/ /\ n.forgotten \subseteq m.forgotten
       /\ \A p \in Path : \/ VersionsAt(n, p) \subseteq Names(m)
                          \/ HistoryFull(n, m, p)
                          \/ Expired(n, m, p)

\* The id of a manifest is its content (the lineage excluded).
Identified(m) == m.id = BodyOf(m)

RetainsParent(m) == Identified(m) /\ (m.anc # <<>> => Retained(m.anc[1], m))

\* The versions a history retains.
Versions(history) == {history[i] : i \in DOMAIN history}

\* A manifest names its files, every version of its histories and what it keeps.
LEMMA NamedAt ==
    ASSUME NEW m, NEW p \in Path
    PROVE  /\ m.files[p] \in Names(m)
           /\ Versions(m.history[p]) \subseteq Names(m)
           /\ m.forgotten \subseteq Names(m)
<1> DEFINE live == {m.files[q] : q \in Path}
           older == UNION {Versions(m.history[q]) : q \in Path}
<1>1. m.files[p] \in live
  OBVIOUS
<1>2. Versions(m.history[p]) \subseteq older
  BY Zenon
<1>3. Names(m) = live \cup older \cup m.forgotten
  BY Zenon DEF Names, Versions
<1>4. \A live_, older_, kept, v : v \in live_ \cup older_ \cup kept
                                  <=> v \in live_ \/ v \in older_ \/ v \in kept
  OBVIOUS
<1>5. m.files[p] \in Names(m)
  BY <1>1, <1>3, <1>4, Zenon
<1>6. Versions(m.history[p]) \subseteq Names(m)
  BY <1>2, <1>3, <1>4, Zenon
<1>7. m.forgotten \subseteq Names(m)
  BY <1>3, <1>4, Zenon
<1> QED
  BY <1>5, <1>6, <1>7

(***************************************************************************)
(* The versions of a path are named by a manifest that has them in its     *)
(* history, or in its history and as its file, or among its kept objects.  *)
(***************************************************************************)
LEMMA VersionsNamed ==
    ASSUME NEW n, NEW m, NEW p \in Path, NEW file, NEW history,
           n.files[p] = file, n.history[p] = history,
           \/ ({file} \ {Absent}) \cup Versions(history) \subseteq Versions(m.history[p])
           \/ m.files[p] = file /\ m.history[p] = history
           \/ file \in m.forgotten /\ Versions(history) \subseteq m.forgotten
    PROVE  VersionsAt(n, p) \subseteq Names(m)
<1>1. VersionsAt(n, p) = ({file} \ {Absent}) \cup Versions(history)
  BY Zenon DEF VersionsAt, Versions
<1> QED
  BY <1>1, NamedAt

(***************************************************************************)
(* retain: a rotated history has room for the replaced version, or it is   *)
(* as long as the longest of the setting and what it found (apply.ts).     *)
(***************************************************************************)
LEMMA RetainKeeps ==
    ASSUME NEW history \in Seq(Hash), NEW prior \in Hash \cup {Absent}, NEW keep \in Nat
    PROVE  LET r == Retain(history, prior, keep)
           IN  \/ Len(r) = IF keep > Len(history) THEN keep ELSE Len(history)
               \/ ({prior} \ {Absent}) \cup Versions(history) \subseteq Versions(r)
<1> DEFINE depth == IF keep > Len(history) THEN keep ELSE Len(history)
           longer == <<prior>> \o history
           r == Retain(history, prior, keep)
<1>1. CASE prior = Absent \/ depth = 0
  BY <1>1 DEF Retain, Versions
<1>2. CASE prior # Absent /\ depth # 0 /\ depth < Len(longer)
  <2>1. longer \in Seq(Hash) /\ depth \in Nat /\ depth <= Len(longer)
    BY <1>2
  <2>2. r = SubSeq(longer, 1, depth)
    BY <1>2 DEF Retain
  <2>3. Len(r) = depth
    BY <2>1, <2>2
  <2> QED
    BY <2>3
<1>3. CASE prior # Absent /\ depth # 0 /\ ~(depth < Len(longer))
  <2>1. longer \in Seq(Hash) /\ Len(longer) = Len(history) + 1
    BY <1>3
  <2>2. r = SubSeq(longer, 1, Len(longer))
    BY <1>3 DEF Retain
  <2>3. DOMAIN r = 1..(Len(history) + 1) /\ \A i \in 1..(Len(history) + 1) : r[i] = longer[i]
    BY <2>1, <2>2
  <2>4. longer[1] = prior /\ \A i \in 1..Len(history) : longer[i + 1] = history[i]
    BY <1>3
  <2>5. ASSUME NEW i \in DOMAIN history
        PROVE  history[i] \in Versions(r)
    <3>1. i \in 1..Len(history) /\ i + 1 \in 1..(Len(history) + 1)
      OBVIOUS
    <3>2. r[i + 1] = history[i]
      BY <2>3, <2>4, <3>1
    <3> QED
      BY <2>3, <3>1, <3>2 DEF Versions
  <2>6. prior \in Versions(r)
    <3>1. 1 \in 1..(Len(history) + 1) /\ r[1] = prior
      BY <2>3, <2>4
    <3> QED
      BY <2>3, <3>1 DEF Versions
  <2>7. Versions(history) \subseteq Versions(r)
    <3>1. ASSUME NEW v \in Versions(history)
          PROVE  v \in Versions(r)
      <4>1. PICK i \in DOMAIN history : v = history[i]
        BY <3>1, Zenon DEF Versions
      <4> QED
        BY <2>5, <4>1, Zenon
    <3> QED
      BY <3>1, Zenon
  <2> QED
    BY <2>6, <2>7
<1> QED
  BY <1>1, <1>2, <1>3

(***************************************************************************)
(* stampLineage: a first publication has no parent; any other has its      *)
(* parent's id in front, and its own id is its content (remote.ts).        *)
(***************************************************************************)
LEMMA StampedLine ==
    ASSUME NEW b \in Body, NEW parent \in MaybeManifest
    PROVE  /\ Identified(Stamped(b, parent)) /\ BodyOf(Stamped(b, parent)) = b
           /\ Stamped(b, parent).anc # <<>>
                => parent # NoManifest /\ Stamped(b, parent).anc[1] = parent.id
<1>1. BodyOf(Stamped(b, parent)) = b
  BY DEF BodyOf, Stamped, Body
<1>2. Stamped(b, parent).id = b
  BY DEF Stamped
<1>3. ASSUME Stamped(b, parent).anc # <<>>
      PROVE  parent # NoManifest /\ Stamped(b, parent).anc[1] = parent.id
  <2> DEFINE line == IF parent = NoManifest THEN <<>> ELSE <<parent.id>> \o parent.anc
             k == IF Len(line) < LineageDepth THEN Len(line) ELSE LineageDepth
  <2>1. Stamped(b, parent).anc = SubSeq(line, 1, k)
    BY DEF Stamped
  <2>2. parent # NoManifest
    <3>1. SUFFICES ASSUME parent = NoManifest
                   PROVE  SubSeq(line, 1, k) = <<>>
      BY <1>3, <2>1
    <3>2. line = <<>> /\ k = 0
      BY <3>1, LineageAssumption
    <3> QED
      BY <3>2
  <2>3. parent.id \in Body /\ parent.anc \in Seq(Body)
    BY <2>2 DEF MaybeManifest, Manifest
  <2>4. line \in Seq(Body) /\ line[1] = parent.id /\ Len(line) >= 1
    BY <2>2, <2>3
  <2>5. k \in Nat /\ 1 <= k /\ k <= Len(line)
    BY <2>4, LineageAssumption
  <2>6. SubSeq(line, 1, k)[1] = line[1]
    BY <2>4, <2>5
  <2> QED
    BY <2>1, <2>2, <2>4, <2>6
<1> QED
  BY <1>1, <1>2, <1>3 DEF Identified

\* What a stamped manifest retains is what its body does.
LEMMA StampedRetains ==
    ASSUME NEW n, NEW b, NEW parent, Retained(n, b)
    PROVE  Retained(n, Stamped(b, parent))
<1> DEFINE m == Stamped(b, parent)
<1>1. /\ m.gen = b.gen /\ m.dev = b.dev /\ m.files = b.files /\ m.tombs = b.tombs
      /\ m.history = b.history /\ m.forgotten = b.forgotten
  BY DEF Stamped
<1> HIDE DEF m
<1>2. Names(m) = Names(b)
  BY <1>1 DEF Names
<1> QED
  BY <1>1, <1>2 DEF Retained, Released, HistoryFull, Expired, m

(***************************************************************************)
(* buildNextManifest: a path's versions stay unless its history is full or *)
(* its tombstone has expired; an expired path was not live, so no file     *)
(* goes with it (apply.ts).                                                *)
(***************************************************************************)
LEMMA BuildNextRetains ==
    ASSUME NEW parent \in Manifest, Parses(parent), NEW gen \in Nat, NEW d \in Device,
           NEW uploaded \in [Path -> Hash \cup {Absent}], NEW tombstoned \in SUBSET Path,
           NEW time \in Nat
    PROVE  Retained(BodyOf(parent),
                    BuildNext(parent, gen, d, uploaded, tombstoned, Keep[d], time, Grace))
<1> DEFINE n == BodyOf(parent)
           m == BuildNext(parent, gen, d, uploaded, tombstoned, Keep[d], time, Grace)
           tombs == NextTombs(OnTopOf(parent), d, uploaded, tombstoned, time)
           expired(p) == Grace > 0 /\ tombs[p] # Absent /\ tombs[p].at < time - Grace
           replaced(p) == p \in tombstoned
                            \/ (uploaded[p] # Absent /\ parent.files[p] # uploaded[p])
<1>1. /\ parent # NoManifest /\ Keep[d] \in Nat /\ Grace \in Nat
      /\ parent.files \in [Path -> Hash \cup {Absent}]
      /\ parent.tombs \in [Path -> Tombstone \cup {Absent}]
      /\ parent.history \in [Path -> Seq(Hash)]
  BY NoManifestAssumption, ParameterAssumption DEF Manifest
<1>2. /\ n.files = parent.files /\ n.tombs = parent.tombs /\ n.history = parent.history
      /\ n.forgotten = parent.forgotten
  BY DEF BodyOf
<1>3. /\ OnTopOf(parent).files = parent.files /\ OnTopOf(parent).tombs = parent.tombs
      /\ OnTopOf(parent).history = parent.history /\ OnTopOf(parent).forgotten = parent.forgotten
  BY <1>1 DEF OnTopOf
<1>4. /\ m.forgotten = parent.forgotten /\ m.dev = d
      /\ \A p \in Path :
           /\ m.files[p] = IF p \in tombstoned THEN Absent
                           ELSE IF uploaded[p] # Absent THEN uploaded[p] ELSE parent.files[p]
           /\ m.tombs[p] = IF expired(p) THEN Absent ELSE tombs[p]
           /\ m.history[p] = IF expired(p) THEN <<>>
                             ELSE IF replaced(p)
                                  THEN Retain(parent.history[p], parent.files[p], Keep[d])
                                  ELSE parent.history[p]
  BY <1>3 DEF BuildNext
<1>5. \A p \in Path : tombs[p] = IF p \in tombstoned THEN [at |-> time, dev |-> d]
                                 ELSE IF uploaded[p] # Absent THEN Absent
                                 ELSE parent.tombs[p]
  BY <1>3 DEF NextTombs
<1> HIDE DEF n, m, tombs
<1>6. ASSUME NEW p \in Path
      PROVE  \/ VersionsAt(n, p) \subseteq Names(m)
             \/ HistoryFull(n, m, p)
             \/ Expired(n, m, p)
  <2>1. CASE expired(p)
    <3>1. p \notin tombstoned /\ uploaded[p] = Absent /\ parent.tombs[p] # Absent
      BY <1>1, <1>5, <2>1
    <3>2. parent.files[p] = Absent
      BY <3>1 DEF Parses
    <3> QED
      BY <1>2, <1>4, <2>1, <3>1, <3>2 DEF Expired
  <2>2. CASE ~expired(p) /\ replaced(p)
    <3>1. m.history[p] = Retain(parent.history[p], parent.files[p], Keep[d])
      BY <1>4, <2>2
    <3>2. parent.history[p] \in Seq(Hash) /\ parent.files[p] \in Hash \cup {Absent}
      BY <1>1
    <3>3. CASE Len(m.history[p]) = IF Keep[d] > Len(parent.history[p]) THEN Keep[d]
                                   ELSE Len(parent.history[p])
      BY <1>2, <1>4, <3>3 DEF HistoryFull
    <3>4. CASE ({parent.files[p]} \ {Absent}) \cup Versions(parent.history[p])
                 \subseteq Versions(m.history[p])
      BY <1>2, <3>4, VersionsNamed
    <3> QED
      BY <1>1, <3>1, <3>2, <3>3, <3>4, RetainKeeps
  <2>3. CASE ~expired(p) /\ ~replaced(p)
    <3>1. m.history[p] = parent.history[p] /\ m.files[p] = parent.files[p]
      BY <1>4, <2>3
    <3> QED
      BY <1>2, <3>1, VersionsNamed
  <2> QED
    BY <2>1, <2>2, <2>3
<1> QED
  BY <1>2, <1>4, <1>6 DEF Retained, n, m

(***************************************************************************)
(* forgetPaths: every version of a forgotten path becomes a kept object    *)
(* (engine.ts).                                                            *)
(***************************************************************************)
LEMMA ForgetNextRetains ==
    ASSUME NEW parent \in Manifest, NEW gen \in Nat, NEW d \in Device, NEW gone \in SUBSET Path
    PROVE  Retained(BodyOf(parent), ForgetNext(parent, gen, d, gone))
<1> DEFINE n == BodyOf(parent)
           m == ForgetNext(parent, gen, d, gone)
<1>1. /\ n.files = parent.files /\ n.history = parent.history
      /\ n.forgotten = parent.forgotten
  BY DEF BodyOf
<1>2. /\ m.forgotten = parent.forgotten \cup {parent.files[p] : p \in gone}
                         \cup UNION {Versions(parent.history[p]) : p \in gone}
      /\ \A p \in Path \ gone : /\ m.files[p] = parent.files[p]
                                /\ m.history[p] = parent.history[p]
  BY DEF ForgetNext, Versions
<1> HIDE DEF n, m
<1>3. ASSUME NEW p \in Path
      PROVE  VersionsAt(n, p) \subseteq Names(m)
  <2>1. CASE p \in gone
    <3>1. parent.files[p] \in m.forgotten /\ Versions(parent.history[p]) \subseteq m.forgotten
      BY <1>2, <2>1
    <3> QED
      BY <1>1, <3>1, VersionsNamed
  <2>2. CASE p \notin gone
    <3>1. m.history[p] = parent.history[p] /\ m.files[p] = parent.files[p]
      BY <1>2, <2>2
    <3> QED
      BY <1>1, <3>1, VersionsNamed
  <2> QED
    BY <2>1, <2>2
<1> QED
  BY <1>1, <1>2, <1>3 DEF Retained, n, m

\* releaseForgotten lets go of all kept objects, which is what it is for.
LEMMA ReleaseNextRetains ==
    ASSUME NEW parent \in Manifest, NEW gen, NEW d, parent.forgotten # {}
    PROVE  Retained(BodyOf(parent), ReleaseNext(parent, gen, d))
  BY DEF Retained, Released, BodyOf, ReleaseNext

(***************************************************************************)
(* What an operation publishes retains what the manifest it read names, if *)
(* its body does.                                                          *)
(***************************************************************************)
LEMMA PublicationRetains ==
    ASSUME NEW b \in Body, NEW parent \in MaybeManifest,
           parent # NoManifest => Identified(parent) /\ Retained(BodyOf(parent), b)
    PROVE  RetainsParent(Stamped(b, parent))
  BY StampedLine, StampedRetains DEF RetainsParent, Identified

---------------------------------------------------------------------------
(* No publication loses a version.                                         *)

(***************************************************************************)
(* A publication is stamped on top of the manifest its job read: that one  *)
(* has to be what its id says, or the lineage would speak of another.      *)
(***************************************************************************)
JobRetains(j) ==
    /\ j.remote = NoManifest \/ Identified(j.remote)
    /\ j.phase = "ready" => RetainsParent(j.next)

Retains ==
    /\ \A m \in store : RetainsParent(m)
    /\ \A d \in Device : JobRetains(job[d])

\* A device with nothing to do has nothing to lose.
LEMMA IdleRetains == JobRetains(IdleJob)
  BY DEF JobRetains, IdleJob

\* The winner of the highest generation is what its id says.
LEMMA TopRetains ==
    ASSUME TypeInv, Retains
    PROVE  Top(store) = NoManifest \/ Identified(Top(store))
  BY TopType DEF Retains, RetainsParent

(***************************************************************************)
(* A step that gives one device such a job and leaves the storage alone    *)
(* loses no version.                                                       *)
(***************************************************************************)
LEMMA RetainsJob ==
    ASSUME TypeInv, Retains, NEW d \in Device, NEW j, JobRetains(j),
           job' = [job EXCEPT ![d] = j], UNCHANGED store
    PROVE  Retains'
<1>1. ASSUME NEW e \in Device
      PROVE  JobRetains(job'[e])
  <2>1. job'[e] = IF e = d THEN j ELSE job[e]
    BY DEF TypeInv, TypeOK
  <2>2. JobRetains(job[e])
    BY DEF Retains
  <2>3. CASE e = d
    BY <2>1, <2>3, Zenon
  <2>4. CASE e # d
    BY <2>1, <2>2, <2>4, Zenon
  <2> QED
    BY <2>3, <2>4
<1> QED
  BY <1>1 DEF Retains

\* A job that has just read and planned remembers the top and publishes nothing.
LEMMA PlanningRetains ==
    ASSUME TypeInv, Retains, NEW d, NEW U, NEW phase, phase # "ready", NEW full, NEW todo
    PROVE  JobRetains(Planning(d, U, phase, full, todo))
  BY TopRetains DEF JobRetains, Planning

\* No step of a pull publishes anything.
LEMMA RetainsPull ==
    ASSUME TypeInv, Retains, NEW d \in Device, Pull(d)
    PROVE  Retains'
<1>1. job \in [Device -> Job] /\ JobRetains(job[d])
  BY DEF Retains, TypeInv, TypeOK
<1>2. CASE PullBegin(d)
  <2>1. PICK U \in Unreadable(d) :
          job' = [job EXCEPT ![d] =
                    Planning(d, U, "pull", FALSE, OpsOf(PlanFor(d, U), PullKinds))]
    BY <1>2 DEF PullBegin
  <2> QED
    BY <1>2, <2>1, PlanningRetains, RetainsJob DEF PullBegin
<1>3. CASE ApplyDownload(d) \/ ApplyDeleteLocal(d) \/ ApplyConflict(d)
  <2>1. PICK op \in job[d].todo :
          NextPullOp(d, op) /\ (job' = Done(d, op) \/ job' = DoneHeld(d, op))
    BY <1>3 DEF ApplyDownload, ApplyDeleteLocal, ApplyConflict
  <2> DEFINE done == [job[d] EXCEPT !.todo = @ \ {op}]
             doneHeld == [job[d] EXCEPT !.todo = @ \ {op}, !.held = @ \cup {op.path}]
  <2>2. JobRetains(done) /\ JobRetains(doneHeld)
    BY <1>1 DEF JobRetains, Job
  <2>3. job' = [job EXCEPT ![d] = done] \/ job' = [job EXCEPT ![d] = doneHeld]
    BY <1>1, <2>1 DEF Done, DoneHeld
  <2>4. UNCHANGED store
    BY <1>3 DEF ApplyDownload, ApplyDeleteLocal, ApplyConflict
  <2> HIDE DEF done, doneHeld
  <2> QED
    BY <2>2, <2>3, <2>4, RetainsJob
<1>4. CASE FinishPull(d)
  <2> DEFINE b == AdoptPulled(job[d].remote, job[d].planned, job[d].held, profile[d])
             j == [job[d] EXCEPT !.phase = "push", !.planned = b]
  <2>1. job' = [job EXCEPT ![d] = j] \/ job' = [job EXCEPT ![d] = IdleJob]
    BY <1>4 DEF FinishPull
  <2>2. JobRetains(j)
    BY <1>1 DEF JobRetains, Job
  <2>3. UNCHANGED store
    BY <1>4 DEF FinishPull
  <2> HIDE DEF b, j
  <2> QED
    BY <2>1, <2>2, <2>3, IdleRetains, RetainsJob
<1> QED
  BY <1>2, <1>3, <1>4 DEF Pull

\* A push publishes what BuildNext made of the manifest it read.
LEMMA RetainsPush ==
    ASSUME TypeInv, Readable, Retains, NEW d \in Device, PushBegin(d) \/ PushSteps(d)
    PROVE  Retains'
<1>1. /\ job \in [Device -> Job] /\ job[d] \in Job /\ job[d].remote \in MaybeManifest
      /\ JobRetains(job[d]) /\ JobReadable(job[d])
  BY DEF Readable, Retains, TypeInv, TypeOK, Job
<1>2. CASE PushBegin(d)
  <2>1. PICK U \in Unreadable(d) :
          job' = [job EXCEPT ![d] =
                    Planning(d, U, "push", FALSE, OpsOf(PlanFor(d, U), PushKinds))]
    BY <1>2 DEF PushBegin
  <2> QED
    BY <1>2, <2>1, PlanningRetains, RetainsJob DEF PushBegin
<1>3. CASE PushFiles(d)
  <2> DEFINE uploads(L) == {o.path : o \in OpsOf(job[d].todo, {"upload"})} \ L
             uploaded(L) == [p \in Path |-> IF p \in uploads(L)
                                            THEN FileAt(d, p) ELSE Absent]
             tombstoned == {o.path : o \in OpsOf(job[d].todo, {"deleteRemote"})}
             changed(L) == {p \in Path : uploaded(L)[p] # Absent} \cup tombstoned
             body(L) == BuildNext(job[d].remote, GenOf(job[d].remote) + 1, d,
                                  uploaded(L), tombstoned, Keep[d], now, Grace)
             next(L) == Stamped(body(L), job[d].remote)
             j(L) == [job[d] EXCEPT !.phase = "ready", !.todo = {},
                        !.next = next(L), !.changed = changed(L)]
  <2>1. PICK locked \in SUBSET {o.path : o \in OpsOf(job[d].todo, {"upload"})} :
          job' = [job EXCEPT ![d] =
                    IF changed(locked) = {} THEN IdleJob ELSE j(locked)]
    BY <1>3 DEF PushFiles
  <2>2. /\ \A o \in job[d].todo : o.path \in Path
        /\ \A p \in Path : FileAt(d, p) \in Hash \cup {Absent}
    BY <1>1, AtType DEF FileAt, TypeInv, TypeOK, Side, Job, Op
  <2>3. uploaded(locked) \in [Path -> Hash \cup {Absent}] /\ tombstoned \in SUBSET Path
    BY <2>2 DEF OpsOf
  <2>4. /\ GenOf(job[d].remote) + 1 \in Nat
        /\ Keep[d] \in Nat /\ now \in Nat /\ Grace \in Nat
    BY <1>1, OnTopOfType, ParameterAssumption DEF TypeInv, TypeOK
  <2> HIDE DEF uploads, uploaded, tombstoned, changed
  <2>5. body(locked) \in Body
    BY <1>1, <2>3, <2>4, BuildNextType
  <2>6. ASSUME job[d].remote # NoManifest
        PROVE  Identified(job[d].remote) /\ Retained(BodyOf(job[d].remote), body(locked))
    <3>1. job[d].remote \in Manifest /\ Parses(job[d].remote) /\ Identified(job[d].remote)
      BY <1>1, <2>6 DEF MaybeManifest, JobReadable, JobRetains
    <3> QED
      BY <2>3, <2>4, <3>1, BuildNextRetains
  <2> HIDE DEF body
  <2>7. RetainsParent(next(locked))
    BY <1>1, <2>5, <2>6, PublicationRetains
  <2> HIDE DEF next
  <2>8. JobRetains(j(locked))
    BY <1>1, <2>7 DEF JobRetains, Job
  <2>9. UNCHANGED store
    BY <1>3 DEF PushFiles
  <2> HIDE DEF j
  <2> QED
    BY <2>1, <2>8, <2>9, IdleRetains, RetainsJob
<1>4. CASE Publish(d)
  <2> DEFINE j == [job[d] EXCEPT !.phase = "published"]
  <2>1. RetainsParent(job[d].next)
    BY <1>1, <1>4 DEF JobRetains, Publish
  <2>2. \A m \in store' : RetainsParent(m)
    BY <1>4, <2>1 DEF Publish, Put, Retains
  <2>3. JobRetains(j)
    BY <1>1 DEF JobRetains, Job
  <2>4. job' = [job EXCEPT ![d] = j] \/ job' = [job EXCEPT ![d] = IdleJob]
    BY <1>1, <1>4 DEF Publish
  <2> HIDE DEF j
  <2>5. ASSUME NEW e \in Device
        PROVE  JobRetains(job'[e])
    <3>1. job'[e] \in {j, IdleJob, job[e]}
      BY <1>1, <2>4
    <3>2. JobRetains(job[e])
      BY DEF Retains
    <3> QED
      BY <2>3, <3>1, <3>2, IdleRetains
  <2> QED
    BY <2>2, <2>5 DEF Retains
<1>5. CASE Relist(d)
  BY <1>5, IdleRetains, RetainsJob DEF Relist
<1> QED
  BY <1>2, <1>3, <1>4, <1>5 DEF PushSteps

\* What is forgotten is kept, and what is let go was released on purpose.
LEMMA RetainsForget ==
    ASSUME TypeInv, Retains, NEW d \in Device, ForgetBegin(d) \/ ReleaseBegin(d)
    PROVE  Retains'
<1> DEFINE top == Top(store)
<1>1. top \in Manifest /\ Identified(top) /\ GenOf(top) + 1 \in Nat /\ UNCHANGED store
  BY TopType, TopRetains, NoManifestAssumption DEF ForgetBegin, ReleaseBegin
<1>2. \E body, changed :
        /\ body \in Body
        /\ job' = [job EXCEPT ![d] = Publishing(d, body, changed)]
        /\ Retained(BodyOf(top), body)
  <2>1. CASE ForgetBegin(d)
    <3>1. PICK gone \in SUBSET {p \in Path : top.files[p] # Absent} :
            job' = [job EXCEPT ![d] =
                      Publishing(d, ForgetNext(top, GenOf(top) + 1, d, gone), gone)]
      BY <2>1 DEF ForgetBegin
    <3> DEFINE body == ForgetNext(top, GenOf(top) + 1, d, gone)
    <3>2. body \in Body /\ Retained(BodyOf(top), body)
      BY <1>1, ForgetNextType, ForgetNextRetains
    <3> HIDE DEF body, top
    <3> QED
      BY <3>1, <3>2 DEF body
  <2>2. CASE ReleaseBegin(d)
    <3> DEFINE body == ReleaseNext(top, GenOf(top) + 1, d)
    <3>1. job' = [job EXCEPT ![d] = Publishing(d, body, {})] /\ top.forgotten # {}
      BY <2>2 DEF ReleaseBegin
    <3>2. body \in Body /\ Retained(BodyOf(top), body)
      BY <1>1, <3>1, ReleaseNextType, ReleaseNextRetains
    <3> HIDE DEF body, top
    <3> QED
      BY <3>1, <3>2 DEF body
  <2> QED
    BY <2>1, <2>2
<1>3. PICK body, changed :
        /\ body \in Body
        /\ job' = [job EXCEPT ![d] = Publishing(d, body, changed)]
        /\ Retained(BodyOf(top), body)
  BY <1>2
<1>4. RetainsParent(Stamped(body, top))
  BY <1>1, <1>3, PublicationRetains DEF MaybeManifest
<1>5. JobRetains(Publishing(d, body, changed))
  BY <1>1, <1>4 DEF JobRetains, Publishing
<1> QED
  BY <1>1, <1>3, <1>5, RetainsJob

\* No operation of the engine loses a version.
LEMMA RetainsEngine ==
    ASSUME TypeInv, Readable, Retains, NEW d \in Device, Engine(d)
    PROVE  Retains'
<1>1. CASE ConfirmBegin(d)
  <2> DEFINE phase == IF store = {} THEN "push" ELSE "pull"
             todo(U) == IF store = {} THEN OpsOf(PlanFor(d, U), PushKinds)
                        ELSE PlanFor(d, U)
             j(U) == Planning(d, U, phase, TRUE, todo(U))
  <2>1. PICK U \in Unreadable(d) : job' = [job EXCEPT ![d] = j(U)]
    BY <1>1 DEF ConfirmBegin
  <2> HIDE DEF todo
  <2>2. JobRetains(j(U))
    BY PlanningRetains
  <2>3. UNCHANGED store
    BY <1>1 DEF ConfirmBegin
  <2> HIDE DEF j
  <2> QED
    BY <2>1, <2>2, <2>3, RetainsJob
<1>2. CASE Preview(d) \/ Dismiss(d) \/ ForgetBase(d) \/ AcceptRolledBack(d)
  BY <1>2 DEF Preview, Dismiss, ForgetBase, AcceptRolledBack, Retains
<1> QED
  BY <1>1, <1>2, RetainsPull, RetainsPush, RetainsForget DEF Engine

\* Every step keeps the versions.
LEMMA RetainsNext == TypeInv /\ Readable /\ Retains /\ [Next]_vars => Retains'
<1> SUFFICES ASSUME TypeInv, Readable, Retains, [Next]_vars
             PROVE  Retains'
  OBVIOUS
<1>1. CASE UNCHANGED vars
  BY <1>1 DEF vars, Retains
<1>2. ASSUME NEW d \in Device, User(d)
      PROVE  Retains'
  BY <1>2 DEF User, UserEdit, UserDelete, UserRestore, ChangeProfile, Retains
<1>3. ASSUME NEW d \in Device, Abandon(d) \/ Crash(d)
      PROVE  Retains'
  BY <1>3, IdleRetains, RetainsJob DEF Abandon, Crash
<1>4. CASE Tick
  BY <1>4 DEF Tick, Retains
<1>5. CASE StorageRollback
  BY <1>5 DEF StorageRollback, Retains
<1> QED
  BY <1>1, <1>2, <1>3, <1>4, <1>5, RetainsEngine DEF Next

\* An empty storage has no version to lose.
LEMMA RetainsInit == Init => Retains
  BY IdleRetains DEF Init, Retains

(***************************************************************************)
(* Whatever devices push, forget, release or fork, and however small one   *)
(* device's versionsToKeep is, a child names what its parent named unless  *)
(* a history was full, a tombstone expired or the copies were released     *)
(* (apply.ts: buildNextManifest, retain; engine.ts: forgetPaths).          *)
(***************************************************************************)
THEOREM NoVersionLost == Spec => []VersionsRetained
<1>1. Retains => VersionsRetained
  BY DEF Retains, RetainsParent, Retained, VersionsRetained
<1>2. Spec => []TypeInv
  BY TypeInvariant
<1>3. Spec => []Readable
  BY <1>2, ReadableInit, ReadableNext, PTL DEF Spec
<1> QED
  BY <1>1, <1>2, <1>3, RetainsInit, RetainsNext, PTL DEF Spec

---------------------------------------------------------------------------
(* What a plan's operations say of the scan, the base and the top.         *)

(***************************************************************************)
(* The sides of a path a plan decides on are sides classify knows.         *)
(***************************************************************************)
LEMMA PlanSides ==
    ASSUME TypeInv, NEW d \in Device, NEW U \in SUBSET Path, NEW p \in Path
    PROVE  /\ Scan(d, U)[p] \in LocalSide
           /\ SideOf(Planned(d), p) \in ManifestSide
           /\ SideOf(Top(store), p) \in ManifestSide
<1>1. Scan(d, U)[p] \in LocalSide
  BY DEF TypeInv, TypeOK, Scan, LocalSide, Side
<1>2. Planned(d) \in MaybeManifest /\ Top(store) \in MaybeManifest
  BY PlannedType
<1> QED
  BY <1>1, <1>2, SideOfType

\* What a plan decides for a path, from what its job read.
Decision(d, U, p) == ThreeWay(Scan(d, U)[p], SideOf(Planned(d), p), SideOf(Top(store), p))

(***************************************************************************)
(* An operation does at its path what the three-way merge decides there;   *)
(* only a download may become a conflict, for a name that differs in case. *)
(***************************************************************************)
LEMMA PlanDecides ==
    ASSUME TypeInv, NEW d \in Device, NEW U \in SUBSET Path, NEW op \in PlanFor(d, U)
    PROVE  /\ op.path \in Path /\ op.local = Scan(d, U)[op.path]
           /\ \/ op.kind = Decision(d, U, op.path)
              \/ op.kind = "conflict" /\ Decision(d, U, op.path) = "download"
<1>1. PICK p \in Path : op = Operation(Scan(d, U), Planned(d), Top(store), p)
  BY DEF PlanFor, PlanOps, Operations
<1>2. Classify(Scan(d, U)[p], SideOf(Planned(d), p), SideOf(Top(store), p))
        = Decision(d, U, p)
  BY PlanSides, ClassifyIsThreeWay DEF Decision
<1> QED
  BY <1>1, <1>2 DEF Operation

(***************************************************************************)
(* Every carried path that could be read and needs something has its       *)
(* operation in the plan.                                                  *)
(***************************************************************************)
LEMMA PlanCovers ==
    ASSUME TypeInv, NEW d \in Device, NEW U \in SUBSET Path, NEW p \in profile[d] \ U,
           Decision(d, U, p) # "none"
    PROVE  \E op \in PlanFor(d, U) : op.path = p
<1>1. p \in Path
  BY DEF TypeInv, TypeOK
<1> DEFINE op == Operation(Scan(d, U), Planned(d), Top(store), p)
<1>2. Classify(Scan(d, U)[p], SideOf(Planned(d), p), SideOf(Top(store), p))
        = Decision(d, U, p)
  BY <1>1, PlanSides, ClassifyIsThreeWay DEF Decision
<1>3. op.path = p /\ op.kind # "none"
  BY <1>2 DEF Operation
<1>4. op \in PlanFor(d, U)
  BY <1>1, <1>3 DEF PlanFor, PlanOps, Operations
<1> QED
  BY <1>3, <1>4

---------------------------------------------------------------------------
(* A base vouches only for what its device held.                           *)

\* What a device has held, as a file or as a copy beside it, and no file.
Held(d) == seen[d] \cup {Absent}

HeldFiles(held, m) == \A p \in Path : FilesOf(m)[p] \in held

(***************************************************************************)
(* BaseWasHeld is about the end of a job, decided at its beginning: while  *)
(* a pull runs, an entry of its manifest is one this device holds, or one  *)
(* it still has to fetch, or its path sits this job out; what a push       *)
(* publishes is what it read of the vault.                                 *)
(***************************************************************************)
HeldJob(held, carried, j) ==
    /\ HeldFiles(held, j.planned)
    /\ j.phase = "pull" =>
         \A p \in carried \ j.held :
            \/ FilesOf(j.remote)[p] \in held
            \/ \E op \in j.todo : op.path = p /\ op.kind \in {"download", "conflict"}
    /\ j.phase \in {"ready", "published"} =>
         \A p \in j.changed : j.next.files[p] \in held

HeldBy(held, mine, b, s, carried, j) ==
    /\ \A p \in Path : mine[p] \in held
    /\ HeldFiles(held, b)
    /\ HeldFiles(held, s)
    /\ HeldJob(held, carried, j)

AllHeld ==
    \A d \in Device : HeldBy(Held(d), vault[d], base[d], saved[d], profile[d], job[d])

\* What a device has held, it has held for good.
LEMMA HeldGrows ==
    ASSUME NEW held, NEW more, held \subseteq more,
           NEW carried, NEW j, HeldJob(held, carried, j)
    PROVE  HeldJob(more, carried, j)
  BY DEF HeldJob, HeldFiles

\* Nothing is no file.
LEMMA NothingHeld ==
    ASSUME NEW held, Absent \in held, NEW carried
    PROVE  HeldFiles(held, NoManifest) /\ HeldJob(held, carried, IdleJob)
  BY DEF HeldFiles, HeldJob, IdleJob, FilesOf, OnTopOf, Blank

\* A manifest whose entries are replaced has the entries it was given.
LEMMA ReplacedFiles ==
    ASSUME NEW m \in Manifest, NEW new \in [Path -> Hash \cup {Absent}]
    PROVE  FilesOf([m EXCEPT !.files = new]) = new
<1>1. [m EXCEPT !.files = new] \in Manifest
  BY ReplacedFilesType
<1>2. [m EXCEPT !.files = new] # NoManifest
  BY <1>1, NoManifestAssumption
<1>3. [m EXCEPT !.files = new].files = new
  BY DEF Manifest
<1> QED
  BY <1>2, <1>3 DEF FilesOf, OnTopOf

\* baseFor drops entries of a base or the whole of it, and adds none.
LEMMA PlannedHeld ==
    ASSUME TypeInv, NEW d \in Device, NEW held, Absent \in held, HeldFiles(held, base[d])
    PROVE  HeldFiles(held, Planned(d))
<1> DEFINE b == base[d]
           top == Top(store)
           new == [p \in Path |-> IF b.gen < top.markers[p] /\ top.files[p] # b.files[p]
                                  THEN Absent ELSE b.files[p]]
<1>1. Planned(d) \in {b, NoManifest, WithoutForgotten(b, top)}
  BY DEF Planned, BaseFor
<1>2. CASE b = NoManifest
  BY <1>2, NothingHeld DEF Planned, BaseFor
<1>3. CASE b # NoManifest
  <2>1. b \in Manifest /\ b.files \in [Path -> Hash \cup {Absent}]
    BY <1>3 DEF TypeInv, TypeOK, MaybeManifest, Manifest
  <2>2. new \in [Path -> Hash \cup {Absent}] /\ FilesOf(b) = b.files
    BY <1>3, <2>1 DEF FilesOf, OnTopOf
  <2>3. WithoutForgotten(b, top) = [b EXCEPT !.files = new]
    BY DEF WithoutForgotten
  <2>4. \A p \in Path : new[p] \in {b.files[p], Absent}
    OBVIOUS
  <2> HIDE DEF new
  <2>5. FilesOf(WithoutForgotten(b, top)) = new
    BY <2>1, <2>2, <2>3, ReplacedFiles
  <2>6. HeldFiles(held, WithoutForgotten(b, top))
    BY <2>2, <2>4, <2>5 DEF HeldFiles
  <2> QED
    BY <1>1, <2>6, NothingHeld
<1> QED
  BY <1>2, <1>3

(***************************************************************************)
(* One device's step leaves the other devices where they are: they share   *)
(* nothing but the storage.                                                *)
(***************************************************************************)
OthersStand(d) ==
    \A e \in Device \ {d} :
        /\ vault'[e] = vault[e] /\ profile'[e] = profile[e] /\ seen'[e] = seen[e]
        /\ base'[e] = base[e] /\ saved'[e] = saved[e] /\ job'[e] = job[e]

\* A user's step is a step of one device.
LEMMA UserAlone ==
    ASSUME TypeInv, NEW d \in Device, User(d)
    PROVE  OthersStand(d)
<1>1. ASSUME NEW p \in Path, UserEdit(d, p)
      PROVE  OthersStand(d)
  <2>1. PICK h : vault' = [vault EXCEPT ![d][p] = h]
                 /\ seen' = [seen EXCEPT ![d] = @ \cup {h}]
    BY <1>1 DEF UserEdit
  <2> QED
    BY <1>1, <2>1 DEF UserEdit, OthersStand, TypeInv, TypeOK, state
<1>2. ASSUME NEW p \in Path, UserRestore(d, p)
      PROVE  OthersStand(d)
  <2>1. PICK h : vault' = [vault EXCEPT ![d][p] = h]
                 /\ seen' = [seen EXCEPT ![d] = @ \cup {h}]
    BY <1>2 DEF UserRestore
  <2> QED
    BY <1>2, <2>1 DEF UserRestore, OthersStand, TypeInv, TypeOK, state
<1>3. ASSUME NEW p \in Path, UserDelete(d, p)
      PROVE  OthersStand(d)
  BY <1>3 DEF UserDelete, OthersStand, TypeInv, TypeOK, state
<1>4. CASE ChangeProfile(d)
  BY <1>4 DEF ChangeProfile, OthersStand, TypeInv, TypeOK, files, state, ghosts
<1> QED
  BY <1>1, <1>2, <1>3, <1>4 DEF User

\* So is each step of a pull.
LEMMA PullAlone ==
    ASSUME TypeInv, NEW d \in Device, Pull(d)
    PROVE  OthersStand(d)
<1>1. /\ vault \in [Device -> [Path -> Side]] /\ seen \in [Device -> SUBSET Hash]
      /\ base \in [Device -> MaybeManifest] /\ saved \in [Device -> MaybeManifest]
      /\ job \in [Device -> Job]
  BY DEF TypeInv, TypeOK
<1>2. CASE PullBegin(d)
  <2>1. PICK j : job' = [job EXCEPT ![d] = j]
    BY <1>2 DEF PullBegin
  <2> QED
    BY <1>1, <1>2, <2>1 DEF PullBegin, OthersStand, files, state, ghosts
<1>3. ASSUME NEW op, job' = Done(d, op) \/ job' = DoneHeld(d, op)
      PROVE  \A e \in Device \ {d} : job'[e] = job[e]
  BY <1>1, <1>3 DEF Done, DoneHeld
<1>4. ASSUME NEW p, NEW h, WriteFile(d, p, h) \/ WriteCopy(d, h)
      PROVE  \A e \in Device \ {d} : vault'[e] = vault[e] /\ seen'[e] = seen[e]
  BY <1>1, <1>4 DEF WriteFile, WriteCopy
<1>5. CASE ApplyDownload(d)
  <2>1. PICK op : /\ job' = Done(d, op) \/ job' = DoneHeld(d, op)
                  /\ \/ \E p, h : WriteFile(d, p, h) \/ WriteCopy(d, h)
                     \/ UNCHANGED <<vault, seen>>
    BY <1>5 DEF ApplyDownload, files
  <2> QED
    BY <1>3, <1>4, <1>5, <2>1 DEF ApplyDownload, OthersStand, state
<1>6. CASE ApplyConflict(d)
  <2>1. PICK op : /\ job' = Done(d, op)
                  /\ \/ \E p, h : WriteFile(d, p, h) \/ WriteCopy(d, h)
                     \/ UNCHANGED <<vault, seen>>
    BY <1>6 DEF ApplyConflict, files
  <2> QED
    BY <1>3, <1>4, <1>6, <2>1 DEF ApplyConflict, OthersStand, state
<1>7. CASE ApplyDeleteLocal(d)
  <2>1. PICK op : /\ job' = Done(d, op) \/ job' = DoneHeld(d, op)
                  /\ \/ vault' = [vault EXCEPT ![d][At(d, op.path)] = Absent]
                     \/ UNCHANGED vault
    BY <1>7 DEF ApplyDeleteLocal
  <2> QED
    BY <1>1, <1>3, <1>7, <2>1 DEF ApplyDeleteLocal, OthersStand, state, ghosts
<1>8. CASE FinishPull(d)
  <2>1. PICK b, j : Adopt(d, b) /\ job' = [job EXCEPT ![d] = j]
    BY <1>8 DEF FinishPull
  <2> QED
    BY <1>1, <1>8, <2>1 DEF FinishPull, Adopt, OthersStand, files, ghosts
<1> QED
  BY <1>2, <1>5, <1>6, <1>7, <1>8 DEF Pull

\* So is every other operation of the engine, and what ends one.
LEMMA EngineAlone ==
    ASSUME TypeInv, NEW d \in Device, Engine(d) \/ Abandon(d) \/ Crash(d)
    PROVE  OthersStand(d)
<1>1. /\ vault \in [Device -> [Path -> Side]] /\ seen \in [Device -> SUBSET Hash]
      /\ base \in [Device -> MaybeManifest] /\ saved \in [Device -> MaybeManifest]
      /\ job \in [Device -> Job]
  BY DEF TypeInv, TypeOK
<1>2. CASE \/ PushBegin(d) \/ PushFiles(d) \/ Publish(d) \/ ConfirmBegin(d)
           \/ ForgetBegin(d) \/ ReleaseBegin(d) \/ Abandon(d)
  <2>1. PICK j : job' = [job EXCEPT ![d] = j]
    <3>1. CASE Publish(d)
      <4>1. job' = [job EXCEPT ![d] = IdleJob]
              \/ job' = [job EXCEPT ![d] = [job[d] EXCEPT !.phase = "published"]]
        BY <1>1, <3>1 DEF Publish
      <4> QED
        BY <4>1, Zenon
    <3>2. CASE PushBegin(d)
      BY <3>2 DEF PushBegin
    <3>3. CASE PushFiles(d)
      BY <3>3, Zenon DEF PushFiles
    <3>4. CASE ConfirmBegin(d)
      BY <3>4 DEF ConfirmBegin
    <3>5. CASE ForgetBegin(d) \/ ReleaseBegin(d) \/ Abandon(d)
      BY <3>5 DEF ForgetBegin, ReleaseBegin, Abandon
    <3> QED
      BY <1>2, <3>1, <3>2, <3>3, <3>4, <3>5
  <2>2. UNCHANGED <<files, profile, state, ghosts>>
    BY <1>2 DEF PushBegin, PushFiles, Publish, ConfirmBegin, ForgetBegin, ReleaseBegin,
       Abandon
  <2> QED
    BY <1>1, <2>1, <2>2 DEF OthersStand, files, state, ghosts
<1>3. CASE Relist(d)
  <2>1. /\ job' = [job EXCEPT ![d] = IdleJob]
        /\ (\E b : Adopt(d, b)) \/ UNCHANGED state
        /\ UNCHANGED <<files, profile, ghosts>>
    BY <1>3 DEF Relist
  <2> QED
    BY <1>1, <2>1 DEF Adopt, OthersStand, files, state, ghosts
<1>4. CASE Preview(d) \/ Dismiss(d)
  BY <1>4 DEF Preview, Dismiss, OthersStand, files, state, ghosts
<1>5. CASE ForgetBase(d) \/ AcceptRolledBack(d) \/ Crash(d)
  BY <1>1, <1>5 DEF ForgetBase, AcceptRolledBack, Crash, DropBase, OthersStand, files, ghosts
<1> QED
  BY <1>2, <1>3, <1>4, <1>5, PullAlone DEF Engine, PushSteps

(***************************************************************************)
(* A step of one device after which that device holds what it vouches for  *)
(* keeps AllHeld.                                                          *)
(***************************************************************************)
LEMMA HeldStep ==
    ASSUME AllHeld, NEW d \in Device, OthersStand(d),
           HeldBy(seen'[d] \cup {Absent}, vault'[d], base'[d], saved'[d],
                  profile'[d], job'[d])
    PROVE  AllHeld'
<1>1. ASSUME NEW e \in Device
      PROVE  HeldBy(seen'[e] \cup {Absent}, vault'[e], base'[e], saved'[e],
                    profile'[e], job'[e])
  <2>1. CASE e = d
    BY <2>1
  <2>2. CASE e # d
    <3>1. HeldBy(seen[e] \cup {Absent}, vault[e], base[e], saved[e], profile[e], job[e])
      BY DEF AllHeld, Held
    <3>2. /\ vault'[e] = vault[e] /\ profile'[e] = profile[e] /\ seen'[e] = seen[e]
          /\ base'[e] = base[e] /\ saved'[e] = saved[e] /\ job'[e] = job[e]
      BY <2>2 DEF OthersStand
    <3> QED
      BY <3>1, <3>2, Zenon
  <2> QED
    BY <2>1, <2>2
<1> QED
  BY <1>1 DEF AllHeld, Held

\* Of a step that only moves the job, the job is all there is to look at.
LEMMA HeldJobStep ==
    ASSUME TypeInv, AllHeld, NEW d \in Device, OthersStand(d),
           UNCHANGED <<vault, base, saved, profile, seen>>,
           HeldJob(Held(d), profile[d], job'[d])
    PROVE  AllHeld'
<1>1. HeldBy(Held(d), vault[d], base[d], saved[d], profile[d], job[d])
  BY DEF AllHeld
<1>2. HeldBy(Held(d), vault[d], base[d], saved[d], profile[d], job'[d])
  BY <1>1 DEF HeldBy
<1>3. HeldBy(seen'[d] \cup {Absent}, vault'[d], base'[d], saved'[d], profile'[d], job'[d])
  BY <1>2 DEF Held
<1> QED
  BY <1>3, HeldStep

\* Whatever a user writes, the device holds; the job is not concerned.
LEMMA HeldUser ==
    ASSUME TypeInv, AllHeld, NEW d \in Device, User(d)
    PROVE  AllHeld'
<1>1. /\ vault \in [Device -> [Path -> Side]] /\ seen \in [Device -> SUBSET Hash]
      /\ profile \in [Device -> SUBSET Path]
      /\ HeldBy(Held(d), vault[d], base[d], saved[d], profile[d], job[d])
  BY DEF TypeInv, TypeOK, AllHeld
<1>2. ASSUME NEW p \in Path, UserEdit(d, p) \/ UserDelete(d, p) \/ UserRestore(d, p)
      PROVE  AllHeld'
  <2>1. PICK h : /\ vault' = [vault EXCEPT ![d][p] = h]
                 /\ \/ h = Absent /\ seen' = seen
                    \/ seen' = [seen EXCEPT ![d] = @ \cup {h}]
    BY <1>2 DEF UserEdit, UserDelete, UserRestore
  <2>2. /\ Held(d) \subseteq seen'[d] \cup {Absent}
        /\ \A q \in Path : vault'[d][q] \in seen'[d] \cup {Absent}
    BY <1>1, <2>1 DEF Held, HeldBy
  <2>3. /\ base'[d] = base[d] /\ saved'[d] = saved[d] /\ profile'[d] = profile[d]
        /\ job'[d] = job[d]
    BY <1>2 DEF UserEdit, UserDelete, UserRestore, state
  <2>4. HeldJob(seen'[d] \cup {Absent}, profile[d], job[d])
    BY <1>1, <2>2, HeldGrows DEF HeldBy
  <2>5. HeldBy(seen'[d] \cup {Absent}, vault'[d], base[d], saved[d], profile[d], job[d])
    BY <1>1, <2>2, <2>4 DEF HeldBy, HeldFiles
  <2> QED
    BY <1>2, <2>3, <2>5, HeldStep, UserAlone DEF User
<1>3. CASE ChangeProfile(d)
  <2>1. job[d].phase = "idle" /\ job'[d] = job[d] /\ UNCHANGED <<files, state, seen>>
    BY <1>3 DEF ChangeProfile, Idle, ghosts
  <2>2. HeldJob(Held(d), profile'[d], job[d])
    BY <1>1, <2>1 DEF HeldBy, HeldJob
  <2>3. HeldBy(Held(d), vault[d], base[d], saved[d], profile'[d], job[d])
    BY <1>1, <2>2 DEF HeldBy
  <2>4. HeldBy(seen'[d] \cup {Absent}, vault'[d], base'[d], saved'[d], profile'[d], job'[d])
    BY <2>1, <2>3 DEF Held, files, state
  <2> QED
    BY <1>3, <2>4, HeldStep, UserAlone DEF User
<1> QED
  BY <1>2, <1>3 DEF User

(***************************************************************************)
(* A path that could be read needs no fetching only if this device holds   *)
(* what the storage has, or its base says it had it: classify asks for a   *)
(* download or a conflict in every other case.                             *)
(***************************************************************************)
LEMMA UnfetchedHeld ==
    ASSUME TypeInv, AllHeld, NEW d \in Device, NEW U \in SUBSET Path,
           NEW p \in profile[d] \ U
    PROVE  \/ FilesOf(Top(store))[p] \in Held(d)
           \/ \E op \in PlanFor(d, U) : op.path = p /\ op.kind \in {"download", "conflict"}
<1> DEFINE l == Scan(d, U)[p]
           b == SideOf(Planned(d), p)
           r == SideOf(Top(store), p)
<1>1. p \in Path /\ HeldBy(Held(d), vault[d], base[d], saved[d], profile[d], job[d])
  BY DEF TypeInv, TypeOK, AllHeld
<1>2. Absent \in Held(d) /\ l \in Held(d)
  BY <1>1 DEF Held, HeldBy, Scan
<1>3. HeldFiles(Held(d), Planned(d))
  BY <1>1, <1>2, PlannedHeld DEF HeldBy
<1>4. Top(store) \in MaybeManifest /\ Planned(d) \in MaybeManifest
  BY PlannedType
<1>5. ASSUME NEW m \in MaybeManifest
      PROVE  /\ FilesOf(m)[p] \in Hash \cup {Absent}
             /\ Live(SideOf(m, p)) <=> FilesOf(m)[p] # Absent
             /\ Live(SideOf(m, p)) => SideOf(m, p) = FilesOf(m)[p]
  <2>1. CASE m = NoManifest
    BY <1>1, <2>1, MarkAssumption DEF FilesOf, OnTopOf, Blank, SideOf, Live
  <2>2. CASE m # NoManifest
    BY <1>1, <1>5, <2>2, MarkAssumption
       DEF MaybeManifest, Manifest, FilesOf, OnTopOf, SideOf, Live
  <2> QED
    BY <2>1, <2>2
<1>6. CASE ~Live(r)
  BY <1>2, <1>4, <1>5, <1>6
<1>7. CASE Live(r) /\ (l = r \/ b = r)
  <2>1. FilesOf(Top(store))[p] \in {l, FilesOf(Planned(d))[p]}
    BY <1>4, <1>5, <1>7
  <2> QED
    BY <1>1, <1>2, <1>3, <2>1 DEF HeldFiles
<1>8. CASE Live(r) /\ l # r /\ b # r
  <2>1. l \in LocalSide /\ b \in ManifestSide /\ r \in ManifestSide
    BY <1>1, PlanSides
  <2>2. Decision(d, U, p) \in {"download", "conflict"}
    BY <1>8, <2>1, LiveSides DEF Decision, ThreeWay, Same
  <2>3. PICK op \in PlanFor(d, U) : op.path = p
    BY <2>2, PlanCovers
  <2> QED
    BY <2>2, <2>3, PlanDecides
<1> QED
  BY <1>6, <1>7, <1>8

(***************************************************************************)
(* A job that has just planned either holds what it will vouch for, or has *)
(* the operation that fetches it among the ones to apply.                  *)
(***************************************************************************)
LEMMA PlanningHeld ==
    ASSUME TypeInv, AllHeld, NEW d \in Device, NEW U \in SUBSET Path,
           NEW phase \in {"pull", "push"}, NEW full, NEW todo,
           phase = "pull" => OpsOf(PlanFor(d, U), PullKinds) \subseteq todo
    PROVE  HeldJob(Held(d), profile[d], Planning(d, U, phase, full, todo))
<1> DEFINE j == Planning(d, U, phase, full, todo)
<1>1. /\ j.planned = Planned(d) /\ j.phase = phase /\ j.held = U /\ j.todo = todo
      /\ j.remote = Top(store)
  BY DEF Planning
<1>2. HeldFiles(Held(d), Planned(d))
  BY PlannedHeld DEF AllHeld, HeldBy, Held
<1>3. ASSUME phase = "pull", NEW p \in profile[d] \ U
      PROVE  \/ FilesOf(Top(store))[p] \in Held(d)
             \/ \E op \in todo : op.path = p /\ op.kind \in {"download", "conflict"}
  BY <1>3, UnfetchedHeld DEF OpsOf, PullKinds
<1> HIDE DEF j
<1>4. HeldJob(Held(d), profile[d], j)
  BY <1>1, <1>2, <1>3 DEF HeldJob
<1> QED
  BY <1>4 DEF j

(***************************************************************************)
(* A pull's step takes one operation off the list: by then its content is  *)
(* here, or its path sits out, or it was none that fetches.                *)
(***************************************************************************)
LEMMA HeldDone ==
    ASSUME NEW held, NEW more, held \subseteq more, NEW carried, NEW j \in Job,
           HeldJob(held, carried, j), j.phase = "pull", NEW op \in j.todo, NEW sits,
           \/ op.path \in sits
           \/ op.kind \notin {"download", "conflict"}
           \/ FilesOf(j.remote)[op.path] \in more
    PROVE  HeldJob(more, carried,
                   [j EXCEPT !.todo = @ \ {op}, !.held = @ \cup sits])
<1> DEFINE k == [j EXCEPT !.todo = @ \ {op}, !.held = @ \cup sits]
<1>1. /\ k.planned = j.planned /\ k.phase = "pull" /\ k.remote = j.remote
      /\ k.todo = j.todo \ {op} /\ k.held = j.held \cup sits
  BY DEF Job
<1>2. HeldFiles(more, k.planned)
  BY <1>1 DEF HeldJob, HeldFiles
<1> HIDE DEF k
<1>3. ASSUME NEW p \in carried \ k.held
      PROVE  \/ FilesOf(k.remote)[p] \in more
             \/ \E o \in k.todo : o.path = p /\ o.kind \in {"download", "conflict"}
  <2>1. p \in carried \ j.held
    BY <1>1
  <2>2. \/ FilesOf(j.remote)[p] \in held
        \/ \E o \in j.todo : o.path = p /\ o.kind \in {"download", "conflict"}
    BY <2>1 DEF HeldJob
  <2>3. CASE FilesOf(j.remote)[p] \in held
    BY <1>1, <2>3
  <2>4. ASSUME NEW o \in j.todo, o.path = p, o.kind \in {"download", "conflict"}
        PROVE  \/ FilesOf(k.remote)[p] \in more
               \/ o \in k.todo
    BY <1>1, <1>3, <2>4
  <2> QED
    BY <2>2, <2>3, <2>4
<1>4. HeldJob(more, carried, k)
  BY <1>1, <1>2, <1>3 DEF HeldJob
<1> QED
  BY <1>4 DEF k

\* The operations of a pull fetch before their path counts as held.
LEMMA HeldApply ==
    ASSUME TypeInv, AllHeld, NEW d \in Device,
           ApplyDownload(d) \/ ApplyDeleteLocal(d) \/ ApplyConflict(d)
    PROVE  AllHeld'
<1> DEFINE more == seen'[d] \cup {Absent}
           j == job[d]
<1>1. /\ vault \in [Device -> [Path -> Side]] /\ seen \in [Device -> SUBSET Hash]
      /\ profile \in [Device -> SUBSET Path] /\ job \in [Device -> Job]
      /\ j \in Job /\ j.held \cup {} = j.held
      /\ HeldBy(Held(d), vault[d], base[d], saved[d], profile[d], j)
  BY DEF TypeInv, TypeOK, AllHeld
<1>2. j.phase = "pull" /\ j.remote \in Manifest /\ FilesOf(j.remote) = j.remote.files
  BY NoManifestAssumption DEF ApplyDownload, ApplyDeleteLocal, ApplyConflict, NextPullOp,
     TypeInv, Fits, FilesOf, OnTopOf
<1>3. UNCHANGED <<profile, state>>
  BY DEF ApplyDownload, ApplyDeleteLocal, ApplyConflict
<1>4. ASSUME NEW h, NEW p \in Path, WriteFile(d, p, h) \/ WriteCopy(d, h)
      PROVE  /\ Held(d) \subseteq more /\ h \in more
             /\ \A q \in Path : vault'[d][q] \in more
  <2>1. seen'[d] = seen[d] \cup {h}
    BY <1>1, <1>4 DEF WriteFile, WriteCopy
  <2>2. \A q \in Path : vault'[d][q] \in {h, vault[d][q]}
    BY <1>1, <1>4, AtType DEF WriteFile, WriteCopy
  <2> QED
    BY <1>1, <2>1, <2>2 DEF Held, HeldBy
<1>5. PICK op \in j.todo :
        /\ job' = Done(d, op) \/ job' = DoneHeld(d, op)
        /\ Held(d) \subseteq more
        /\ \A q \in Path : vault'[d][q] \in more
        /\ \/ job' = DoneHeld(d, op)
           \/ op.kind \notin {"download", "conflict"}
           \/ FilesOf(j.remote)[op.path] \in more
  <2>1. CASE ApplyDownload(d)
    <3>1. PICK op \in j.todo :
            \/ /\ \/ WriteFile(d, op.path, j.remote.files[op.path])
                  \/ WriteCopy(d, j.remote.files[op.path])
               /\ job' = Done(d, op)
            \/ job' = DoneHeld(d, op) /\ UNCHANGED <<files, seen>>
      BY <2>1 DEF ApplyDownload
    <3>2. op.path \in Path
      BY <1>1 DEF Job, Op
    <3>3. CASE \/ WriteFile(d, op.path, j.remote.files[op.path])
               \/ WriteCopy(d, j.remote.files[op.path])
      BY <1>2, <1>4, <3>1, <3>2, <3>3
    <3>4. CASE job' = DoneHeld(d, op) /\ UNCHANGED <<files, seen>>
      BY <1>1, <3>4 DEF Held, HeldBy, files
    <3> QED
      BY <3>1, <3>3, <3>4
  <2>2. CASE ApplyConflict(d)
    <3>1. PICK op \in j.todo :
            /\ job' = Done(d, op)
            /\ \/ WriteFile(d, op.path, j.remote.files[op.path])
               \/ WriteCopy(d, j.remote.files[op.path])
               \/ j.remote.files[op.path] = Absent /\ UNCHANGED <<files, seen>>
      BY <2>2 DEF ApplyConflict
    <3>2. op.path \in Path
      BY <1>1 DEF Job, Op
    <3>3. CASE \/ WriteFile(d, op.path, j.remote.files[op.path])
               \/ WriteCopy(d, j.remote.files[op.path])
      BY <1>2, <1>4, <3>1, <3>2, <3>3
    <3>4. CASE j.remote.files[op.path] = Absent /\ UNCHANGED <<files, seen>>
      BY <1>1, <1>2, <3>1, <3>4 DEF Held, HeldBy, files
    <3> QED
      BY <3>1, <3>3, <3>4
  <2>3. CASE ApplyDeleteLocal(d)
    <3>1. PICK op \in j.todo :
            /\ op.kind = "deleteLocal"
            /\ job' = Done(d, op) \/ job' = DoneHeld(d, op)
            /\ \/ vault' = [vault EXCEPT ![d][At(d, op.path)] = Absent]
               \/ UNCHANGED vault
            /\ UNCHANGED seen
      BY <2>3 DEF ApplyDeleteLocal, ghosts
    <3>2. \A q \in Path : vault'[d][q] \in {Absent, vault[d][q]}
      <4>1. At(d, op.path) \in Path
        BY <1>1, AtType DEF Job, Op
      <4> QED
        BY <1>1, <3>1, <4>1
    <3> QED
      BY <1>1, <3>1, <3>2 DEF Held, HeldBy
  <2> QED
    BY <2>1, <2>2, <2>3
<1>6. HeldJob(more, profile[d], job'[d])
  <2>1. CASE job' = DoneHeld(d, op)
    <3>1. job'[d] = [j EXCEPT !.todo = @ \ {op}, !.held = @ \cup {op.path}]
      BY <1>1, <2>1 DEF DoneHeld
    <3>2. HeldJob(Held(d), profile[d], j)
      BY <1>1 DEF HeldBy
    <3>3. HeldJob(more, profile[d], [j EXCEPT !.todo = @ \ {op}, !.held = @ \cup {op.path}])
      <4>1. op.path \in {op.path} /\ Held(d) \subseteq more /\ op \in j.todo
        BY <1>5
      <4> HIDE DEF more, j
      <4> QED
        BY <1>1, <1>2, <3>2, <4>1, HeldDone
    <3> QED
      BY <3>1, <3>3, Zenon
  <2>2. CASE job' = Done(d, op) /\ job' # DoneHeld(d, op)
    <3>1. job'[d] = [j EXCEPT !.todo = @ \ {op}]
      BY <1>1, <2>2 DEF Done
    <3>2. [j EXCEPT !.todo = @ \ {op}] = [j EXCEPT !.todo = @ \ {op}, !.held = @ \cup {}]
      BY <1>1 DEF Job
    <3>3. HeldJob(Held(d), profile[d], j)
      BY <1>1 DEF HeldBy
    <3>4. op.kind \notin {"download", "conflict"} \/ FilesOf(j.remote)[op.path] \in more
      BY <1>5, <2>2
    <3>5. HeldJob(more, profile[d], [j EXCEPT !.todo = @ \ {op}, !.held = @ \cup {}])
      BY <1>1, <1>2, <1>5, <3>3, <3>4, HeldDone
    <3> QED
      BY <3>1, <3>2, <3>5, Zenon
  <2> QED
    BY <1>5, <2>1, <2>2
<1>7. HeldFiles(more, base[d]) /\ HeldFiles(more, saved[d])
  BY <1>1, <1>5 DEF HeldBy, HeldFiles
<1>8. HeldBy(more, vault'[d], base'[d], saved'[d], profile'[d], job'[d])
  BY <1>3, <1>5, <1>6, <1>7 DEF HeldBy, state
<1> QED
  BY <1>8, HeldStep, PullAlone DEF Pull

(***************************************************************************)
(* A step that replaces a device's base and leaves its files alone: the    *)
(* new base, saved or not, has to be of contents it held.                  *)
(***************************************************************************)
LEMMA HeldBaseStep ==
    ASSUME TypeInv, AllHeld, NEW d \in Device, OthersStand(d), NEW b,
           HeldFiles(Held(d), b), base' = [base EXCEPT ![d] = b],
           saved' = [saved EXCEPT ![d] = b] \/ UNCHANGED saved,
           UNCHANGED <<vault, profile, seen>>,
           HeldJob(Held(d), profile[d], job'[d])
    PROVE  AllHeld'
<1>1. HeldBy(Held(d), vault[d], base[d], saved[d], profile[d], job[d])
  BY DEF AllHeld
<1>2. base'[d] = b /\ saved'[d] \in {b, saved[d]}
  BY DEF TypeInv, TypeOK
<1>3. HeldBy(Held(d), vault[d], base'[d], saved'[d], profile[d], job'[d])
  BY <1>1, <1>2 DEF HeldBy
<1>4. HeldBy(seen'[d] \cup {Absent}, vault'[d], base'[d], saved'[d], profile'[d], job'[d])
  BY <1>3 DEF Held
<1> QED
  BY <1>4, HeldStep

\* A pull that ends vouches for what it fetched, held out or had already.
LEMMA HeldFinishPull ==
    ASSUME TypeInv, AllHeld, NEW d \in Device, FinishPull(d)
    PROVE  AllHeld'
<1> DEFINE j == job[d]
           new == [p \in Path |-> IF p \notin profile[d] THEN Absent
                                  ELSE IF p \in j.held THEN FilesOf(j.planned)[p]
                                  ELSE j.remote.files[p]]
           b == AdoptPulled(j.remote, j.planned, j.held, profile[d])
           push == [j EXCEPT !.phase = "push", !.planned = b]
<1>1. /\ j \in Job /\ j.phase = "pull" /\ j.remote \in Manifest
      /\ HeldJob(Held(d), profile[d], j) /\ Absent \in Held(d)
      /\ \A op \in j.todo : op.kind \notin PullKinds
  BY DEF FinishPull, PullApplied, OpsOf, TypeInv, TypeOK, Fits, AllHeld, HeldBy, Held
<1>2. j.planned \in MaybeManifest /\ FilesOf(j.remote) = j.remote.files
  BY <1>1, NoManifestAssumption DEF Job, FilesOf, OnTopOf
<1>3. FilesOf(b) = new
  <2>1. new \in [Path -> Hash \cup {Absent}]
    BY <1>1, <1>2, OnTopOfType DEF FilesOf, Manifest
  <2>2. b = [j.remote EXCEPT !.files = new]
    BY DEF AdoptPulled
  <2> HIDE DEF new, b
  <2> QED
    BY <1>1, <2>1, <2>2, ReplacedFiles
<1>4. HeldFiles(Held(d), b)
  <2>1. ASSUME NEW p \in Path
        PROVE  new[p] \in Held(d)
    <3>1. CASE p \notin profile[d]
      BY <1>1, <3>1
    <3>2. CASE p \in profile[d] /\ p \in j.held
      BY <1>1, <3>2 DEF HeldJob, HeldFiles
    <3>3. CASE p \in profile[d] /\ p \notin j.held
      <4>1. FilesOf(j.remote)[p] \in Held(d)
        BY <1>1, <3>3 DEF HeldJob, PullKinds
      <4> QED
        BY <1>2, <3>3, <4>1
    <3> QED
      BY <3>1, <3>2, <3>3
  <2> HIDE DEF new, b
  <2> QED
    BY <1>3, <2>1 DEF HeldFiles
<1>5. /\ base' = [base EXCEPT ![d] = b]
      /\ saved' = [saved EXCEPT ![d] = b] \/ UNCHANGED saved
      /\ job'[d] \in {push, IdleJob}
      /\ UNCHANGED <<files, profile, seen>>
  BY DEF FinishPull, Adopt, ghosts, TypeInv, TypeOK
<1>6. push.planned = b /\ push.phase = "push"
  BY <1>1 DEF Job
<1> HIDE DEF b, push
<1>7. HeldJob(Held(d), profile[d], job'[d])
  BY <1>1, <1>4, <1>5, <1>6, NothingHeld DEF HeldJob
<1> QED
  BY <1>4, <1>5, <1>7, HeldBaseStep, PullAlone DEF Pull, files

\* A push publishes, of what it changed, what it read of the vault.
LEMMA HeldPushFiles ==
    ASSUME TypeInv, AllHeld, NEW d \in Device, PushFiles(d)
    PROVE  AllHeld'
<1> DEFINE uploads(L) == {o.path : o \in OpsOf(job[d].todo, {"upload"})} \ L
           uploaded(L) == [p \in Path |-> IF p \in uploads(L) THEN FileAt(d, p) ELSE Absent]
           tombstoned == {o.path : o \in OpsOf(job[d].todo, {"deleteRemote"})}
           changed(L) == {p \in Path : uploaded(L)[p] # Absent} \cup tombstoned
           body(L) == BuildNext(job[d].remote, GenOf(job[d].remote) + 1, d,
                                uploaded(L), tombstoned, Keep[d], now, Grace)
           next(L) == Stamped(body(L), job[d].remote)
           j(L) == [job[d] EXCEPT !.phase = "ready", !.todo = {},
                      !.next = next(L), !.changed = changed(L)]
<1>1. /\ job \in [Device -> Job] /\ job[d] \in Job
      /\ \A p \in Path : vault[d][p] \in Held(d)
      /\ HeldJob(Held(d), profile[d], job[d]) /\ Absent \in Held(d)
  BY DEF TypeInv, TypeOK, AllHeld, HeldBy, Held
<1>2. PICK locked : job' = [job EXCEPT ![d] = IF changed(locked) = {} THEN IdleJob
                                              ELSE j(locked)]
  BY Zenon DEF PushFiles
<1>3. \A p \in Path : uploaded(locked)[p] \in Held(d)
  BY <1>1, AtType DEF FileAt
<1>4. \A p \in Path : next(locked).files[p] = IF p \in tombstoned THEN Absent
                                  ELSE IF uploaded(locked)[p] # Absent
                                       THEN uploaded(locked)[p]
                                       ELSE OnTopOf(job[d].remote).files[p]
  <2> HIDE DEF uploaded, tombstoned
  <2> QED
    BY DEF BuildNext, Stamped
<1>5. /\ j(locked).next = next(locked) /\ j(locked).changed = changed(locked)
      /\ j(locked).phase = "ready" /\ j(locked).planned = job[d].planned
  BY <1>1 DEF Job
<1>6. \A p \in changed(locked) : p \in Path /\ (p \in tombstoned \/ uploaded(locked)[p] # Absent)
  BY <1>1 DEF Job, Op, OpsOf
<1> HIDE DEF uploads, uploaded, tombstoned, changed, next, j
<1>7. \A p \in changed(locked) : next(locked).files[p] \in Held(d)
  BY <1>1, <1>3, <1>4, <1>6
<1>8. HeldJob(Held(d), profile[d], j(locked))
  BY <1>1, <1>5, <1>7 DEF HeldJob
<1>9. HeldJob(Held(d), profile[d], job'[d])
  <2>1. job'[d] = IdleJob \/ job'[d] = j(locked)
    BY <1>1, <1>2
  <2> QED
    BY <1>1, <1>8, <2>1, NothingHeld
<1> QED
  BY <1>9, HeldJobStep, EngineAlone DEF PushFiles, Engine, PushSteps, files, state, ghosts

\* The put decides nothing; the re-LIST adopts what the push changed.
LEMMA HeldPublished ==
    ASSUME TypeInv, AllHeld, NEW d \in Device, Publish(d) \/ Relist(d)
    PROVE  AllHeld'
<1> DEFINE j == job[d]
<1>1. /\ job \in [Device -> Job] /\ j \in Job /\ Absent \in Held(d)
      /\ HeldJob(Held(d), profile[d], j) /\ OthersStand(d)
  BY EngineAlone DEF TypeInv, TypeOK, AllHeld, HeldBy, Held, Engine, PushSteps
<1>2. CASE Publish(d)
  <2>1. job'[d] \in {IdleJob, [j EXCEPT !.phase = "published"]}
    BY <1>1, <1>2 DEF Publish
  <2>2. HeldJob(Held(d), profile[d], [j EXCEPT !.phase = "published"])
    BY <1>1, <1>2 DEF HeldJob, Job, Publish
  <2>3. HeldJob(Held(d), profile[d], job'[d])
    BY <1>1, <2>1, <2>2, NothingHeld
  <2> QED
    BY <1>1, <1>2, <2>3, HeldJobStep DEF Publish, files, state, ghosts
<1>3. CASE Relist(d)
  <2> DEFINE new == [p \in Path |-> IF p \notin j.changed THEN FilesOf(j.planned)[p]
                                    ELSE IF p \in profile[d] THEN j.next.files[p]
                                    ELSE Absent]
             b == AdoptPublished(j.next, j.planned, j.changed, profile[d])
  <2>1. j.phase = "published" /\ j.next \in Manifest /\ j.planned \in MaybeManifest
    BY <1>1, <1>3 DEF Relist, TypeInv, Fits, Job
  <2>2. FilesOf(b) = new
    <3>1. new \in [Path -> Hash \cup {Absent}]
      BY <1>1, <2>1, OnTopOfType DEF FilesOf, Manifest
    <3>2. b = [j.next EXCEPT !.files = new]
      BY DEF AdoptPublished
    <3> HIDE DEF new, b
    <3> QED
      BY <2>1, <3>1, <3>2, ReplacedFiles
  <2>3. \A p \in Path : new[p] \in Held(d)
    BY <1>1, <2>1 DEF HeldJob, HeldFiles
  <2> HIDE DEF new, b
  <2>4. HeldFiles(Held(d), b)
    BY <2>2, <2>3 DEF HeldFiles
  <2>5. HeldJob(Held(d), profile[d], job'[d])
    <3>1. job'[d] = IdleJob
      BY <1>1, <1>3 DEF Relist
    <3> QED
      BY <1>1, <3>1, NothingHeld
  <2>6. \/ /\ base' = [base EXCEPT ![d] = b]
           /\ saved' = [saved EXCEPT ![d] = b] \/ UNCHANGED saved
        \/ UNCHANGED <<base, saved>>
    BY <1>3 DEF Relist, Adopt, state, b
  <2>7. UNCHANGED <<vault, profile, seen>>
    BY <1>3 DEF Relist, files, ghosts
  <2> QED
    BY <1>1, <2>4, <2>5, <2>6, <2>7, HeldBaseStep, HeldJobStep
<1> QED
  BY <1>2, <1>3

\* The jobs that begin, all of them with a fresh plan or a body to publish.
LEMMA HeldBegin ==
    ASSUME TypeInv, AllHeld, NEW d \in Device,
           \/ PullBegin(d) \/ PushBegin(d) \/ ConfirmBegin(d)
           \/ ForgetBegin(d) \/ ReleaseBegin(d)
    PROVE  AllHeld'
<1>1. job \in [Device -> Job] /\ Absent \in Held(d) /\ OthersStand(d)
  BY EngineAlone DEF TypeInv, TypeOK, Held, Engine, Pull
<1>2. UNCHANGED <<vault, base, saved, profile, seen>>
  BY DEF PullBegin, PushBegin, ConfirmBegin, ForgetBegin, ReleaseBegin, files, state, ghosts
<1>3. HeldFiles(Held(d), Planned(d))
  BY PlannedHeld, <1>1 DEF AllHeld, HeldBy
<1>4. CASE PullBegin(d) \/ PushBegin(d) \/ ConfirmBegin(d)
  <2>0. PICK U \in Unreadable(d), phase \in {"pull", "push"} : \E full, todo :
          /\ job' = [job EXCEPT ![d] = Planning(d, U, phase, full, todo)]
          /\ phase = "pull" => OpsOf(PlanFor(d, U), PullKinds) \subseteq todo
    <3>1. CASE PullBegin(d)
      BY <3>1 DEF PullBegin
    <3>2. CASE PushBegin(d)
      BY <3>2 DEF PushBegin
    <3>3. CASE ConfirmBegin(d)
      <4>1. PICK U \in Unreadable(d) :
              job' = [job EXCEPT ![d] =
                        Planning(d, U, IF store = {} THEN "push" ELSE "pull", TRUE,
                                 IF store = {} THEN OpsOf(PlanFor(d, U), PushKinds)
                                               ELSE PlanFor(d, U))]
        BY <3>3 DEF ConfirmBegin
      <4>2. CASE store = {}
        BY <4>1, <4>2
      <4>3. CASE store # {}
        BY <4>1, <4>3 DEF OpsOf
      <4> QED
        BY <4>2, <4>3
    <3> QED
      BY <1>4, <3>1, <3>2, <3>3
  <2>1. PICK full, todo :
          /\ job' = [job EXCEPT ![d] = Planning(d, U, phase, full, todo)]
          /\ phase = "pull" => OpsOf(PlanFor(d, U), PullKinds) \subseteq todo
    BY <2>0
  <2>2. U \in SUBSET Path
    BY UnreadableType
  <2>3. HeldJob(Held(d), profile[d], Planning(d, U, phase, full, todo))
    BY <2>1, <2>2, PlanningHeld
  <2>4. job'[d] = Planning(d, U, phase, full, todo)
    BY <1>1, <2>1
  <2> QED
    BY <1>1, <1>2, <2>3, <2>4, HeldJobStep
<1>5. CASE ForgetBegin(d) \/ ReleaseBegin(d)
  <2>1. PICK body, changed :
          /\ job' = [job EXCEPT ![d] = Publishing(d, body, changed)]
          /\ \A p \in changed : body.files[p] = Absent
    <3>1. CASE ForgetBegin(d)
      <4>1. PICK gone \in (SUBSET {p \in Path : Top(store).files[p] # Absent}) :
              job' = [job EXCEPT ![d] =
                   Publishing(d, ForgetNext(Top(store), GenOf(Top(store)) + 1, d, gone), gone)]
        BY <3>1 DEF ForgetBegin
      <4> DEFINE body == ForgetNext(Top(store), GenOf(Top(store)) + 1, d, gone)
      <4>2. \A p \in gone : body.files[p] = Absent
        BY DEF ForgetNext
      <4>3. job' = [job EXCEPT ![d] = Publishing(d, body, gone)]
        BY <4>1, Zenon
      <4> HIDE DEF body
      <4> QED
        BY <4>2, <4>3, Zenon
    <3>2. CASE ReleaseBegin(d)
      <4> DEFINE body == ReleaseNext(Top(store), GenOf(Top(store)) + 1, d)
             gone == {}
      <4>1. job' = [job EXCEPT ![d] = Publishing(d, body, gone)]
        BY <3>2, Zenon DEF ReleaseBegin
      <4>2. \A p \in gone : body.files[p] = Absent
        OBVIOUS
      <4> HIDE DEF body, gone
      <4> QED
        BY <4>1, <4>2, Zenon
    <3> QED
      BY <1>5, <3>1, <3>2
  <2>2. HeldJob(Held(d), profile[d], Publishing(d, body, changed))
    BY <1>1, <1>3, <2>1 DEF HeldJob, Publishing, Stamped
  <2>3. job'[d] = Publishing(d, body, changed)
    BY <1>1, <2>1
  <2> QED
    BY <1>1, <1>2, <2>2, <2>3, HeldJobStep
<1> QED
  BY <1>4, <1>5

\* No operation of the engine vouches for what its device never held.
LEMMA HeldEngine ==
    ASSUME TypeInv, AllHeld, NEW d \in Device, Engine(d) \/ Abandon(d) \/ Crash(d)
    PROVE  AllHeld'
<1>1. /\ OthersStand(d) /\ Absent \in Held(d) /\ job \in [Device -> Job]
      /\ base \in [Device -> MaybeManifest] /\ saved \in [Device -> MaybeManifest]
      /\ HeldBy(Held(d), vault[d], base[d], saved[d], profile[d], job[d])
  BY EngineAlone DEF TypeInv, TypeOK, Held, AllHeld
<1>2. CASE Preview(d) \/ Dismiss(d)
  BY <1>1, <1>2, HeldJobStep DEF Preview, Dismiss, files, state, ghosts, HeldBy
<1>3. CASE ForgetBase(d) \/ AcceptRolledBack(d)
  <2>1. /\ base' = [base EXCEPT ![d] = NoManifest] /\ saved' = [saved EXCEPT ![d] = NoManifest]
        /\ UNCHANGED <<vault, profile, seen, job>>
    BY <1>3 DEF ForgetBase, AcceptRolledBack, DropBase, files, ghosts
  <2> QED
    BY <1>1, <2>1, NothingHeld, HeldBaseStep DEF HeldBy
<1>4. CASE Abandon(d)
  <2>1. job'[d] = IdleJob /\ UNCHANGED <<vault, base, saved, profile, seen>>
    BY <1>1, <1>4 DEF Abandon, files, state, ghosts
  <2> QED
    BY <1>1, <2>1, NothingHeld, HeldJobStep
<1>5. CASE Crash(d)
  <2> DEFINE m == saved[d]
             new == [p \in Path |-> IF p \in profile[d] THEN m.files[p] ELSE Absent]
             b == Loaded(m, profile[d])
  <2>1. HeldFiles(Held(d), b)
    <3>1. CASE m = NoManifest \/ ~Parses(m)
      BY <1>1, <3>1, NothingHeld DEF Loaded
    <3>2. CASE m # NoManifest /\ Parses(m)
      <4>1. /\ m \in Manifest /\ FilesOf(m) = m.files /\ HeldFiles(Held(d), m)
            /\ m.files \in [Path -> Hash \cup {Absent}]
        BY <1>1, <3>2 DEF MaybeManifest, Manifest, FilesOf, OnTopOf, HeldBy
      <4>2. new \in [Path -> Hash \cup {Absent}] /\ \A p \in Path : new[p] \in Held(d)
        BY <1>1, <4>1 DEF HeldFiles
      <4>3. b = [m EXCEPT !.files = new]
        BY <3>2 DEF Loaded
      <4> HIDE DEF new, b, m
      <4> QED
        BY <4>1, <4>2, <4>3, ReplacedFiles DEF HeldFiles
    <3> QED
      BY <3>1, <3>2
  <2>2. /\ base' = [base EXCEPT ![d] = b] /\ job'[d] = IdleJob
        /\ UNCHANGED <<saved, vault, profile, seen>>
    BY <1>1, <1>5 DEF Crash, files, ghosts
  <2> HIDE DEF b
  <2> QED
    BY <1>1, <2>1, <2>2, NothingHeld, HeldBaseStep
<1> QED
  BY <1>2, <1>3, <1>4, <1>5, HeldBegin, HeldApply, HeldFinishPull, HeldPushFiles,
     HeldPublished DEF Engine, Pull, PushSteps

\* Every step keeps what every device vouches for among what it held.
LEMMA HeldNext == TypeInv /\ AllHeld /\ [Next]_vars => AllHeld'
<1> SUFFICES ASSUME TypeInv, AllHeld, [Next]_vars
             PROVE  AllHeld'
  OBVIOUS
<1>1. CASE UNCHANGED vars
  BY <1>1 DEF vars, AllHeld, Held
<1>2. CASE Tick \/ StorageRollback
  BY <1>2 DEF Tick, StorageRollback, AllHeld, Held, files, state, ghosts
<1> QED
  BY <1>1, <1>2, HeldUser, HeldEngine DEF Next

\* A device that holds nothing vouches for nothing.
LEMMA HeldInit == Init => AllHeld
<1> SUFFICES ASSUME Init, NEW d \in Device
             PROVE  HeldBy(Held(d), vault[d], base[d], saved[d], profile[d], job[d])
  BY DEF AllHeld
<1>1. /\ Absent \in Held(d) /\ \A p \in Path : vault[d][p] = Absent
      /\ base[d] = NoManifest /\ saved[d] = NoManifest /\ job[d] = IdleJob
  BY DEF Init, Held
<1> QED
  BY <1>1, NothingHeld DEF HeldBy

(***************************************************************************)
(* The base never claims a file this device did not have: neither one it   *)
(* skipped, could not read or was interrupted before, nor one another      *)
(* device published or that its profile leaves out.  What classify takes   *)
(* for a deletion here is a file that was here (engine.ts: doPull,         *)
(* applyPullOps, adoptBase, publishManifest; state.ts: loadStateOnce).     *)
(***************************************************************************)
THEOREM BaseVouchesOnlyForHeld == Spec => []BaseWasHeld
<1>1. AllHeld => BaseWasHeld
  BY DEF AllHeld, HeldBy, HeldFiles, Held, BaseWasHeld
<1>2. Spec => []TypeInv
  BY TypeInvariant
<1> QED
  BY <1>1, <1>2, HeldInit, HeldNext, PTL DEF Spec

---------------------------------------------------------------------------
(* What the breaker counts.                                                *)

\* A finite set has a finite image.
LEMMA FiniteImage ==
    ASSUME NEW S, IsFiniteSet(S), NEW f
    PROVE  IsFiniteSet({f[x] : x \in S})
<1> DEFINE T == {f[x] : x \in S}
           g == [x \in S |-> f[x]]
<1>1. g \in Surjection(S, T)
  BY DEF Surjection
<1> QED
  BY <1>1, FS_Surjection

\* A finite set with something in it counts one or more.
LEMMA SomethingCounts ==
    ASSUME NEW S, IsFiniteSet(S)
    PROVE  /\ Cardinality(S) \in Nat
           /\ S # {} => Cardinality(S) >= 1
<1>1. Cardinality(S) \in Nat
  BY FS_CardinalityType
<1>2. Cardinality(S) = 0 <=> S = {}
  BY FS_EmptySet
<1> QED
  BY <1>1, <1>2

(***************************************************************************)
(* peakBurst of some deletions is one or more: a deletion is inside its    *)
(* own window, whatever the window is.                                     *)
(***************************************************************************)
LEMMA BurstOfSome ==
    ASSUME NEW D, IsFiniteSet(D), NEW window \in Nat, \A e \in D : e.tomb.at \in Nat
    PROVE  /\ PeakBurst(D, window) \in Nat
           /\ D # {} => PeakBurst(D, window) >= 1
<1> DEFINE burst(x) == {e \in D : /\ e.tomb.dev = x.tomb.dev
                                  /\ e.tomb.at <= x.tomb.at
                                  /\ x.tomb.at - e.tomb.at <= window}
           counts == {0} \cup {Cardinality(burst(x)) : x \in D}
<1>1. ASSUME NEW x \in D
      PROVE  /\ Cardinality(burst(x)) \in Nat /\ Cardinality(burst(x)) >= 1
             /\ Cardinality(burst(x)) <= Cardinality(D)
  <2>1. burst(x) \in SUBSET D /\ x \in burst(x)
    OBVIOUS
  <2> HIDE DEF burst
  <2>2. IsFiniteSet(burst(x)) /\ Cardinality(burst(x)) <= Cardinality(D)
    BY <2>1, FS_Subset
  <2> QED
    BY <2>1, <2>2, SomethingCounts
<1>2. Cardinality(D) \in Nat
  BY SomethingCounts
<1> HIDE DEF burst
<1>3. counts \in SUBSET Nat /\ counts # {} /\ \A n \in counts : n <= Cardinality(D)
  BY <1>1, <1>2
<1>4. \E n \in counts : \A k \in counts : k <= n
  BY <1>2, <1>3, GreatestNatural
<1>5. Max(counts) \in counts /\ \A k \in counts : Max(counts) >= k
  <2>1. \E n \in counts : \A k \in counts : n >= k
    BY <1>3, <1>4
  <2> HIDE DEF counts
  <2> QED
    BY <2>1 DEF Max
<1>6. PeakBurst(D, window) = Max(counts)
  BY DEF PeakBurst, burst
<1>7. ASSUME D # {}
      PROVE  Max(counts) >= 1
  <2>1. PICK x \in D : TRUE
    BY <1>7
  <2>2. Max(counts) >= Cardinality(burst(x))
    BY <1>5, <2>1
  <2> QED
    BY <1>1, <1>3, <1>5, <2>2
<1> QED
  BY <1>3, <1>5, <1>6, <1>7

(***************************************************************************)
(* Pacing makes a bulk change count for less, and never for nothing: a     *)
(* plan that destroys anything has something to count.                     *)
(***************************************************************************)
LEMMA DestructionCounts ==
    ASSUME NEW ops, IsFiniteSet(ops), NEW remote, NEW window \in Nat,
           \A o \in ops : o.kind = "deleteLocal" /\ remote.tombs[o.path] # Absent
                            => remote.tombs[o.path].at \in Nat
    PROVE  /\ Effective(ops, remote, window) \in Nat
           /\ (\E o \in ops : Destructive(o)) => Effective(ops, remote, window) >= 1
<1> DEFINE destructive == {o \in ops : Destructive(o)}
           paced == {o \in destructive : /\ o.kind = "deleteLocal"
                                         /\ remote.tombs[o.path] # Absent}
           entry(o) == [path |-> o.path, tomb |-> remote.tombs[o.path]]
           tombs == {entry(o) : o \in paced}
<1>1. IsFiniteSet(destructive \ paced) /\ IsFiniteSet(paced)
  BY FS_Subset
<1>2. IsFiniteSet(tombs)
  <2> DEFINE f == [o \in paced |-> entry(o)]
  <2>1. tombs = {f[o] : o \in paced}
    OBVIOUS
  <2> HIDE DEF f, tombs, paced
  <2> QED
    BY <1>1, <2>1, FiniteImage
<1>3. \A e \in tombs : e.tomb.at \in Nat
  OBVIOUS
<1>4. Effective(ops, remote, window)
        = Cardinality(destructive \ paced) + PeakBurst(tombs, window)
  BY DEF Effective
<1>5. (\E o \in ops : Destructive(o)) => destructive \ paced # {} \/ tombs # {}
  OBVIOUS
<1> HIDE DEF destructive, paced, tombs
<1>6. /\ Cardinality(destructive \ paced) \in Nat
      /\ destructive \ paced # {} => Cardinality(destructive \ paced) >= 1
  BY <1>1, SomethingCounts
<1>7. /\ PeakBurst(tombs, window) \in Nat
      /\ tombs # {} => PeakBurst(tombs, window) >= 1
  BY <1>2, <1>3, BurstOfSome
<1> QED
  BY <1>4, <1>5, <1>6, <1>7

\* A plan has at most one operation for each path of a finite vault.
LEMMA PlanFinite ==
    ASSUME NEW d, NEW U
    PROVE  IsFiniteSet(PlanFor(d, U))
<1> DEFINE f == [p \in Path |-> Operation(Scan(d, U), Planned(d), Top(store), p)]
           all == {f[p] : p \in Path}
<1>1. IsFiniteSet(all)
  <2> HIDE DEF f
  <2> QED
    BY ParameterAssumption, FiniteImage
<1>2. PlanFor(d, U) \in SUBSET all
  BY DEF PlanFor, PlanOps, Operations
<1> HIDE DEF all
<1> QED
  BY <1>1, <1>2, FS_Subset

(***************************************************************************)
(* A breaker set to ask about everything lets no plan through that would   *)
(* destroy anything.                                                       *)
(***************************************************************************)
LEMMA BreakerAsks ==
    ASSUME TypeInv, NEW d \in Device, NEW U \in SUBSET Path, AsksAboutEverything,
           ~Stops(d, U)
    PROVE  \A op \in PlanFor(d, U) : ~Destructive(op)
<1> DEFINE ops == PlanFor(d, U)
           remote == Top(store)
           n == Effective(ops, remote, Tuning.window)
<1>1. IsFiniteSet(ops) /\ Tuning.window \in Nat
  BY PlanFinite, WindowAssumption
<1>2. ASSUME NEW o \in ops, o.kind = "deleteLocal", remote.tombs[o.path] # Absent
      PROVE  remote.tombs[o.path].at \in Nat
  <2>1. o.path \in Path /\ Decision(d, U, o.path) = "deleteLocal"
    BY <1>2, PlanDecides
  <2>2. SideOf(remote, o.path) # Absent
    BY <2>1 DEF Decision, ThreeWay
  <2>3. remote \in Manifest
    BY <2>2, TopType DEF SideOf, MaybeManifest
  <2> QED
    BY <1>2, <2>1, <2>3 DEF Manifest, Tombstone
<1>3. ~(n > Tuning.floor /\ n >= Tuning.maxFiles)
  BY DEF Stops, RequiresConfirmation, Fires
<1> HIDE DEF ops, remote
<1>4. ~\E o \in ops : Destructive(o)
  <2>1. n \in Nat /\ ((\E o \in ops : Destructive(o)) => n >= 1)
    BY <1>1, <1>2, DestructionCounts
  <2> HIDE DEF n
  <2> QED
    BY <1>3, <2>1 DEF AsksAboutEverything
<1> QED
  BY <1>4 DEF ops

---------------------------------------------------------------------------
(* Nothing is destroyed unseen.                                            *)

(***************************************************************************)
(* What a job still has to destroy here, and the deletions it is about to  *)
(* publish, were decided when it began: they stay among what was shown,    *)
(* because nothing is shown and no dialog is closed while a job runs.      *)
(***************************************************************************)
JobShown(keys, j) ==
    /\ j.phase \in {"pull", "push"} => DestructiveKeys(j.todo) \subseteq keys
    /\ j.phase = "ready" =>
         \A p \in Path : FilesOf(j.remote)[p] # Absent /\ j.next.tombs[p] # Absent
                           => <<"deleteRemote", p>> \in keys

AllShown == \A d \in Device : JobShown(shown[d], job[d])

\* No device's filesystem confuses two paths.
PathsTold == \A d \in CaseBlind, p, q \in Path : Fold[p] = Fold[q] => p = q

\* A path that is not confused with another resolves to itself.
LEMMA AtItself ==
    ASSUME PathsTold, NEW d \in Device, NEW p \in Path
    PROVE  At(d, p) = p
<1>1. CASE d \in CaseBlind /\ \E q \in Path : Fold[q] = Fold[p] /\ vault[d][q] # Absent
  <2> DEFINE found == CHOOSE q \in Path : Fold[q] = Fold[p] /\ vault[d][q] # Absent
  <2>1. found \in Path /\ Fold[found] = Fold[p] /\ At(d, p) = found
    BY <1>1 DEF At
  <2> HIDE DEF found
  <2> QED
    BY <1>1, <2>1 DEF PathsTold
<1>2. CASE ~(d \in CaseBlind /\ \E q \in Path : Fold[q] = Fold[p] /\ vault[d][q] # Absent)
  BY <1>2 DEF At
<1> QED
  BY <1>1, <1>2

\* A device with nothing to do destroys nothing.
LEMMA IdleShown == \A keys : JobShown(keys, IdleJob)
  BY DEF JobShown, IdleJob

\* A step of one device's job, after which it destroys only what was shown.
LEMMA ShownStep ==
    ASSUME TypeInv, AllShown, NEW d \in Device, OthersStand(d), UNCHANGED shown,
           JobShown(shown[d], job'[d])
    PROVE  AllShown'
<1>1. ASSUME NEW e \in Device
      PROVE  JobShown(shown[e], job'[e])
  <2>1. CASE e = d
    BY <2>1
  <2>2. CASE e # d
    <3>1. JobShown(shown[e], job[e]) /\ job'[e] = job[e]
      BY <2>2 DEF AllShown, OthersStand
    <3> QED
      BY <3>1, Zenon
  <2> QED
    BY <2>1, <2>2
<1> QED
  BY <1>1 DEF AllShown

(***************************************************************************)
(* The jobs that begin: either the breaker had nothing to ask, or all the  *)
(* plan destroys was confirmed; what is forgotten or released is neither.  *)
(***************************************************************************)
LEMMA ShownBegin ==
    ASSUME TypeInv, Readable, AsksAboutEverything, AllShown, NEW d \in Device,
           \/ PullBegin(d) \/ PushBegin(d) \/ ConfirmBegin(d)
           \/ ForgetBegin(d) \/ ReleaseBegin(d)
    PROVE  AllShown'
<1>1. job \in [Device -> Job] /\ OthersStand(d)
  BY EngineAlone DEF TypeInv, TypeOK, Engine, Pull
<1>2. UNCHANGED shown
  BY DEF PullBegin, PushBegin, ConfirmBegin, ForgetBegin, ReleaseBegin
<1>3. CASE PullBegin(d) \/ PushBegin(d) \/ ConfirmBegin(d)
  <2>0. PICK U \in Unreadable(d), phase \in {"pull", "push"} : \E full, todo :
          /\ job' = [job EXCEPT ![d] = Planning(d, U, phase, full, todo)]
          /\ todo \subseteq PlanFor(d, U)
          /\ ~Stops(d, U) \/ StillShown(d, U)
    <3>1. CASE PullBegin(d)
      BY <3>1 DEF PullBegin, OpsOf
    <3>2. CASE PushBegin(d)
      BY <3>2 DEF PushBegin, OpsOf
    <3>3. CASE ConfirmBegin(d)
      <4>1. PICK U \in Unreadable(d) :
              /\ job' = [job EXCEPT ![d] =
                        Planning(d, U, IF store = {} THEN "push" ELSE "pull", TRUE,
                                 IF store = {} THEN OpsOf(PlanFor(d, U), PushKinds)
                                               ELSE PlanFor(d, U))]
              /\ StillShown(d, U)
        BY <3>3 DEF ConfirmBegin
      <4>2. CASE store = {}
        BY <4>1, <4>2 DEF OpsOf
      <4>3. CASE store # {}
        BY <4>1, <4>3
      <4> QED
        BY <4>2, <4>3
    <3> QED
      BY <1>3, <3>1, <3>2, <3>3
  <2>1. PICK full, todo :
          /\ job' = [job EXCEPT ![d] = Planning(d, U, phase, full, todo)]
          /\ todo \subseteq PlanFor(d, U)
          /\ ~Stops(d, U) \/ StillShown(d, U)
    BY <2>0
  <2>2. U \in SUBSET Path
    BY UnreadableType
  <2>3. DestructiveKeys(PlanFor(d, U)) \subseteq shown[d]
    <3>1. CASE ~Stops(d, U)
      <4>1. \A op \in PlanFor(d, U) : ~Destructive(op)
        BY <2>2, <3>1, BreakerAsks
      <4> QED
        BY <4>1 DEF DestructiveKeys
    <3>2. CASE StillShown(d, U)
      BY <3>2 DEF StillShown
    <3> QED
      BY <2>1, <3>1, <3>2
  <2>4. DestructiveKeys(todo) \subseteq DestructiveKeys(PlanFor(d, U))
    BY <2>1 DEF DestructiveKeys
  <2>5. JobShown(shown[d], Planning(d, U, phase, full, todo))
    BY <2>1, <2>3, <2>4 DEF JobShown, Planning
  <2>6. job'[d] = Planning(d, U, phase, full, todo)
    BY <1>1, <2>1
  <2> QED
    BY <1>1, <1>2, <2>5, <2>6, ShownStep
<1>4. CASE ForgetBegin(d) \/ ReleaseBegin(d)
  <2>1. Top(store) # NoManifest /\ Parses(Top(store))
    BY <1>4, TopType, TopReadable, NoManifestAssumption DEF ForgetBegin, ReleaseBegin
  <2>2. PICK body, changed :
          /\ job' = [job EXCEPT ![d] = Publishing(d, body, changed)]
          /\ body.tombs = Top(store).tombs
    <3>1. CASE ForgetBegin(d)
      <4>1. PICK gone : job' = [job EXCEPT ![d] =
               Publishing(d, ForgetNext(Top(store), GenOf(Top(store)) + 1, d, gone), gone)]
        BY <3>1 DEF ForgetBegin
      <4> DEFINE body == ForgetNext(Top(store), GenOf(Top(store)) + 1, d, gone)
      <4>2. body.tombs = Top(store).tombs
        BY DEF ForgetNext
      <4>3. job' = [job EXCEPT ![d] = Publishing(d, body, gone)]
        BY <4>1, Zenon
      <4> HIDE DEF body
      <4> QED
        BY <4>2, <4>3, Zenon
    <3>2. CASE ReleaseBegin(d)
      <4> DEFINE body == ReleaseNext(Top(store), GenOf(Top(store)) + 1, d)
      <4>1. job' = [job EXCEPT ![d] = Publishing(d, body, {})]
        BY <3>2, Zenon DEF ReleaseBegin
      <4>2. body.tombs = Top(store).tombs
        BY DEF ReleaseNext
      <4> HIDE DEF body
      <4> QED
        BY <4>1, <4>2, Zenon
    <3> QED
      BY <1>4, <3>1, <3>2
  <2>3. JobShown(shown[d], Publishing(d, body, changed))
    BY <2>1, <2>2 DEF JobShown, Publishing, Stamped, Parses, FilesOf, OnTopOf
  <2>4. job'[d] = Publishing(d, body, changed)
    BY <1>1, <2>2
  <2> QED
    BY <1>1, <1>2, <2>3, <2>4, ShownStep
<1> QED
  BY <1>3, <1>4

\* A pull has fewer operations left after each step, and hands over the rest.
LEMMA ShownPull ==
    ASSUME TypeInv, AllShown, NEW d \in Device,
           ApplyDownload(d) \/ ApplyDeleteLocal(d) \/ ApplyConflict(d) \/ FinishPull(d)
    PROVE  AllShown'
<1>1. job \in [Device -> Job] /\ job[d] \in Job /\ JobShown(shown[d], job[d])
  BY DEF TypeInv, TypeOK, AllShown
<1>2. OthersStand(d) /\ job[d].phase = "pull" /\ UNCHANGED shown
  BY PullAlone DEF Pull, ApplyDownload, ApplyDeleteLocal, ApplyConflict, FinishPull, NextPullOp
<1>3. \/ job'[d] = IdleJob
      \/ job'[d].phase \in {"pull", "push"} /\ job'[d].todo \subseteq job[d].todo
  <2>1. CASE ApplyDownload(d) \/ ApplyDeleteLocal(d) \/ ApplyConflict(d)
    <3>1. PICK op : job' = Done(d, op) \/ job' = DoneHeld(d, op)
      BY <2>1 DEF ApplyDownload, ApplyDeleteLocal, ApplyConflict
    <3>2. job'[d].phase = "pull" /\ job'[d].todo = job[d].todo \ {op}
      BY <1>1, <1>2, <3>1 DEF Done, DoneHeld, Job
    <3> QED
      BY <3>2
  <2>2. CASE FinishPull(d)
    <3>1. PICK b : job'[d] \in {IdleJob, [job[d] EXCEPT !.phase = "push", !.planned = b]}
      BY <1>1, <2>2 DEF FinishPull
    <3> QED
      BY <1>1, <3>1 DEF Job
  <2> QED
    BY <2>1, <2>2
<1>4. JobShown(shown[d], job'[d])
  <2>1. CASE job'[d] = IdleJob
    BY <2>1, IdleShown
  <2>2. CASE job'[d].phase \in {"pull", "push"} /\ job'[d].todo \subseteq job[d].todo
    <3>1. DestructiveKeys(job'[d].todo) \subseteq DestructiveKeys(job[d].todo)
      BY <2>2 DEF DestructiveKeys
    <3> QED
      BY <1>1, <1>2, <2>2, <3>1 DEF JobShown
  <2> QED
    BY <1>3, <2>1, <2>2
<1> QED
  BY <1>2, <1>4, ShownStep

(***************************************************************************)
(* A push publishes a deletion of a file it knew only for an operation of  *)
(* its plan: any other tombstone was in a manifest where it was no file.   *)
(***************************************************************************)
LEMMA ShownPush ==
    ASSUME TypeInv, Readable, AllShown, NEW d \in Device, PushSteps(d)
    PROVE  AllShown'
<1>1. /\ job \in [Device -> Job] /\ job[d] \in Job /\ JobShown(shown[d], job[d])
      /\ OthersStand(d) /\ UNCHANGED shown
      /\ job[d].remote = NoManifest \/ Parses(job[d].remote)
  BY EngineAlone DEF TypeInv, TypeOK, AllShown, Engine, PushSteps, PushFiles, Publish, Relist,
     Readable, JobReadable
<1>2. CASE PushFiles(d)
  <2> DEFINE uploads(L) == {o.path : o \in OpsOf(job[d].todo, {"upload"})} \ L
             uploaded(L) == [p \in Path |-> IF p \in uploads(L)
                                            THEN FileAt(d, p) ELSE Absent]
             tombstoned == {o.path : o \in OpsOf(job[d].todo, {"deleteRemote"})}
             changed(L) == {p \in Path : uploaded(L)[p] # Absent} \cup tombstoned
             body(L) == BuildNext(job[d].remote, GenOf(job[d].remote) + 1, d,
                                  uploaded(L), tombstoned, Keep[d], now, Grace)
             next(L) == Stamped(body(L), job[d].remote)
             j(L) == [job[d] EXCEPT !.phase = "ready", !.todo = {},
                        !.next = next(L), !.changed = changed(L)]
  <2>1. PICK locked : job' = [job EXCEPT ![d] = IF changed(locked) = {} THEN IdleJob
                                                ELSE j(locked)]
    BY <1>2, Zenon DEF PushFiles
  <2>2. \A p \in Path : next(locked).tombs[p] # Absent
                          => p \in tombstoned \/ OnTopOf(job[d].remote).tombs[p] # Absent
    <3> HIDE DEF uploaded, tombstoned
    <3> QED
      BY DEF BuildNext, NextTombs, Stamped
  <2>3. \A p \in Path : FilesOf(job[d].remote)[p] # Absent
                          => OnTopOf(job[d].remote).tombs[p] = Absent
    BY <1>1 DEF FilesOf, OnTopOf, Blank, Parses
  <2>4. \A p \in tombstoned : <<"deleteRemote", p>> \in shown[d]
    BY <1>1, <1>2 DEF PushFiles, JobShown, DestructiveKeys, Destructive, OpsOf
  <2>5. j(locked).phase = "ready" /\ j(locked).next = next(locked)
        /\ j(locked).remote = job[d].remote
    BY <1>1 DEF Job
  <2> HIDE DEF uploads, uploaded, tombstoned, changed, body, next, j
  <2>6. JobShown(shown[d], j(locked))
    BY <2>2, <2>3, <2>4, <2>5 DEF JobShown
  <2>7. job'[d] = IdleJob \/ job'[d] = j(locked)
    BY <1>1, <2>1
  <2> QED
    BY <1>1, <2>6, <2>7, IdleShown, ShownStep
<1>3. CASE Publish(d) \/ Relist(d)
  <2>1. job'[d] \in {IdleJob, [job[d] EXCEPT !.phase = "published"]}
    BY <1>1, <1>3 DEF Publish, Relist
  <2>2. JobShown(shown[d], [job[d] EXCEPT !.phase = "published"])
    BY <1>1 DEF JobShown, Job
  <2>3. JobShown(shown[d], job'[d])
    BY <2>1, <2>2, IdleShown
  <2> QED
    BY <1>1, <2>3, ShownStep
<1> QED
  BY <1>2, <1>3 DEF PushSteps

\* Every step destroys, of what a job has yet to do, only what was shown.
LEMMA ShownNext ==
    TypeInv /\ Readable /\ (AsksAboutEverything => AllShown) /\ [Next]_vars
      => (AsksAboutEverything => AllShown)'
<1> SUFFICES ASSUME TypeInv, Readable, AllShown, AsksAboutEverything, [Next]_vars
             PROVE  AllShown'
  BY DEF AsksAboutEverything
<1>1. CASE UNCHANGED vars
  BY <1>1 DEF vars, AllShown
<1>2. CASE Tick \/ StorageRollback
  BY <1>2 DEF Tick, StorageRollback, AllShown
<1>3. ASSUME NEW d \in Device, User(d)
      PROVE  AllShown'
  BY <1>3 DEF User, UserEdit, UserDelete, UserRestore, ChangeProfile, AllShown
<1>4. ASSUME NEW d \in Device, Abandon(d)
      PROVE  AllShown'
  <2>1. job'[d] = IdleJob /\ UNCHANGED shown
    BY <1>4 DEF Abandon, TypeInv, TypeOK
  <2> QED
    BY <1>4, <2>1, IdleShown, EngineAlone, ShownStep
<1>5. ASSUME NEW d \in Device, Preview(d) \/ Dismiss(d) \/ Crash(d)
      PROVE  AllShown'
  <2>1. /\ \A e \in Device \ {d} : job'[e] = job[e] /\ shown'[e] = shown[e]
        /\ job'[d].phase = "idle"
    BY <1>5 DEF Preview, Dismiss, Crash, Idle, IdleJob, TypeInv, TypeOK
  <2>2. JobShown(shown'[d], job'[d])
    BY <2>1 DEF JobShown
  <2>3. ASSUME NEW e \in Device
        PROVE  JobShown(shown'[e], job'[e])
    <3>1. CASE e = d
      BY <2>2, <3>1
    <3>2. CASE e # d
      <4>1. JobShown(shown[e], job[e]) /\ job'[e] = job[e] /\ shown'[e] = shown[e]
        BY <2>1, <3>2 DEF AllShown
      <4> QED
        BY <4>1, Zenon
    <3> QED
      BY <3>1, <3>2
  <2> QED
    BY <2>3 DEF AllShown
<1>6. ASSUME NEW d \in Device, ForgetBase(d) \/ AcceptRolledBack(d)
      PROVE  AllShown'
  BY <1>6 DEF ForgetBase, AcceptRolledBack, AllShown
<1>7. ASSUME NEW d \in Device, Engine(d)
      PROVE  AllShown'
  BY <1>5, <1>6, <1>7, ShownBegin, ShownPull, ShownPush DEF Engine, Pull
<1> QED
  BY <1>1, <1>2, <1>3, <1>4, <1>5, <1>7 DEF Next

\* No job has anything to destroy at the start.
LEMMA ShownInit == Init => (AsksAboutEverything => AllShown)
  BY IdleShown DEF Init, AllShown

(***************************************************************************)
(* What a pull takes out of a file is what its operation found there, and  *)
(* that operation is destructive: it was shown.                            *)
(***************************************************************************)
LEMMA PullTakesShown ==
    ASSUME PathsTold, TypeInv, AllShown, NEW d \in Device, NEW p \in Path, Pull(d),
           vault[d][p] \notin {Absent, vault'[d][p]}
    PROVE  {<<"download", p>>, <<"deleteLocal", p>>} \cap shown[d] # {}
<1>1. vault \in [Device -> [Path -> Side]] /\ job[d] \in Job /\ JobShown(shown[d], job[d])
  BY DEF TypeInv, TypeOK, AllShown
<1>2. \A q \in Path : At(d, q) = q /\ FileAt(d, q) = vault[d][q]
  BY AtItself DEF FileAt
<1>3. \A op \in job[d].todo : op.path \in Path
  BY <1>1 DEF Job, Op
<1>4. CASE ApplyDownload(d)
  <2>1. PICK op \in job[d].todo :
          /\ job[d].phase = "pull" /\ op.kind = "download"
          /\ StillAsScanned(d, op)
          /\ vault' = [vault EXCEPT ![d][At(d, op.path)] = job[d].remote.files[op.path]]
    BY <1>4 DEF ApplyDownload, NextPullOp, WriteFile, WriteCopy, files
  <2>2. op.path = p /\ op.local # Absent
    BY <1>1, <1>2, <1>3, <2>1 DEF StillAsScanned
  <2> QED
    BY <1>1, <2>1, <2>2 DEF JobShown, DestructiveKeys, Destructive
<1>5. CASE ApplyDeleteLocal(d)
  <2>1. PICK op \in job[d].todo :
          /\ job[d].phase = "pull" /\ op.kind = "deleteLocal"
          /\ vault' = [vault EXCEPT ![d][At(d, op.path)] = Absent]
    BY <1>5 DEF ApplyDeleteLocal, NextPullOp
  <2>2. op.path = p
    BY <1>1, <1>2, <1>3, <2>1
  <2> QED
    BY <1>1, <2>1, <2>2 DEF JobShown, DestructiveKeys, Destructive
<1>6. CASE ApplyConflict(d)
  <2>1. PICK op, h :
          /\ op \in job[d].todo
          /\ FileAt(d, op.path) = Absent
          /\ vault' = [vault EXCEPT ![d][At(d, op.path)] = h]
    BY <1>6 DEF ApplyConflict, WriteFile, WriteCopy, files
  <2>2. vault[d][p] \in {Absent, vault'[d][p]}
    BY <1>1, <1>2, <1>3, <2>1
  <2> QED
    BY <2>2
<1> QED
  BY <1>4, <1>5, <1>6 DEF Pull, PullBegin, FinishPull, files

(***************************************************************************)
(* Where filesystems tell paths apart, a breaker that asks about           *)
(* everything keeps its promise: no file is replaced or trashed and no     *)
(* deletion published that a person was not shown, however the vault and   *)
(* the storage moved since (plan.ts, engine.ts: confirmAndApply).  A       *)
(* filesystem that confuses two paths can replace the file beside.         *)
(***************************************************************************)
THEOREM DestroysOnlyWhatWasShown ==
    ASSUME PathsTold
    PROVE  Spec => NothingDestroyedUnseen
<1>1. TypeInv /\ (AsksAboutEverything => AllShown) /\ [Next]_vars
        => [AsksAboutEverything =>
              \A d \in Device, p \in Path :
                /\ Pull(d) /\ vault[d][p] \notin {Absent, vault'[d][p]}
                     => {<<"download", p>>, <<"deleteLocal", p>>} \cap shown[d] # {}
                /\ PushSteps(d) /\ FilesOf(job[d].remote)[p] # Absent
                                /\ job[d].phase = "ready" /\ job[d].next.tombs[p] # Absent
                     => <<"deleteRemote", p>> \in shown[d]]_vars
  <2> SUFFICES ASSUME TypeInv, AllShown, NEW d \in Device, NEW p \in Path
               PROVE  /\ Pull(d) /\ vault[d][p] \notin {Absent, vault'[d][p]}
                           => {<<"download", p>>, <<"deleteLocal", p>>} \cap shown[d] # {}
                      /\ FilesOf(job[d].remote)[p] # Absent
                           /\ job[d].phase = "ready" /\ job[d].next.tombs[p] # Absent
                           => <<"deleteRemote", p>> \in shown[d]
    OBVIOUS
  <2> QED
    BY PullTakesShown DEF AllShown, JobShown
<1>2. Spec => []TypeInv
  BY TypeInvariant
<1>3. Spec => []Readable
  BY <1>2, ReadableInit, ReadableNext, PTL DEF Spec
<1> QED
  BY <1>1, <1>2, <1>3, ShownInit, ShownNext, PTL DEF Spec, NothingDestroyedUnseen
---------------------------------------------------------------------------
(* What a pull replaces can be had back.                                   *)

\* The storage's newest generation is never lost (a restored bucket).
NoRollback == left["rollback"] = 0

\* What the manifests of a storage name, and no file.
Kept(stored) == (UNION {Names(m) : m \in stored}) \cup {Absent}

(***************************************************************************)
(* What a job takes from the storage is still there when it uses it, and   *)
(* what it replaces is something its base had.  Its key is free when it    *)
(* puts its manifest: only this device publishes under its name, and the   *)
(* generations it had published were seen by this job.  So a put adds a    *)
(* manifest and replaces none, with or without conditional writes.         *)
(***************************************************************************)
KeptJob(stored, d, j) ==
    /\ HeldFiles(Kept(stored), j.planned)
    /\ j.remote \in stored \cup {NoManifest}
    /\ \A op \in j.todo : op.kind \in {"download", "deleteLocal"} => op.local \in Kept(stored)
    /\ j.phase \in {"pull", "push", "ready"} =>
         \A m \in stored : m.dev = d => m.gen <= GenOf(j.remote)
    /\ j.phase = "ready" => j.next.dev = d
    /\ j.phase = "published" => j.next \in stored

KeptBy(stored, d, b, s, j) ==
    /\ HeldFiles(Kept(stored), b)
    /\ HeldFiles(Kept(stored), s)
    /\ KeptJob(stored, d, j)

AllKept == \A d \in Device : KeptBy(store, d, base[d], saved[d], job[d])
\* The top manifest is one of the storage's, and none is newer.
LEMMA TopNewest ==
    ASSUME TypeInv
    PROVE  Top(store) \in store \cup {NoManifest} /\ \A m \in store : m.gen <= GenOf(Top(store))
<1>1. CASE store = {}
  BY <1>1, TopType
<1>2. CASE store # {}
  <2>1. \A m \in store : /\ m \in Manifest
                         /\ m.gen \in Nat /\ m.gen <= MaxGen /\ m.dev \in Device
    BY DEF TypeInv, TypeOK, Manifest
  <2>2. Top(store) \in store /\ \A g \in Gens(store) : g <= Top(store).gen
    BY <1>2, <2>1, TopIsWinner, ParameterAssumption
  <2>3. GenOf(Top(store)) = Top(store).gen
    BY <2>1, <2>2, GenOfType
  <2> QED
    BY <2>2, <2>3 DEF Gens
<1> QED
  BY <1>1, <1>2

\* A storage that keeps its manifests keeps what they name.
LEMMA KeptGrows ==
    ASSUME NEW stored, NEW more, stored \subseteq more
    PROVE  /\ Kept(stored) \subseteq Kept(more)
           /\ \A m : HeldFiles(Kept(stored), m) => HeldFiles(Kept(more), m)
<1>1. Kept(stored) \subseteq Kept(more)
  BY DEF Kept
<1> QED
  BY <1>1 DEF HeldFiles

\* Nothing is kept by every storage.
LEMMA NothingKept ==
    ASSUME NEW stored, NEW d
    PROVE  HeldFiles(Kept(stored), NoManifest) /\ KeptJob(stored, d, IdleJob)
<1>1. Absent \in Kept(stored)
  BY DEF Kept
<1>2. HeldFiles(Kept(stored), NoManifest)
  BY <1>1 DEF HeldFiles, FilesOf, OnTopOf, Blank
<1> QED
  BY <1>2 DEF KeptJob, IdleJob

\* A manifest of a storage names its own files.
LEMMA StoredKept ==
    ASSUME NEW stored, NEW m \in stored
    PROVE  \A p \in Path : m.files[p] \in Kept(stored)
<1>1. Names(m) \subseteq Kept(stored)
  BY DEF Kept
<1>2. \A p \in Path : m.files[p] \in Names(m)
  BY DEF Names
<1> QED
  BY <1>1, <1>2

(***************************************************************************)
(* No other event takes from the budget of rollbacks.                      *)
(***************************************************************************)
LEMMA NoRollbackNext == TypeInv /\ NoRollback /\ [Next]_vars => NoRollback'
<1> SUFFICES ASSUME TypeInv, NoRollback, [Next]_vars
             PROVE  left'["rollback"] = 0
  BY DEF NoRollback
<1>1. left \in [Fault -> Nat] /\ left["rollback"] = 0
  BY DEF TypeInv, TypeOK, NoRollback
<1>2. ASSUME NEW f, f # "rollback", NEW n, left' = [left EXCEPT ![f] = n]
      PROVE  left'["rollback"] = 0
  BY <1>1, <1>2 DEF Fault
<1>3. ASSUME NEW f, f # "rollback", Spend(f)
      PROVE  left'["rollback"] = 0
  BY <1>2, <1>3 DEF Spend
<1>4. ASSUME NEW d \in Device, User(d)
      PROVE  left'["rollback"] = 0
  BY <1>1, <1>3, <1>4 DEF User, UserEdit, UserDelete, UserRestore, ChangeProfile
<1>5. ASSUME NEW d \in Device, PullBegin(d) \/ PushBegin(d) \/ ConfirmBegin(d)
      PROVE  left'["rollback"] = 0
  <2>1. PICK U : Charge(U)
    BY <1>5 DEF PullBegin, PushBegin, ConfirmBegin
  <2> QED
    BY <1>2, <2>1 DEF Charge
<1>6. ASSUME NEW d \in Device, NEW b, Adopt(d, b)
      PROVE  left'["rollback"] = 0
  BY <1>1, <1>3, <1>6 DEF Adopt
<1>7. ASSUME NEW d \in Device, Pull(d)
      PROVE  left'["rollback"] = 0
  <2>1. CASE ApplyDownload(d) \/ ApplyConflict(d)
    BY <1>1, <2>1 DEF ApplyDownload, ApplyConflict
  <2>2. CASE ApplyDeleteLocal(d)
    BY <1>1, <1>3, <2>2 DEF ApplyDeleteLocal
  <2>3. CASE FinishPull(d)
    BY <1>6, <2>3 DEF FinishPull
  <2> QED
    BY <1>5, <1>7, <2>1, <2>2, <2>3 DEF Pull
<1>8. ASSUME NEW d \in Device, PushSteps(d)
      PROVE  left'["rollback"] = 0
  <2>1. CASE PushFiles(d)
    <3>1. PICK locked : left' = [left EXCEPT !["locked"] = @ - Cardinality(locked)]
      BY <2>1, Zenon DEF PushFiles
    <3> QED
      BY <1>2, <3>1
  <2>2. CASE Publish(d)
    BY <1>1, <2>2 DEF Publish
  <2>3. CASE Relist(d)
    BY <1>1, <1>6, <2>3 DEF Relist
  <2> QED
    BY <1>8, <2>1, <2>2, <2>3 DEF PushSteps
<1>9. ASSUME NEW d \in Device, Engine(d)
      PROVE  left'["rollback"] = 0
  <2>1. CASE Preview(d) \/ Dismiss(d)
    BY <1>1, <1>3, <2>1 DEF Preview, Dismiss
  <2>2. CASE ForgetBegin(d) \/ ReleaseBegin(d)
    BY <1>3, <2>2 DEF ForgetBegin, ReleaseBegin
  <2>3. CASE ForgetBase(d) \/ AcceptRolledBack(d)
    BY <1>1, <1>3, <2>3 DEF ForgetBase, AcceptRolledBack
  <2> QED
    BY <1>5, <1>7, <1>8, <1>9, <2>1, <2>2, <2>3 DEF Engine
<1>10. ASSUME NEW d \in Device, Abandon(d) \/ Crash(d)
       PROVE  left'["rollback"] = 0
  BY <1>3, <1>10 DEF Abandon, Crash
<1>11. CASE Tick
  BY <1>1, <1>11 DEF Tick
<1>12. ~StorageRollback
  BY <1>1 DEF StorageRollback, Spend
<1> QED
  BY <1>1, <1>4, <1>9, <1>10, <1>11, <1>12 DEF Next, vars

(***************************************************************************)
(* A put adds its manifest, under the name of its device, and replaces     *)
(* none; no other step of the program touches the storage.                 *)
(***************************************************************************)
LEMMA PutAdds ==
    ASSUME TypeInv, Ahead, AllKept, NEW d \in Device, Publish(d)
    PROVE  /\ store \subseteq store'
           /\ \A m \in store' \ store : m.dev = d
           /\ job'[d].phase = "published" => job[d].next \in store'
<1>1. /\ job[d] \in Job /\ job[d].phase = "ready" /\ job[d].next \in Manifest
      /\ job[d].remote \in MaybeManifest
      /\ job[d].next.gen = GenOf(job[d].remote) + 1 /\ job[d].next.dev = d
      /\ \A m \in store : m.dev = d => m.gen <= GenOf(job[d].remote)
      /\ \A m \in store : m.gen \in Nat
  BY DEF Publish, TypeInv, TypeOK, Fits, Ahead, JobAhead, AllKept, KeptBy, KeptJob, Job,
     Manifest
<1>2. GenOf(job[d].remote) \in Nat
  BY <1>1, GenOfType
<1>3. \A m \in store : m.gen # job[d].next.gen \/ m.dev # job[d].next.dev
  BY <1>1, <1>2
<1>4. Put(store, job[d].next) = store \cup {job[d].next}
  BY <1>3 DEF Put
<1>5. \/ store' = store /\ job'[d] = IdleJob
      \/ store' = store \cup {job[d].next}
  BY <1>4 DEF Publish, TypeInv, TypeOK
<1> QED
  BY <1>1, <1>5 DEF IdleJob

\* What a job holds on to, it may hold on to while others publish.
LEMMA KeptStands ==
    ASSUME NEW stored, NEW more, stored \subseteq more, NEW d, NEW b, NEW s, NEW j,
           KeptBy(stored, d, b, s, j), \A m \in more \ stored : m.dev # d
    PROVE  KeptBy(more, d, b, s, j)
<1>1. /\ Kept(stored) \subseteq Kept(more)
      /\ \A m : HeldFiles(Kept(stored), m) => HeldFiles(Kept(more), m)
  BY KeptGrows
<1>2. KeptJob(more, d, j)
  <2>1. KeptJob(stored, d, j)
    BY DEF KeptBy
  <2> QED
    BY <1>1, <2>1 DEF KeptJob
<1> QED
  BY <1>1, <1>2 DEF KeptBy

(***************************************************************************)
(* A step of one device that adds to the storage only under its own name,  *)
(* after which that device can have back what it may replace.              *)
(***************************************************************************)
LEMMA KeptStep ==
    ASSUME AllKept, NEW d \in Device, OthersStand(d), store \subseteq store',
           \A m \in store' \ store : m.dev = d,
           KeptBy(store', d, base'[d], saved'[d], job'[d])
    PROVE  AllKept'
<1>1. ASSUME NEW e \in Device
      PROVE  KeptBy(store', e, base'[e], saved'[e], job'[e])
  <2>1. CASE e = d
    BY <2>1
  <2>2. CASE e # d
    <3>1. KeptBy(store, e, base[e], saved[e], job[e])
      BY DEF AllKept
    <3>2. base'[e] = base[e] /\ saved'[e] = saved[e] /\ job'[e] = job[e]
      BY <2>2 DEF OthersStand
    <3>3. \A m \in store' \ store : m.dev # e
      BY <2>2
    <3>4. KeptBy(store', e, base[e], saved[e], job[e])
      BY <3>1, <3>3, KeptStands
    <3> QED
      BY <3>2, <3>4, Zenon
  <2> QED
    BY <2>1, <2>2
<1> QED
  BY <1>1 DEF AllKept

\* Of a step that only moves the job, the job is all there is to look at.
LEMMA KeptJobStep ==
    ASSUME AllKept, NEW d \in Device, OthersStand(d), UNCHANGED <<base, saved, store>>,
           KeptJob(store, d, job'[d])
    PROVE  AllKept'
<1>1. KeptBy(store, d, base[d], saved[d], job[d])
  BY DEF AllKept
<1>2. KeptBy(store', d, base'[d], saved'[d], job'[d])
  BY <1>1 DEF KeptBy
<1> QED
  BY <1>2, KeptStep

\* Of a step that replaces the base, the new base and the job.
LEMMA KeptBaseStep ==
    ASSUME TypeInv, AllKept, NEW d \in Device, OthersStand(d), UNCHANGED store, NEW b,
           HeldFiles(Kept(store), b), base' = [base EXCEPT ![d] = b],
           saved' = [saved EXCEPT ![d] = b] \/ UNCHANGED saved,
           KeptJob(store, d, job'[d])
    PROVE  AllKept'
<1>1. KeptBy(store, d, base[d], saved[d], job[d])
  BY DEF AllKept
<1>2. base'[d] = b /\ saved'[d] \in {b, saved[d]}
  BY DEF TypeInv, TypeOK
<1>3. KeptBy(store', d, base'[d], saved'[d], job'[d])
  BY <1>1, <1>2 DEF KeptBy
<1> QED
  BY <1>3, KeptStep

(***************************************************************************)
(* The operations of a fresh plan replace or trash only what the base it   *)
(* was planned against has at that path: an unedited file.                 *)
(***************************************************************************)
LEMMA PlanReplacesKept ==
    ASSUME TypeInv, NEW d \in Device, NEW U \in SUBSET Path, NEW op \in PlanFor(d, U),
           op.kind \in {"download", "deleteLocal"}
    PROVE  op.local \in {Absent, FilesOf(Planned(d))[op.path]}
<1> DEFINE p == op.path
           l == Scan(d, U)[p]
           b == SideOf(Planned(d), p)
           r == SideOf(Top(store), p)
<1>1. p \in Path /\ op.local = l /\ op.kind = Decision(d, U, p)
  BY PlanDecides
<1>2. l \in LocalSide /\ b \in ManifestSide /\ r \in ManifestSide
  BY <1>1, PlanSides
<1>3. Classify(l, b, r) = op.kind
  BY <1>1, <1>2, ClassifyIsThreeWay DEF Decision
<1>4. l = Absent \/ b = l
  BY <1>2, <1>3, ReplacesOnlyWhatWasSynced
<1>5. b \in Hash => b = FilesOf(Planned(d))[p]
  <2>1. Planned(d) = NoManifest => b = Absent
    BY DEF SideOf
  <2>2. Planned(d) # NoManifest => FilesOf(Planned(d)) = Planned(d).files
    BY DEF FilesOf, OnTopOf
  <2> QED
    BY <2>1, <2>2, MarkAssumption DEF SideOf
<1>6. l = Absent \/ l \in Hash
  BY <1>2 DEF LocalSide
<1> QED
  BY <1>1, <1>4, <1>5, <1>6

\* A job that has just planned can have back what it will replace.
LEMMA PlanningKept ==
    ASSUME TypeInv, AllKept, NEW d \in Device, NEW U \in SUBSET Path,
           NEW phase \in {"pull", "push"}, NEW full, NEW todo, todo \subseteq PlanFor(d, U)
    PROVE  KeptJob(store, d, Planning(d, U, phase, full, todo))
<1> DEFINE j == Planning(d, U, phase, full, todo)
<1>1. /\ j.planned = Planned(d) /\ j.phase = phase /\ j.todo = todo
      /\ j.remote = Top(store)
  BY DEF Planning
<1>2. HeldFiles(Kept(store), Planned(d)) /\ Absent \in Kept(store)
  <2>1. HeldFiles(Kept(store), base[d]) /\ Absent \in Kept(store)
    BY DEF AllKept, KeptBy, Kept
  <2> QED
    BY <2>1, PlannedHeld
<1>3. ASSUME NEW op \in todo, op.kind \in {"download", "deleteLocal"}
      PROVE  op.local \in Kept(store)
  <2>1. op.local \in {Absent, FilesOf(Planned(d))[op.path]} /\ op.path \in Path
    BY <1>3, PlanReplacesKept, PlanDecides
  <2> QED
    BY <1>2, <2>1 DEF HeldFiles
<1>4. Top(store) \in store \cup {NoManifest} /\ \A m \in store : m.gen <= GenOf(Top(store))
  BY TopNewest
<1> HIDE DEF j
<1>5. KeptJob(store, d, j)
  BY <1>1, <1>2, <1>3, <1>4 DEF KeptJob
<1> QED
  BY <1>5 DEF j

\* The jobs that begin: each has read the newest manifest there is.
LEMMA KeptBegin ==
    ASSUME TypeInv, AllKept, NEW d \in Device,
           \/ PullBegin(d) \/ PushBegin(d) \/ ConfirmBegin(d)
           \/ ForgetBegin(d) \/ ReleaseBegin(d)
    PROVE  AllKept'
<1>1. job \in [Device -> Job] /\ OthersStand(d)
  BY EngineAlone DEF TypeInv, TypeOK, Engine, Pull
<1>2. UNCHANGED <<base, saved, store>>
  BY DEF PullBegin, PushBegin, ConfirmBegin, ForgetBegin, ReleaseBegin, state
<1>3. CASE PullBegin(d) \/ PushBegin(d) \/ ConfirmBegin(d)
  <2>0. PICK U \in Unreadable(d), phase \in {"pull", "push"} : \E full, todo :
          /\ job' = [job EXCEPT ![d] = Planning(d, U, phase, full, todo)]
          /\ todo \subseteq PlanFor(d, U)
    <3>1. CASE PullBegin(d)
      <4>1. PICK U \in Unreadable(d) : job' = [job EXCEPT ![d] =
               Planning(d, U, "pull", FALSE, OpsOf(PlanFor(d, U), PullKinds))]
        BY <3>1 DEF PullBegin
      <4>2. OpsOf(PlanFor(d, U), PullKinds) \subseteq PlanFor(d, U)
        BY DEF OpsOf
      <4> QED
        BY <4>1, <4>2
    <3>2. CASE PushBegin(d)
      <4>1. PICK U \in Unreadable(d) : job' = [job EXCEPT ![d] =
               Planning(d, U, "push", FALSE, OpsOf(PlanFor(d, U), PushKinds))]
        BY <3>2 DEF PushBegin
      <4>2. OpsOf(PlanFor(d, U), PushKinds) \subseteq PlanFor(d, U)
        BY DEF OpsOf
      <4> QED
        BY <4>1, <4>2
    <3>3. CASE ConfirmBegin(d)
      <4>1. PICK U \in Unreadable(d) :
              job' = [job EXCEPT ![d] =
                        Planning(d, U, IF store = {} THEN "push" ELSE "pull", TRUE,
                                 IF store = {} THEN OpsOf(PlanFor(d, U), PushKinds)
                                               ELSE PlanFor(d, U))]
        BY <3>3 DEF ConfirmBegin
      <4>2. CASE store = {}
        BY <4>1, <4>2 DEF OpsOf
      <4>3. CASE store # {}
        BY <4>1, <4>3
      <4> QED
        BY <4>2, <4>3
    <3> QED
      BY <1>3, <3>1, <3>2, <3>3
  <2>1. PICK full, todo :
          /\ job' = [job EXCEPT ![d] = Planning(d, U, phase, full, todo)]
          /\ todo \subseteq PlanFor(d, U)
    BY <2>0
  <2>2. U \in SUBSET Path
    BY UnreadableType
  <2>3. KeptJob(store, d, Planning(d, U, phase, full, todo))
    BY <2>1, <2>2, PlanningKept
  <2>4. job'[d] = Planning(d, U, phase, full, todo)
    BY <1>1, <2>1
  <2> QED
    BY <1>1, <1>2, <2>3, <2>4, KeptJobStep
<1>4. CASE ForgetBegin(d) \/ ReleaseBegin(d)
  <2>1. PICK body, changed :
          /\ job' = [job EXCEPT ![d] = Publishing(d, body, changed)]
          /\ body.dev = d
    <3>1. CASE ForgetBegin(d)
      <4>1. PICK gone : job' = [job EXCEPT ![d] =
               Publishing(d, ForgetNext(Top(store), GenOf(Top(store)) + 1, d, gone), gone)]
        BY <3>1 DEF ForgetBegin
      <4> DEFINE body == ForgetNext(Top(store), GenOf(Top(store)) + 1, d, gone)
      <4>2. body.dev = d
        BY DEF ForgetNext
      <4>3. job' = [job EXCEPT ![d] = Publishing(d, body, gone)]
        BY <4>1, Zenon
      <4> HIDE DEF body
      <4> QED
        BY <4>2, <4>3, Zenon
    <3>2. CASE ReleaseBegin(d)
      <4> DEFINE body == ReleaseNext(Top(store), GenOf(Top(store)) + 1, d)
      <4>1. job' = [job EXCEPT ![d] = Publishing(d, body, {})]
        BY <3>2, Zenon DEF ReleaseBegin
      <4>2. body.dev = d
        BY DEF ReleaseNext
      <4> HIDE DEF body
      <4> QED
        BY <4>1, <4>2, Zenon
    <3> QED
      BY <1>4, <3>1, <3>2
  <2>2. HeldFiles(Kept(store), Planned(d))
    <3>1. HeldFiles(Kept(store), base[d]) /\ Absent \in Kept(store)
      BY DEF AllKept, KeptBy, Kept
    <3> QED
      BY <3>1, PlannedHeld
  <2>3. /\ Top(store) \in store \cup {NoManifest}
        /\ \A m \in store : m.gen <= GenOf(Top(store))
    BY TopNewest
  <2>4. KeptJob(store, d, Publishing(d, body, changed))
    BY <2>1, <2>2, <2>3 DEF KeptJob, Publishing, Stamped
  <2>5. job'[d] = Publishing(d, body, changed)
    BY <1>1, <2>1
  <2> QED
    BY <1>1, <1>2, <2>4, <2>5, KeptJobStep
<1> QED
  BY <1>3, <1>4

\* A pull has fewer operations left after each step.
LEMMA KeptApply ==
    ASSUME TypeInv, AllKept, NEW d \in Device,
           ApplyDownload(d) \/ ApplyDeleteLocal(d) \/ ApplyConflict(d)
    PROVE  AllKept'
<1>1. job \in [Device -> Job] /\ job[d] \in Job /\ KeptJob(store, d, job[d])
  BY DEF TypeInv, TypeOK, AllKept, KeptBy
<1>2. OthersStand(d) /\ UNCHANGED <<base, saved, store>>
  BY PullAlone DEF Pull, ApplyDownload, ApplyDeleteLocal, ApplyConflict, state
<1>3. PICK op : job' = Done(d, op) \/ job' = DoneHeld(d, op)
  BY DEF ApplyDownload, ApplyDeleteLocal, ApplyConflict
<1>4. /\ job'[d].phase = job[d].phase /\ job'[d].todo = job[d].todo \ {op}
      /\ job'[d].remote = job[d].remote /\ job'[d].planned = job[d].planned
      /\ job'[d].next = job[d].next
  BY <1>1, <1>3 DEF Done, DoneHeld, Job
<1>5. KeptJob(store, d, job'[d])
  BY <1>1, <1>4 DEF KeptJob
<1> QED
  BY <1>2, <1>5, KeptJobStep

\* The base a pull adopts is made of the manifest it read and the base before.
LEMMA KeptFinishPull ==
    ASSUME TypeInv, AllKept, NEW d \in Device, FinishPull(d)
    PROVE  AllKept'
<1> DEFINE j == job[d]
           new == [p \in Path |-> IF p \notin profile[d] THEN Absent
                                  ELSE IF p \in j.held THEN FilesOf(j.planned)[p]
                                  ELSE j.remote.files[p]]
           b == AdoptPulled(j.remote, j.planned, j.held, profile[d])
           push == [j EXCEPT !.phase = "push", !.planned = b]
<1>1. /\ j \in Job /\ j.phase = "pull" /\ j.remote \in Manifest
      /\ KeptJob(store, d, j) /\ Absent \in Kept(store)
  BY DEF FinishPull, TypeInv, TypeOK, Fits, AllKept, KeptBy, Kept
<1>2. j.planned \in MaybeManifest /\ j.remote \in store
  BY <1>1, NoManifestAssumption DEF Job, KeptJob
<1>3. FilesOf(b) = new
  <2>1. new \in [Path -> Hash \cup {Absent}]
    BY <1>1, <1>2, OnTopOfType DEF FilesOf, Manifest
  <2>2. b = [j.remote EXCEPT !.files = new]
    BY DEF AdoptPulled
  <2> HIDE DEF new, b
  <2> QED
    BY <1>1, <2>1, <2>2, ReplacedFiles
<1>4. HeldFiles(Kept(store), b)
  <2>1. \A p \in Path : j.remote.files[p] \in Kept(store)
    BY <1>2, StoredKept
  <2>2. \A p \in Path : new[p] \in Kept(store)
    BY <1>1, <2>1 DEF KeptJob, HeldFiles
  <2> HIDE DEF new, b
  <2> QED
    BY <1>3, <2>2 DEF HeldFiles
<1>5. /\ base' = [base EXCEPT ![d] = b]
      /\ saved' = [saved EXCEPT ![d] = b] \/ UNCHANGED saved
      /\ job'[d] \in {push, IdleJob}
      /\ UNCHANGED store
  BY DEF FinishPull, Adopt, TypeInv, TypeOK
<1>6. /\ push.planned = b /\ push.phase = "push" /\ push.remote = j.remote
      /\ push.todo = j.todo
  BY <1>1 DEF Job
<1> HIDE DEF b, push
<1>7. KeptJob(store, d, push)
  BY <1>1, <1>4, <1>6 DEF KeptJob
<1>8. KeptJob(store, d, job'[d])
  BY <1>5, <1>7, NothingKept
<1> QED
  BY <1>4, <1>5, <1>8, KeptBaseStep, PullAlone DEF Pull

\* What a push describes is published under the name of its device.
LEMMA KeptPushFiles ==
    ASSUME TypeInv, AllKept, NEW d \in Device, PushFiles(d)
    PROVE  AllKept'
<1> DEFINE uploads(L) == {o.path : o \in OpsOf(job[d].todo, {"upload"})} \ L
           uploaded(L) == [p \in Path |-> IF p \in uploads(L) THEN FileAt(d, p) ELSE Absent]
           tombstoned == {o.path : o \in OpsOf(job[d].todo, {"deleteRemote"})}
           changed(L) == {p \in Path : uploaded(L)[p] # Absent} \cup tombstoned
           body(L) == BuildNext(job[d].remote, GenOf(job[d].remote) + 1, d,
                                uploaded(L), tombstoned, Keep[d], now, Grace)
           next(L) == Stamped(body(L), job[d].remote)
           j(L) == [job[d] EXCEPT !.phase = "ready", !.todo = {},
                      !.next = next(L), !.changed = changed(L)]
<1>1. /\ job \in [Device -> Job] /\ job[d] \in Job /\ job[d].phase = "push"
      /\ KeptJob(store, d, job[d])
  BY DEF TypeInv, TypeOK, AllKept, KeptBy, PushFiles
<1>2. PICK locked : job' = [job EXCEPT ![d] = IF changed(locked) = {} THEN IdleJob
                                              ELSE j(locked)]
  BY Zenon DEF PushFiles
<1> HIDE DEF uploads, uploaded, tombstoned, changed
<1>3. next(locked).dev = d
  BY DEF BuildNext, Stamped
<1> HIDE DEF body, next
<1>4. /\ j(locked).next = next(locked) /\ j(locked).todo = {}
      /\ j(locked).phase = "ready" /\ j(locked).planned = job[d].planned
      /\ j(locked).remote = job[d].remote
  BY <1>1 DEF Job
<1> HIDE DEF j
<1>5. KeptJob(store, d, j(locked))
  BY <1>1, <1>3, <1>4 DEF KeptJob
<1>6. KeptJob(store, d, job'[d])
  <2>1. job'[d] = IdleJob \/ job'[d] = j(locked)
    BY <1>1, <1>2
  <2> QED
    BY <1>5, <2>1, NothingKept
<1> QED
  BY <1>6, KeptJobStep, EngineAlone DEF PushFiles, Engine, PushSteps, state

\* The put adds a manifest; the re-LIST adopts of it what the push changed.
LEMMA KeptPublished ==
    ASSUME TypeInv, Ahead, AllKept, NEW d \in Device, Publish(d) \/ Relist(d)
    PROVE  AllKept'
<1> DEFINE j == job[d]
<1>1. /\ job \in [Device -> Job] /\ j \in Job /\ OthersStand(d)
      /\ KeptBy(store, d, base[d], saved[d], j) /\ KeptJob(store, d, j)
  BY EngineAlone DEF TypeInv, TypeOK, AllKept, KeptBy, Engine, PushSteps
<1>2. CASE Publish(d)
  <2> DEFINE published == [j EXCEPT !.phase = "published"]
  <2>1. /\ store \subseteq store' /\ \A m \in store' \ store : m.dev = d
        /\ job'[d].phase = "published" => j.next \in store'
    BY <1>2, PutAdds
  <2>2. /\ Kept(store) \subseteq Kept(store')
        /\ \A m : HeldFiles(Kept(store), m) => HeldFiles(Kept(store'), m)
    BY <2>1, KeptGrows
  <2>3. job'[d] \in {IdleJob, published} /\ UNCHANGED <<base, saved>>
    BY <1>1, <1>2 DEF Publish, state
  <2>4. /\ published.phase = "published" /\ published.remote = j.remote
        /\ published.planned = j.planned /\ published.todo = j.todo
        /\ published.next = j.next
    BY <1>1 DEF Job
  <2> HIDE DEF published
  <2>5. CASE job'[d] = published
    <3>1. KeptJob(store', d, published)
      BY <1>1, <2>1, <2>2, <2>4, <2>5 DEF KeptJob
    <3>2. KeptBy(store', d, base'[d], saved'[d], job'[d])
      BY <1>1, <2>2, <2>3, <2>5, <3>1 DEF KeptBy
    <3> QED
      BY <1>1, <2>1, <3>2, KeptStep
  <2>6. CASE job'[d] = IdleJob
    <3>1. KeptJob(store', d, IdleJob)
      BY NothingKept
    <3>2. KeptBy(store', d, base'[d], saved'[d], job'[d])
      BY <1>1, <2>2, <2>3, <2>6, <3>1 DEF KeptBy
    <3> QED
      BY <1>1, <2>1, <3>2, KeptStep
  <2> QED
    BY <2>3, <2>5, <2>6
<1>3. CASE Relist(d)
  <2> DEFINE new == [p \in Path |-> IF p \notin j.changed THEN FilesOf(j.planned)[p]
                                    ELSE IF p \in profile[d] THEN j.next.files[p]
                                    ELSE Absent]
             b == AdoptPublished(j.next, j.planned, j.changed, profile[d])
  <2>1. /\ j.next \in Manifest /\ j.planned \in MaybeManifest /\ j.next \in store
        /\ Absent \in Kept(store)
    BY <1>1, <1>3 DEF Relist, TypeInv, Fits, Job, KeptJob, Kept
  <2>2. FilesOf(b) = new
    <3>1. new \in [Path -> Hash \cup {Absent}]
      BY <1>1, <2>1, OnTopOfType DEF FilesOf, Manifest
    <3>2. b = [j.next EXCEPT !.files = new]
      BY DEF AdoptPublished
    <3> HIDE DEF new, b
    <3> QED
      BY <2>1, <3>1, <3>2, ReplacedFiles
  <2>3. \A p \in Path : new[p] \in Kept(store)
    <3>1. \A p \in Path : j.next.files[p] \in Kept(store)
      BY <2>1, StoredKept
    <3> QED
      BY <1>1, <2>1, <3>1 DEF KeptJob, HeldFiles
  <2> HIDE DEF new, b
  <2>4. HeldFiles(Kept(store), b)
    BY <2>2, <2>3 DEF HeldFiles
  <2>5. KeptJob(store, d, job'[d]) /\ UNCHANGED store
    <3>1. job'[d] = IdleJob /\ UNCHANGED store
      BY <1>1, <1>3 DEF Relist
    <3> QED
      BY <3>1, NothingKept
  <2>6. \/ /\ base' = [base EXCEPT ![d] = b]
           /\ saved' = [saved EXCEPT ![d] = b] \/ UNCHANGED saved
        \/ UNCHANGED <<base, saved>>
    BY <1>3 DEF Relist, Adopt, state, b
  <2> QED
    BY <1>1, <2>4, <2>5, <2>6, KeptBaseStep, KeptJobStep
<1> QED
  BY <1>2, <1>3

\* No operation of the engine lets go of what it may have to replace.
LEMMA KeptEngine ==
    ASSUME TypeInv, Ahead, AllKept, NEW d \in Device, Engine(d) \/ Abandon(d) \/ Crash(d)
    PROVE  AllKept'
<1>1. /\ OthersStand(d) /\ Absent \in Kept(store) /\ job \in [Device -> Job]
      /\ base \in [Device -> MaybeManifest] /\ saved \in [Device -> MaybeManifest]
      /\ KeptBy(store, d, base[d], saved[d], job[d])
  BY EngineAlone DEF TypeInv, TypeOK, Kept, AllKept
<1>2. CASE Preview(d) \/ Dismiss(d)
  BY <1>1, <1>2, KeptJobStep DEF Preview, Dismiss, state, KeptBy
<1>3. CASE ForgetBase(d) \/ AcceptRolledBack(d)
  <2>1. /\ base' = [base EXCEPT ![d] = NoManifest] /\ saved' = [saved EXCEPT ![d] = NoManifest]
        /\ UNCHANGED <<job, store>>
    BY <1>3 DEF ForgetBase, AcceptRolledBack, DropBase
  <2>2. HeldFiles(Kept(store), NoManifest) /\ KeptJob(store, d, job'[d])
    BY <1>1, <2>1, NothingKept DEF KeptBy
  <2> QED
    BY <1>1, <2>1, <2>2, KeptBaseStep
<1>4. CASE Abandon(d)
  <2>1. job'[d] = IdleJob /\ UNCHANGED <<base, saved, store>>
    BY <1>1, <1>4 DEF Abandon, state
  <2>2. KeptJob(store, d, job'[d])
    BY <2>1, NothingKept
  <2> QED
    BY <1>1, <2>1, <2>2, KeptJobStep
<1>5. CASE Crash(d)
  <2> DEFINE m == saved[d]
             new == [p \in Path |-> IF p \in profile[d] THEN m.files[p] ELSE Absent]
             b == Loaded(m, profile[d])
  <2>1. HeldFiles(Kept(store), b)
    <3>1. CASE m = NoManifest \/ ~Parses(m)
      BY <3>1, NothingKept DEF Loaded
    <3>2. CASE m # NoManifest /\ Parses(m)
      <4>1. /\ m \in Manifest /\ FilesOf(m) = m.files /\ HeldFiles(Kept(store), m)
            /\ m.files \in [Path -> Hash \cup {Absent}]
        BY <1>1, <3>2 DEF MaybeManifest, Manifest, FilesOf, OnTopOf, KeptBy
      <4>2. new \in [Path -> Hash \cup {Absent}] /\ \A p \in Path : new[p] \in Kept(store)
        BY <1>1, <4>1 DEF HeldFiles
      <4>3. b = [m EXCEPT !.files = new]
        BY <3>2 DEF Loaded
      <4> HIDE DEF new, b, m
      <4> QED
        BY <4>1, <4>2, <4>3, ReplacedFiles DEF HeldFiles
    <3> QED
      BY <3>1, <3>2
  <2>2. /\ base' = [base EXCEPT ![d] = b] /\ job'[d] = IdleJob
        /\ UNCHANGED <<saved, store>>
    BY <1>1, <1>5 DEF Crash
  <2>3. KeptJob(store, d, job'[d])
    BY <2>2, NothingKept
  <2> HIDE DEF b
  <2> QED
    BY <1>1, <2>1, <2>2, <2>3, KeptBaseStep
<1> QED
  BY <1>2, <1>3, <1>4, <1>5, KeptBegin, KeptApply, KeptFinishPull, KeptPushFiles,
     KeptPublished DEF Engine, Pull, PushSteps

\* Without a rollback every step keeps what a pull may replace.
LEMMA KeptNext == TypeInv /\ Ahead /\ NoRollback /\ AllKept /\ [Next]_vars => AllKept'
<1> SUFFICES ASSUME TypeInv, Ahead, NoRollback, AllKept, [Next]_vars
             PROVE  AllKept'
  OBVIOUS
<1>1. CASE UNCHANGED vars
  BY <1>1 DEF vars, AllKept, state
<1>2. CASE Tick
  BY <1>2 DEF Tick, AllKept, state
<1>3. ~StorageRollback
  BY DEF NoRollback, StorageRollback, Spend, TypeInv, TypeOK
<1>4. ASSUME NEW d \in Device, User(d)
      PROVE  AllKept'
  BY <1>4 DEF User, UserEdit, UserDelete, UserRestore, ChangeProfile, AllKept, state
<1> QED
  BY <1>1, <1>2, <1>3, <1>4, KeptEngine DEF Next

\* At the start there is nothing to replace.
LEMMA KeptInit == Init => AllKept
  BY NothingKept DEF Init, AllKept, KeptBy

(***************************************************************************)
(* What a pull takes out of a file, wherever the filesystem finds it, is   *)
(* what its operation scanned there, or nothing.                           *)
(***************************************************************************)
LEMMA PullTakesKept ==
    ASSUME TypeInv, AllKept, NEW d \in Device, NEW p \in Path,
           ApplyDownload(d) \/ ApplyDeleteLocal(d) \/ ApplyConflict(d),
           vault[d][p] \notin {Absent, vault'[d][p]}
    PROVE  vault[d][p] \in Recoverable
<1>1. /\ vault \in [Device -> [Path -> Side]] /\ job[d] \in Job
      /\ KeptJob(store, d, job[d])
  BY DEF TypeInv, TypeOK, AllKept, KeptBy
<1>2. \A op \in job[d].todo : At(d, op.path) \in Path
  BY <1>1, AtType DEF Job, Op
<1>3. Kept(store) = Recoverable \cup {Absent}
  BY DEF Kept, Recoverable
<1>4. CASE ApplyDownload(d)
  <2>1. PICK op \in job[d].todo :
          /\ op.kind = "download" /\ StillAsScanned(d, op)
          /\ vault' = [vault EXCEPT ![d][At(d, op.path)] = job[d].remote.files[op.path]]
    BY <1>4 DEF ApplyDownload, WriteFile, WriteCopy, files
  <2>2. p = At(d, op.path)
    BY <1>1, <1>2, <2>1
  <2>3. vault[d][p] = op.local
    BY <2>1, <2>2 DEF StillAsScanned, FileAt
  <2> QED
    BY <1>1, <1>3, <2>1, <2>3 DEF KeptJob
<1>5. CASE ApplyDeleteLocal(d)
  <2>1. PICK op \in job[d].todo :
          /\ op.kind = "deleteLocal" /\ FileAt(d, op.path) \in {op.local, Absent}
          /\ vault' = [vault EXCEPT ![d][At(d, op.path)] = Absent]
    BY <1>5 DEF ApplyDeleteLocal
  <2>2. p = At(d, op.path)
    BY <1>1, <1>2, <2>1
  <2>3. vault[d][p] = op.local
    BY <2>1, <2>2 DEF FileAt
  <2> QED
    BY <1>1, <1>3, <2>1, <2>3 DEF KeptJob
<1>6. CASE ApplyConflict(d)
  <2>1. PICK op, h :
          /\ op \in job[d].todo
          /\ FileAt(d, op.path) = Absent
          /\ vault' = [vault EXCEPT ![d][At(d, op.path)] = h]
    BY <1>6 DEF ApplyConflict, WriteFile, WriteCopy, files
  <2>2. p = At(d, op.path)
    BY <1>1, <1>2, <2>1
  <2> QED
    BY <2>1, <2>2 DEF FileAt
<1> QED
  BY <1>4, <1>5, <1>6

(***************************************************************************)
(* While the storage loses nothing, whatever a pull takes out of a user's  *)
(* file is content the storage names and can give back: also where a       *)
(* filesystem confuses two paths, whatever was edited since the scan, and  *)
(* on a storage without conditional writes (apply.ts: applyPullOps;        *)
(* engine.ts: publishManifest).                                            *)
(***************************************************************************)
THEOREM ReplacesOnlyPublishedBytes ==
    ASSUME \A b \in Budgets : b["rollback"] = 0
    PROVE  Spec => OnlyPublishedBytesReplaced
<1>1. TypeInv /\ AllKept /\ [Next]_vars
        => [(\E d \in Device : ApplyDownload(d) \/ ApplyDeleteLocal(d) \/ ApplyConflict(d))
              => \A d \in Device, p \in Path :
                   vault[d][p] \notin {Absent, vault'[d][p]} => vault[d][p] \in Recoverable]_vars
  <2> SUFFICES ASSUME TypeInv, AllKept, NEW d \in Device,
                      ApplyDownload(d) \/ ApplyDeleteLocal(d) \/ ApplyConflict(d),
                      NEW e \in Device, NEW p \in Path,
                      vault[e][p] \notin {Absent, vault'[e][p]}
               PROVE  vault[e][p] \in Recoverable
    OBVIOUS
  <2>1. e = d
    BY PullAlone DEF Pull, OthersStand
  <2> QED
    BY <2>1, PullTakesKept
<1>2. Init => NoRollback
  BY DEF Init, NoRollback
<1>3. Spec => []TypeInv
  BY TypeInvariant
<1>4. Spec => []Ahead
  BY <1>3, AheadInit, AheadNext, PTL DEF Spec
<1>5. Spec => []NoRollback
  BY <1>2, <1>3, NoRollbackNext, PTL DEF Spec
<1>6. Spec => []AllKept
  BY <1>3, <1>4, <1>5, KeptInit, KeptNext, PTL DEF Spec
<1> QED
  BY <1>1, <1>3, <1>6, PTL DEF Spec, OnlyPublishedBytesReplaced
============================================================================

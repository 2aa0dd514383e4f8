--------------------------- MODULE PlannerProofs ---------------------------
(***************************************************************************)
(* Facts about the coordination document and the operations on it, and     *)
(* what the planner of packages/core/src/plan.ts decides, for every set of *)
(* paths, contents and devices: which manifest a device reads, what every  *)
(* operation publishes, that it can be read again, and what a plan does.   *)
(***************************************************************************)
EXTENDS Planner, TLAPS, WellFoundedInduction, SequenceTheorems

---------------------------------------------------------------------------
(* Least and greatest elements of sets of naturals.                        *)

(***************************************************************************)
(* A set of naturals that is not empty has a least element.                *)
(***************************************************************************)
LEMMA LeastNatural ==
    ASSUME NEW S \in SUBSET Nat, S # {}
    PROVE  \E x \in S : \A y \in S : x <= y
<1>1. PICK x \in S : \A y \in S : ~(<<y, x>> \in OpToRel(<, Nat))
  <2>1. S \subseteq Nat
    OBVIOUS
  <2> QED
    BY NatLessThanWellFounded, <2>1, WFMin
<1>2. ASSUME NEW y \in S
      PROVE  x <= y
  <2>1. x \in Nat /\ y \in Nat
    OBVIOUS
  <2>2. ~(y < x)
    BY <1>1, <2>1 DEF OpToRel
  <2> QED
    BY <2>1, <2>2
<1> QED
  BY <1>2

(***************************************************************************)
(* A bounded set of naturals that is not empty has a greatest element.     *)
(***************************************************************************)
LEMMA GreatestNatural ==
    ASSUME NEW S \in SUBSET Nat, S # {},
           NEW n \in Nat, \A x \in S : x <= n
    PROVE  \E x \in S : \A y \in S : y <= x
<1> DEFINE Below == {n - x : x \in S}
<1>1. Below \in SUBSET Nat /\ Below # {}
  <2>1. \A x \in S : n - x \in Nat
    OBVIOUS
  <2> QED
    BY <2>1
<1>2. PICK b \in Below : \A c \in Below : b <= c
  BY <1>1, LeastNatural
<1>3. PICK x \in S : b = n - x
  OBVIOUS
<1>4. ASSUME NEW y \in S
      PROVE  y <= x
  <2>1. n - x <= n - y
    BY <1>2, <1>3
  <2> QED
    BY <2>1
<1> QED
  BY <1>4

---------------------------------------------------------------------------
(* Which manifest a device reads.                                          *)

(***************************************************************************)
(* readRemote: whatever forks the storage holds, every device selects one  *)
(* of its manifests, of the highest generation, written by the smallest    *)
(* device id of that generation (remote.ts, listWinners and readRemote).   *)
(***************************************************************************)
THEOREM TopIsWinner ==
    ASSUME NEW store, store # {},
           NEW n \in Nat,
           \A m \in store : m.gen \in Nat /\ m.gen <= n /\ m.dev \in Device
    PROVE  /\ Top(store) \in store
           /\ \A g \in Gens(store) : g <= Top(store).gen
           /\ IsWinner(store, Top(store))
<1>1. PICK g \in Gens(store) : \A f \in Gens(store) : f <= g
  <2>1. Gens(store) \in SUBSET Nat /\ Gens(store) # {}
    BY DEF Gens
  <2>2. \A f \in Gens(store) : f <= n
    BY DEF Gens
  <2> QED
    BY <2>1, <2>2, GreatestNatural
<1> DEFINE Devs == {m.dev : m \in Rivals(store, g)}
<1>2. Devs \in SUBSET Nat /\ Devs # {}
  BY DeviceAssumption DEF Rivals, Gens
<1>3. PICK e \in Devs : \A f \in Devs : e <= f
  BY <1>2, LeastNatural
<1>4. PICK m \in Rivals(store, g) : m.dev = e
  OBVIOUS
<1>5. m \in store /\ m.gen = g
  BY DEF Rivals
<1>6. IsWinner(store, m)
  BY <1>3, <1>4, <1>5 DEF IsWinner
<1>7. \E w \in store : /\ \A f \in Gens(store) : f <= w.gen
                       /\ IsWinner(store, w)
  BY <1>1, <1>5, <1>6
<1> QED
  BY <1>7 DEF Top
---------------------------------------------------------------------------
(* Types.                                                                  *)

(***************************************************************************)
(* A prefix of a sequence is a sequence over the same set.                 *)
(***************************************************************************)
LEMMA PrefixType ==
    ASSUME NEW S, NEW s \in Seq(S), NEW k \in Nat, k <= Len(s)
    PROVE  SubSeq(s, 1, k) \in Seq(S)
<1>1. \A i \in 1..k : s[i] \in S
  <2>1. ASSUME NEW i \in 1..k
        PROVE  s[i] \in S
    <3>1. i \in 1..Len(s)
      OBVIOUS
    <3> QED
      BY <3>1, ElementOfSeq
  <2> QED
    BY <2>1
<1> QED
  BY <1>1, SubSeqProperties

(***************************************************************************)
(* A history stays a sequence of contents: retain never rotates an absent  *)
(* file into it (apply.ts, buildNextManifest).                             *)
(***************************************************************************)
LEMMA RetainType ==
    ASSUME NEW history \in Seq(Hash), NEW prior \in Hash \cup {Absent},
           NEW keep \in Nat
    PROVE  Retain(history, prior, keep) \in Seq(Hash)
<1>1. CASE prior = Absent
  BY <1>1 DEF Retain
<1>2. CASE prior # Absent
  <2> DEFINE longer == <<prior>> \o history
             depth == IF keep > Len(history) THEN keep ELSE Len(history)
             k == IF depth < Len(longer) THEN depth ELSE Len(longer)
  <2>1. longer \in Seq(Hash)
    BY <1>2
  <2>2. k \in Nat /\ k <= Len(longer)
    BY <2>1
  <2>3. SubSeq(longer, 1, k) \in Seq(Hash)
    BY <2>1, <2>2, PrefixType
  <2> QED
    BY <2>3 DEF Retain
<1> QED
  BY <1>1, <1>2

(***************************************************************************)
(* What an operation builds on: a manifest's content, or nothing.          *)
(***************************************************************************)
LEMMA OnTopOfType ==
    ASSUME NEW m \in MaybeManifest
    PROVE  /\ OnTopOf(m).files \in [Path -> Hash \cup {Absent}]
           /\ OnTopOf(m).tombs \in [Path -> Tombstone \cup {Absent}]
           /\ OnTopOf(m).history \in [Path -> Seq(Hash)]
           /\ OnTopOf(m).forgotten \in SUBSET Hash
           /\ OnTopOf(m).markers \in [Path -> Nat]
           /\ GenOf(m) \in Nat
<1>1. CASE m = NoManifest
  BY <1>1 DEF OnTopOf, Blank, GenOf
<1>2. CASE m # NoManifest
  BY <1>2 DEF OnTopOf, GenOf, MaybeManifest, Manifest
<1> QED
  BY <1>1, <1>2

(***************************************************************************)
(* stampLineage makes a body a manifest, with a line of ids in front of    *)
(* its parent's (remote.ts).                                               *)
(***************************************************************************)
LEMMA StampedType ==
    ASSUME NEW b \in Body, NEW parent \in MaybeManifest
    PROVE  Stamped(b, parent) \in Manifest
<1> DEFINE line == IF parent = NoManifest THEN <<>>
                   ELSE <<parent.id>> \o parent.anc
           k == IF Len(line) < LineageDepth THEN Len(line) ELSE LineageDepth
<1>1. line \in Seq(Body)
  <2>1. parent # NoManifest => parent.id \in Body /\ parent.anc \in Seq(Body)
    BY DEF MaybeManifest, Manifest
  <2> QED
    BY <2>1
<1>2. k \in Nat /\ k <= Len(line)
  BY <1>1, LineageAssumption
<1>3. SubSeq(line, 1, k) \in Seq(Body)
  BY <1>1, <1>2, PrefixType
<1> QED
  BY <1>3 DEF Stamped, Body, Manifest

(***************************************************************************)
(* Fields of the right types make a body.                                  *)
(***************************************************************************)
LEMMA BodyType ==
    ASSUME NEW gen \in Nat, NEW dev \in Device,
           NEW files \in [Path -> Hash \cup {Absent}],
           NEW tombs \in [Path -> Tombstone \cup {Absent}],
           NEW history \in [Path -> Seq(Hash)],
           NEW forgotten \in SUBSET Hash, NEW markers \in [Path -> Nat]
    PROVE  [gen |-> gen, dev |-> dev, files |-> files, tombs |-> tombs,
            history |-> history, forgotten |-> forgotten, markers |-> markers] \in Body
  BY DEF Body

(***************************************************************************)
(* A push publishes a body: files, tombstones and histories of the right   *)
(* types, whatever expires (apply.ts, buildNextManifest).                  *)
(***************************************************************************)
LEMMA BuildNextType ==
    ASSUME NEW parent \in MaybeManifest, NEW gen \in Nat, NEW dev \in Device,
           NEW uploaded \in [Path -> Hash \cup {Absent}],
           NEW tombstoned \in SUBSET Path,
           NEW keep \in Nat, NEW now \in Nat, NEW grace \in Nat
    PROVE  BuildNext(parent, gen, dev, uploaded, tombstoned, keep, now, grace) \in Body
<1> DEFINE old == OnTopOf(parent)
           next == BuildNext(parent, gen, dev, uploaded, tombstoned, keep, now, grace)
           tombs == NextTombs(old, dev, uploaded, tombstoned, now)
<1>1. /\ old.files \in [Path -> Hash \cup {Absent}]
      /\ old.tombs \in [Path -> Tombstone \cup {Absent}]
      /\ old.history \in [Path -> Seq(Hash)]
      /\ old.forgotten \in SUBSET Hash
      /\ old.markers \in [Path -> Nat]
  BY OnTopOfType
<1>2. tombs \in [Path -> Tombstone \cup {Absent}]
  BY <1>1 DEF NextTombs, Tombstone
<1>3. \A p \in Path : Retain(old.history[p], old.files[p], keep) \in Seq(Hash)
  BY <1>1, RetainType
<1>4. next.files \in [Path -> Hash \cup {Absent}]
  BY <1>1 DEF BuildNext
<1>5. next.tombs \in [Path -> Tombstone \cup {Absent}]
  BY <1>2 DEF BuildNext
<1>6. next.history \in [Path -> Seq(Hash)]
  BY <1>1, <1>3 DEF BuildNext
<1>7. next.forgotten \in SUBSET Hash /\ next.markers \in [Path -> Nat]
  BY <1>1 DEF BuildNext
<1>8. next = [gen |-> gen, dev |-> dev, files |-> next.files, tombs |-> next.tombs,
              history |-> next.history, forgotten |-> next.forgotten,
              markers |-> next.markers]
  BY DEF BuildNext
<1> HIDE DEF next
<1>9. [gen |-> gen, dev |-> dev, files |-> next.files, tombs |-> next.tombs,
       history |-> next.history, forgotten |-> next.forgotten,
       markers |-> next.markers] \in Body
  BY <1>4, <1>5, <1>6, <1>7, BodyType
<1>10. next \in Body
  BY <1>8, <1>9, Zenon
<1> QED
  BY <1>10 DEF next

(***************************************************************************)
(* Forgetting publishes a body, and only contents are kept (engine.ts,     *)
(* forgetPaths).                                                           *)
(***************************************************************************)
LEMMA ForgetNextType ==
    ASSUME NEW parent \in Manifest, NEW gen \in Nat, NEW dev \in Device,
           NEW gone \in SUBSET {p \in Path : parent.files[p] # Absent}
    PROVE  ForgetNext(parent, gen, dev, gone) \in Body
<1>1. /\ parent.files \in [Path -> Hash \cup {Absent}]
      /\ parent.tombs \in [Path -> Tombstone \cup {Absent}]
      /\ parent.history \in [Path -> Seq(Hash)]
      /\ parent.forgotten \in SUBSET Hash
      /\ parent.markers \in [Path -> Nat]
  BY DEF Manifest
<1>2. \A p \in Path : \A i \in DOMAIN parent.history[p] : parent.history[p][i] \in Hash
  <2>1. ASSUME NEW s \in Seq(Hash), NEW i \in DOMAIN s
        PROVE  s[i] \in Hash
    BY ElementOfSeq
  <2> QED
    BY <1>1, <2>1
<1>3. \A p \in gone : parent.files[p] \in Hash
  BY <1>1
<1>4. UNION {{parent.history[p][i] : i \in DOMAIN parent.history[p]} : p \in gone}
        \in SUBSET Hash
  BY <1>2
<1>5. {parent.files[p] : p \in gone} \in SUBSET Hash
  BY <1>3
<1> DEFINE next == ForgetNext(parent, gen, dev, gone)
<1>6. next.forgotten \in SUBSET Hash
  BY <1>1, <1>4, <1>5 DEF ForgetNext
<1>7. /\ next.files \in [Path -> Hash \cup {Absent}]
      /\ next.tombs \in [Path -> Tombstone \cup {Absent}]
      /\ next.history \in [Path -> Seq(Hash)]
      /\ next.markers \in [Path -> Nat]
  BY <1>1 DEF ForgetNext
<1>8. next = [gen |-> gen, dev |-> dev, files |-> next.files, tombs |-> next.tombs,
              history |-> next.history, forgotten |-> next.forgotten,
              markers |-> next.markers]
  BY DEF ForgetNext
<1> HIDE DEF next
<1>9. [gen |-> gen, dev |-> dev, files |-> next.files, tombs |-> next.tombs,
       history |-> next.history, forgotten |-> next.forgotten,
       markers |-> next.markers] \in Body
  BY <1>6, <1>7, BodyType
<1>10. next \in Body
  BY <1>8, <1>9, Zenon
<1> QED
  BY <1>10 DEF next

(***************************************************************************)
(* Releasing publishes a body (engine.ts, releaseForgotten).               *)
(***************************************************************************)
LEMMA ReleaseNextType ==
    ASSUME NEW parent \in Manifest, NEW gen \in Nat, NEW dev \in Device
    PROVE  ReleaseNext(parent, gen, dev) \in Body
<1>1. /\ parent.files \in [Path -> Hash \cup {Absent}]
      /\ parent.tombs \in [Path -> Tombstone \cup {Absent}]
      /\ parent.history \in [Path -> Seq(Hash)]
      /\ parent.markers \in [Path -> Nat]
  BY DEF Manifest
<1> QED
  BY <1>1 DEF ReleaseNext, Body

(***************************************************************************)
(* Replacing the files of a manifest leaves a manifest: the shape of every *)
(* base a device adopts.                                                   *)
(***************************************************************************)
LEMMA ReplacedFilesType ==
    ASSUME NEW m \in Manifest, NEW files \in [Path -> Hash \cup {Absent}]
    PROVE  [m EXCEPT !.files = files] \in Manifest
  BY DEF Manifest

(***************************************************************************)
(* A base is a manifest, however it was adopted, filtered, restored or     *)
(* found to stand (engine.ts, adoptBase, loadStateOnce, baseFor).          *)
(***************************************************************************)
LEMMA AdoptPulledType ==
    ASSUME NEW remote \in Manifest, NEW planned \in MaybeManifest,
           NEW held \in SUBSET Path, NEW carried \in SUBSET Path
    PROVE  AdoptPulled(remote, planned, held, carried) \in Manifest
<1>1. FilesOf(planned) \in [Path -> Hash \cup {Absent}]
  BY OnTopOfType DEF FilesOf
<1>2. remote.files \in [Path -> Hash \cup {Absent}]
  BY DEF Manifest
<1> QED
  BY <1>1, <1>2, ReplacedFilesType DEF AdoptPulled

\* The base adopted after a publication is a manifest.
LEMMA AdoptPublishedType ==
    ASSUME NEW next \in Manifest, NEW planned \in MaybeManifest,
           NEW changed \in SUBSET Path, NEW carried \in SUBSET Path
    PROVE  AdoptPublished(next, planned, changed, carried) \in Manifest
<1>1. FilesOf(planned) \in [Path -> Hash \cup {Absent}]
  BY OnTopOfType DEF FilesOf
<1>2. next.files \in [Path -> Hash \cup {Absent}]
  BY DEF Manifest
<1> QED
  BY <1>1, <1>2, ReplacedFilesType DEF AdoptPublished

\* What a restart makes of a saved base is a base.
LEMMA LoadedType ==
    ASSUME NEW m \in MaybeManifest, NEW carried \in SUBSET Path
    PROVE  Loaded(m, carried) \in MaybeManifest
<1>1. CASE m = NoManifest
  BY <1>1 DEF Loaded, MaybeManifest
<1>2. CASE m # NoManifest
  <2>1. m \in Manifest /\ m.files \in [Path -> Hash \cup {Absent}]
    BY <1>2 DEF MaybeManifest, Manifest
  <2>2. [m EXCEPT !.files = [p \in Path |-> IF p \in carried THEN m.files[p] ELSE Absent]]
          \in Manifest
    BY <2>1, ReplacedFilesType
  <2> QED
    BY <1>2, <2>2 DEF Loaded, MaybeManifest
<1> QED
  BY <1>1, <1>2

\* The base an operation plans against is a base.
LEMMA BaseForType ==
    ASSUME NEW b \in MaybeManifest, NEW store
    PROVE  BaseFor(b, store) \in MaybeManifest
<1>1. CASE b = NoManifest
  BY <1>1 DEF BaseFor, MaybeManifest
<1>2. CASE b # NoManifest
  <2>1. b \in Manifest /\ b.files \in [Path -> Hash \cup {Absent}]
    BY <1>2 DEF MaybeManifest, Manifest
  <2>2. WithoutForgotten(b, Top(store)) \in Manifest
    BY <2>1, ReplacedFilesType DEF WithoutForgotten
  <2>3. BaseFor(b, store) \in {b, NoManifest, WithoutForgotten(b, Top(store))}
    BY DEF BaseFor
  <2> QED
    BY <2>1, <2>2, <2>3 DEF MaybeManifest
<1> QED
  BY <1>1, <1>2

---------------------------------------------------------------------------
(* Every operation publishes what parseManifest accepts.                   *)

(***************************************************************************)
(* A push on top of a readable manifest publishes a readable manifest: a   *)
(* deletion takes the file out, an upload takes the tombstone away, and no *)
(* expiry brings either back (apply.ts, buildNextManifest).                *)
(***************************************************************************)
LEMMA BuildNextParses ==
    ASSUME NEW parent, parent = NoManifest \/ Parses(parent),
           NEW gen, NEW dev, NEW uploaded, NEW tombstoned, NEW keep, NEW now, NEW grace
    PROVE  Parses(BuildNext(parent, gen, dev, uploaded, tombstoned, keep, now, grace))
<1> DEFINE old == OnTopOf(parent)
           next == BuildNext(parent, gen, dev, uploaded, tombstoned, keep, now, grace)
<1>1. \A p \in Path : old.files[p] = Absent \/ old.tombs[p] = Absent
  BY DEF OnTopOf, Blank, Parses
<1>2. \A p \in Path : next.files[p] = IF p \in tombstoned THEN Absent
                                    ELSE IF uploaded[p] # Absent THEN uploaded[p]
                                    ELSE old.files[p]
  BY DEF BuildNext
<1>3. \A p \in Path : next.tombs[p] \in {Absent, NextTombs(old, dev, uploaded, tombstoned, now)[p]}
  BY DEF BuildNext
<1>4. ASSUME NEW p \in Path, p \notin tombstoned, next.files[p] # Absent
      PROVE  NextTombs(old, dev, uploaded, tombstoned, now)[p] = Absent
  BY <1>1, <1>2, <1>4 DEF NextTombs
<1> QED
  BY <1>2, <1>3, <1>4 DEF Parses

(***************************************************************************)
(* Forgetting only takes files out, and releasing touches neither files    *)
(* nor tombstones, so both keep a readable manifest readable.              *)
(***************************************************************************)
LEMMA ForgetNextParses ==
    ASSUME NEW parent, Parses(parent), NEW gen, NEW dev, NEW gone
    PROVE  Parses(ForgetNext(parent, gen, dev, gone))
  BY DEF Parses, ForgetNext

\* Letting kept objects go leaves a readable manifest.
LEMMA ReleaseNextParses ==
    ASSUME NEW parent, Parses(parent), NEW gen, NEW dev
    PROVE  Parses(ReleaseNext(parent, gen, dev))
  BY DEF Parses, ReleaseNext

(***************************************************************************)
(* Stamping the lineage leaves the content as it is.                       *)
(***************************************************************************)
LEMMA StampedParses ==
    ASSUME NEW b, Parses(b), NEW parent
    PROVE  Parses(Stamped(b, parent))
  BY DEF Parses, Stamped

---------------------------------------------------------------------------
(* The planner.                                                            *)

\* What a scan reports of a path, and what a manifest does.
LocalSide == Hash \cup {Absent}
ManifestSide == Hash \cup {Absent, Tombstoned}

\* No file is no file, whether a deletion of it was recorded or not.
Same(x, y) == x = y \/ (~Live(x) /\ ~Live(y))

(***************************************************************************)
(* The three-way merge the decision table amounts to: agreement needs      *)
(* nothing; a path the storage says nothing of is published; a change made *)
(* on one side only is carried to the other; anything else is a conflict.  *)
(***************************************************************************)
ThreeWay(l, b, r) ==
    IF Same(l, r) THEN "none"
    ELSE IF r = Absent THEN "upload"
    ELSE IF Same(b, l) THEN (IF Live(r) THEN "download" ELSE "deleteLocal")
    ELSE IF b = r THEN (IF Live(l) THEN "upload" ELSE "deleteRemote")
    ELSE "conflict"

---------------------------------------------------------------------------

(***************************************************************************)
(* The sides of a path are told apart: a content is live, the marks of an  *)
(* absent and of a deleted file are not (plan.ts, SideState).              *)
(***************************************************************************)
LEMMA LiveSides ==
    /\ \A x \in ManifestSide : Live(x) <=> x \notin {Absent, Tombstoned}
    /\ LocalSide \subseteq ManifestSide
    /\ \A x \in LocalSide : ~Live(x) <=> x = Absent
    /\ \A x \in LocalSide : x # Tombstoned
  BY MarkAssumption DEF Live, LocalSide, ManifestSide

(***************************************************************************)
(* The decision table of classify, row by row, is a three-way merge: no    *)
(* combination of states is left out and none is decided twice.            *)
(***************************************************************************)
THEOREM ClassifyIsThreeWay ==
    ASSUME NEW l \in LocalSide, NEW b \in ManifestSide, NEW r \in ManifestSide
    PROVE  Classify(l, b, r) = ThreeWay(l, b, r)
<1>1. CASE ~Live(l) /\ ~Live(r)
  BY <1>1 DEF Classify, ThreeWay, Same
<1>2. CASE ~Live(l) /\ Live(r)
  <2>1. /\ l = Absent /\ r # Absent /\ l # r /\ ~Same(l, r)
    BY <1>2, LiveSides, MarkAssumption DEF Same, Live
  <2>2. CASE ~Live(b)
    BY <1>2, <2>1, <2>2 DEF Classify, ThreeWay, Same
  <2>3. CASE Live(b) /\ b = r
    BY <1>2, <2>1, <2>3 DEF Classify, ThreeWay, Same
  <2>4. CASE Live(b) /\ b # r
    <3>1. b # l /\ ~Same(b, l)
      BY <1>2, <2>4 DEF Same
    <3> QED
      BY <1>2, <2>1, <2>4, <3>1 DEF Classify, ThreeWay
  <2> QED
    BY <2>2, <2>3, <2>4
<1>3. CASE Live(l) /\ Live(r)
  <2>1. r # Absent /\ r # Tombstoned
    BY <1>3, LiveSides
  <2>2. CASE l = r
    BY <1>3, <2>1, <2>2 DEF Classify, ThreeWay, Same
  <2>3. CASE l # r /\ ~Live(b)
    BY <1>3, <2>1, <2>3 DEF Classify, ThreeWay, Same
  <2>4. CASE l # r /\ Live(b) /\ b = r
    BY <1>3, <2>1, <2>4 DEF Classify, ThreeWay, Same
  <2>5. CASE l # r /\ Live(b) /\ b # r
    BY <1>3, <2>1, <2>5 DEF Classify, ThreeWay, Same
  <2> QED
    BY <2>2, <2>3, <2>4, <2>5
<1>4. CASE Live(l) /\ ~Live(r)
  <2>1. l # r /\ ~Same(l, r)
    BY <1>4 DEF Same
  <2>2. CASE r = Absent
    <3>1. r # Tombstoned
      BY <2>2, MarkAssumption
    <3> QED
      BY <1>4, <2>1, <2>2, <3>1 DEF Classify, ThreeWay
  <2>3. CASE r = Tombstoned
    <3>1. r # Absent
      BY <2>3, MarkAssumption
    <3>2. Same(b, l) <=> b = l
      BY <1>4 DEF Same
    <3>3. b = Tombstoned => b # l
      BY <1>4, <2>3
    <3> QED
      BY <1>4, <2>1, <2>3, <3>1, <3>2, <3>3 DEF Classify, ThreeWay
  <2>4. r = Absent \/ r = Tombstoned
    BY <1>4, LiveSides
  <2> QED
    BY <2>2, <2>3, <2>4
<1> QED
  BY <1>1, <1>2, <1>3, <1>4

(***************************************************************************)
(* Nothing is replaced or removed, on either side, unless what it replaces *)
(* is what this device last synced: an update lands on an unedited file, a *)
(* deletion removes an unedited one, and a push over the storage's version *)
(* is over the version this device knows (plan.ts, classify).              *)
(***************************************************************************)
THEOREM ReplacesOnlyWhatWasSynced ==
    ASSUME NEW l \in LocalSide, NEW b \in ManifestSide, NEW r \in ManifestSide
    PROVE  /\ Classify(l, b, r) = "download" /\ l # Absent => b = l
           /\ Classify(l, b, r) = "deleteLocal" => b = l /\ r = Tombstoned
           /\ Classify(l, b, r) = "deleteRemote" => b = r /\ l = Absent
           /\ Classify(l, b, r) = "upload" /\ Live(r) => b = r
<1>1. Classify(l, b, r) = ThreeWay(l, b, r)
  BY ClassifyIsThreeWay
<1>2. ThreeWay(l, b, r) = "download" /\ l # Absent => b = l
  BY LiveSides DEF ThreeWay, Same
<1>3. ThreeWay(l, b, r) = "deleteLocal" => b = l /\ r = Tombstoned
  <2>1. SUFFICES ASSUME ThreeWay(l, b, r) = "deleteLocal"
                 PROVE  b = l /\ r = Tombstoned
    OBVIOUS
  <2>2. ~Same(l, r) /\ r # Absent /\ Same(b, l) /\ ~Live(r)
    BY <2>1 DEF ThreeWay
  <2>3. Live(l) /\ r = Tombstoned
    BY <2>2, LiveSides DEF Same
  <2> QED
    BY <2>2, <2>3 DEF Same
<1>4. ThreeWay(l, b, r) = "deleteRemote" => b = r /\ l = Absent
  BY LiveSides DEF ThreeWay
<1>5. ThreeWay(l, b, r) = "upload" /\ Live(r) => b = r
  BY LiveSides DEF ThreeWay
<1> QED
  BY <1>1, <1>2, <1>3, <1>4, <1>5

(***************************************************************************)
(* A manifest records of a path a content, a deletion or nothing.          *)
(***************************************************************************)
LEMMA SideOfType ==
    ASSUME NEW m \in MaybeManifest, NEW p \in Path
    PROVE  SideOf(m, p) \in ManifestSide
<1>1. CASE m = NoManifest
  BY <1>1 DEF SideOf, ManifestSide
<1>2. CASE m # NoManifest
  BY <1>2 DEF SideOf, ManifestSide, MaybeManifest, Manifest
<1> QED
  BY <1>1, <1>2

(***************************************************************************)
(* A plan consists of operations of the five kinds, each at a path of the  *)
(* vault, with what the scan found there.                                  *)
(***************************************************************************)
LEMMA PlanOpsType ==
    ASSUME NEW local \in [Path -> LocalSide], NEW b \in MaybeManifest,
           NEW remote \in MaybeManifest, NEW syncable,
           NEW op \in PlanOps(local, b, remote, syncable)
    PROVE  op \in [path : Path, kind : PullKinds \cup PushKinds, local : LocalSide]
<1>1. PICK p \in Path : op = Operation(local, b, remote, p)
  BY DEF PlanOps, Operations
<1>2. op.kind # "none"
  BY DEF PlanOps
<1> DEFINE kind == Classify(local[p], SideOf(b, p), SideOf(remote, p))
<1>3. kind = ThreeWay(local[p], SideOf(b, p), SideOf(remote, p))
  BY SideOfType, ClassifyIsThreeWay
<1>4. kind \in PullKinds \cup PushKinds \cup {"none"}
  BY <1>3 DEF ThreeWay, PullKinds, PushKinds
<1>5. op = [path |-> p, local |-> local[p],
            kind |-> IF kind = "download" /\ Collides(local, p) THEN "conflict" ELSE kind]
  BY <1>1 DEF Operation
<1> HIDE DEF kind
<1>6. op.kind \in PullKinds \cup PushKinds
  BY <1>2, <1>4, <1>5 DEF PullKinds
<1> QED
  BY <1>5, <1>6

(***************************************************************************)
(* A device that holds what the storage holds has nothing to do, whatever  *)
(* its base is: no two devices in agreement keep each other syncing.       *)
(***************************************************************************)
THEOREM AgreementIsQuiet ==
    ASSUME NEW local \in [Path -> LocalSide], NEW b \in MaybeManifest,
           NEW remote \in MaybeManifest, NEW syncable,
           \A p \in Path : local[p] # Absent \/ p \in syncable
                            => local[p] = FilesOf(remote)[p]
    PROVE  PlanOps(local, b, remote, syncable) = {}
<1> SUFFICES ASSUME NEW p \in Path, local[p] = FilesOf(remote)[p]
             PROVE  Operation(local, b, remote, p).kind = "none"
  BY DEF PlanOps, Operations
<1>1. Same(local[p], SideOf(remote, p))
  <2>1. CASE local[p] = Absent
    <3>1. SideOf(remote, p) \in {Absent, Tombstoned}
      BY <2>1 DEF SideOf, FilesOf, OnTopOf
    <3> QED
      BY <2>1, <3>1, MarkAssumption DEF Same, Live
  <2>2. CASE local[p] # Absent
    <3>1. SideOf(remote, p) = local[p]
      BY <2>2 DEF SideOf, FilesOf, OnTopOf, Blank
    <3> QED
      BY <3>1 DEF Same
  <2> QED
    BY <2>1, <2>2
<1>2. Classify(local[p], SideOf(b, p), SideOf(remote, p))
        = ThreeWay(local[p], SideOf(b, p), SideOf(remote, p))
  BY SideOfType, ClassifyIsThreeWay
<1>3. Classify(local[p], SideOf(b, p), SideOf(remote, p)) = "none"
  BY <1>1, <1>2 DEF ThreeWay
<1> QED
  BY <1>3 DEF Operation
=============================================================================

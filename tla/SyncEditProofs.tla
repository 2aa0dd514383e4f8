--------------------------- MODULE SyncEditProofs ---------------------------
(***************************************************************************)
(* What SyncEngine promises its users: no edit is lost, and no file goes   *)
(* without a user who deleted it.                                          *)
(***************************************************************************)
EXTENDS SyncHistoryProofs

---------------------------------------------------------------------------
(* What may leave a file, and what follows for lines of descent, bases and *)
(* jobs if nothing else does.                                              *)

(***************************************************************************)
(* A content may leave a file once a user has overwritten or deleted it,   *)
(* or once it stands as a conflicted copy: the engine removes no copy.     *)
(***************************************************************************)
GivenUp == superseded \cup UNION {copies[d] : d \in Device}

\* A content that was `old` here is `new` here now: the same, or given up.
Stays(gone, old, new) == old \in Hash => old \in gone \/ new = old

(***************************************************************************)
(* A manifest knows its ancestors by generation as far as its lineage      *)
(* goes, and what one of them named at a path it still names there, unless *)
(* that was given up or the path has been forgotten since.                 *)
(***************************************************************************)
LineSafe(gone, m) ==
    /\ m.gen > 0
    /\ Identified(m)
    /\ Len(m.anc) = IF m.gen - 1 < LineageDepth THEN m.gen - 1 ELSE LineageDepth
    /\ \A i \in DOMAIN m.anc :
         /\ m.anc[i].gen = m.gen - i
         /\ \A p \in Path : \/ Stays(gone, m.anc[i].files[p], m.files[p])
                            \/ m.markers[p] > m.anc[i].gen

(***************************************************************************)
(* What a base vouches for is in the manifest it is the base of, and in    *)
(* the vault `mine` of its device: an entry a held path has kept from      *)
(* earlier is no exception.                                                *)
(***************************************************************************)
BaseSafe(gone, mine, b) ==
    b # NoManifest =>
        /\ b.gen > 0
        /\ \A p \in Path : /\ Stays(gone, b.files[p], b.id.files[p])
                           /\ Stays(gone, b.files[p], mine[p])

(***************************************************************************)
(* A job replaces only what was given up, here and in the storage; a pull  *)
(* has, or will have before it ends, what its manifest names; a push       *)
(* adopts what is here.                                                    *)
(***************************************************************************)
PlanSafe(gone, mine, planned, remote) ==
    \A p \in Path : /\ Stays(gone, FilesOf(planned)[p], mine[p])
                    /\ Stays(gone, FilesOf(planned)[p], FilesOf(remote)[p])

TodoSafe(gone, remote, todo) ==
    \A op \in todo :
        /\ op.kind \in {"download", "deleteLocal"} => op.local \in gone \cup {Absent}
        /\ op.kind \in PushKinds => FilesOf(remote)[op.path] \in gone \cup {Absent}

PullSafe(gone, mine, carried, j) ==
    \A p \in carried \ j.held :
        \/ Stays(gone, FilesOf(j.remote)[p], mine[p])
        \/ \E op \in j.todo : op.path = p /\ op.kind \in {"download", "conflict"}

NextSafe(gone, mine, j) ==
    /\ LineSafe(gone, j.next)
    /\ \A p \in Path : IF p \in j.changed
                       THEN Stays(gone, j.next.files[p], mine[p])
                       ELSE Stays(gone, FilesOf(j.planned)[p], j.next.files[p])

JobSafe(gone, mine, carried, j) ==
    /\ j.remote # NoManifest => LineSafe(gone, j.remote)
    /\ PlanSafe(gone, mine, j.planned, j.remote)
    /\ TodoSafe(gone, j.remote, j.todo)
    /\ j.phase = "pull" => PullSafe(gone, mine, carried, j)
    /\ j.phase \in {"ready", "published"} => NextSafe(gone, mine, j)

DeviceSafe(gone, mine, carried, b, s, j) ==
    /\ BaseSafe(gone, mine, b)
    /\ BaseSafe(gone, mine, s)
    /\ JobSafe(gone, mine, carried, j)

AllSafe ==
    /\ authored \subseteq GivenUp \cup Visible
    /\ \A m \in store : LineSafe(GivenUp, m)
    /\ \A d \in Device :
         DeviceSafe(GivenUp, vault[d], profile[d], base[d], saved[d], job[d])

(***************************************************************************)
(* The lineage of the top manifest reaches every base.  Beyond it a base   *)
(* is judged by who owns its generation, and that can be wrong.            *)
(***************************************************************************)
InReach ==
    \A d \in Device : base[d] # NoManifest
                        => GenOf(Top(store)) - base[d].gen <= LineageDepth

---------------------------------------------------------------------------
(* Facts about the parts, for any set of contents given up.                *)

\* What stays twice stays.
LEMMA StaysOn ==
    ASSUME NEW gone, NEW more, gone \subseteq more, NEW a, NEW b, NEW c,
           Stays(gone, a, b), Stays(more, b, c)
    PROVE  Stays(more, a, c)
  BY DEF Stays

\* What was given up stays given up, and the lines of descent are as they were.
LEMMA LineGrows ==
    ASSUME NEW gone, NEW more, gone \subseteq more, NEW m, LineSafe(gone, m)
    PROVE  LineSafe(more, m)
  BY DEF LineSafe, Stays

\* A base is as safe as before while its device's files stay.
LEMMA BaseGrows ==
    ASSUME NEW gone, NEW more, gone \subseteq more, NEW mine, NEW later,
           \A p \in Path : Stays(more, mine[p], later[p]),
           NEW b, BaseSafe(gone, mine, b)
    PROVE  BaseSafe(more, later, b)
  BY DEF BaseSafe, Stays

\* So is a job.
LEMMA JobGrows ==
    ASSUME NEW gone, NEW more, gone \subseteq more, NEW mine, NEW later,
           \A p \in Path : Stays(more, mine[p], later[p]),
           NEW carried \in SUBSET Path, NEW j, JobSafe(gone, mine, carried, j)
    PROVE  JobSafe(more, later, carried, j)
<1>1. j.remote # NoManifest => LineSafe(more, j.remote)
  BY LineGrows DEF JobSafe
<1>2. PlanSafe(more, later, j.planned, j.remote)
  BY DEF JobSafe, PlanSafe, Stays
<1>3. TodoSafe(more, j.remote, j.todo)
  BY DEF JobSafe, TodoSafe
<1>4. j.phase = "pull" => PullSafe(more, later, carried, j)
  BY DEF JobSafe, PullSafe, Stays
<1>5. ASSUME j.phase \in {"ready", "published"}
      PROVE  NextSafe(more, later, j)
  <2>1. LineSafe(gone, j.next) /\ NextSafe(gone, mine, j)
    BY <1>5 DEF JobSafe, NextSafe
  <2>2. LineSafe(more, j.next)
    BY <2>1, LineGrows
  <2> QED
    BY <2>1, <2>2 DEF NextSafe, Stays
<1> QED
  BY <1>1, <1>2, <1>3, <1>4, <1>5 DEF JobSafe

\* No base and no job have nothing to lose.
LEMMA NothingSafe ==
    ASSUME NEW gone, NEW mine, NEW carried
    PROVE  BaseSafe(gone, mine, NoManifest) /\ JobSafe(gone, mine, carried, IdleJob)
<1>1. \A p \in Path : FilesOf(NoManifest)[p] = Absent
  BY DEF FilesOf, OnTopOf, Blank
<1>2. Absent \notin Hash
  BY MarkAssumption
<1> QED
  BY <1>1, <1>2 DEF BaseSafe, JobSafe, PlanSafe, TodoSafe, IdleJob, Stays

\* The first manifest of a vault has no ancestors.
LEMMA FirstOfLine ==
    ASSUME NEW gone, NEW m, m.gen = 1, m.anc = <<>>, Identified(m)
    PROVE  LineSafe(gone, m)
<1>1. Len(m.anc) = 0 /\ DOMAIN m.anc = {} /\ m.gen > 0 /\ m.gen - 1 = 0
  OBVIOUS
<1>2. (IF m.gen - 1 < LineageDepth THEN m.gen - 1 ELSE LineageDepth) = 0
  BY <1>1, LineageAssumption
<1> QED
  BY <1>1, <1>2 DEF LineSafe

(***************************************************************************)
(* A manifest with its parent in front of its parent's ancestors, and at   *)
(* every path what the parent named or what that was given up for, keeps   *)
(* the parent's lines of descent; so it does at a path it has forgotten.   *)
(***************************************************************************)
LEMMA NextOfLine ==
    ASSUME NEW gone, NEW m, NEW n \in Manifest, LineSafe(gone, n), Identified(m),
           m.gen = n.gen + 1, DOMAIN m.anc = 1..Len(m.anc),
           Len(m.anc) = IF n.gen < LineageDepth THEN n.gen ELSE LineageDepth,
           \A i \in DOMAIN m.anc : m.anc[i] = IF i = 1 THEN n.id ELSE n.anc[i - 1],
           \A p \in Path : \/ m.markers[p] = m.gen
                           \/ /\ m.markers[p] = n.markers[p]
                              /\ Stays(gone, n.files[p], m.files[p])
    PROVE  LineSafe(gone, m)
<1>1. n.gen \in Nat /\ n.anc \in Seq(Body) /\ LineageDepth \in Nat \ {0} /\ n.gen > 0
  BY LineageAssumption DEF Manifest, LineSafe
<1>2. n.id.gen = n.gen /\ n.id.files = n.files
  BY DEF LineSafe, Identified, BodyOf
<1>3. ASSUME NEW i \in DOMAIN m.anc
      PROVE  /\ m.anc[i].gen = m.gen - i
             /\ \A p \in Path : \/ Stays(gone, m.anc[i].files[p], m.files[p])
                                \/ m.markers[p] > m.anc[i].gen
  <2>1. i \in Nat /\ i >= 1 /\ i <= Len(m.anc)
    BY <1>1, <1>3
  <2>2. /\ m.anc[i].gen = n.gen + 1 - i
        /\ \A p \in Path : \/ Stays(gone, m.anc[i].files[p], n.files[p])
                           \/ n.markers[p] > m.anc[i].gen
    <3>1. CASE i = 1
      <4>1. m.anc[i] = n.id
        BY <1>3, <3>1
      <4> QED
        BY <1>1, <1>2, <3>1, <4>1 DEF Stays
    <3>2. CASE i # 1
      <4>1. m.anc[i] = n.anc[i - 1]
        BY <1>3, <3>2
      <4>2. i - 1 \in 1..Len(n.anc)
        BY <1>1, <2>1, <3>2 DEF LineSafe
      <4>3. i - 1 \in DOMAIN n.anc
        BY <1>1, <4>2
      <4>4. /\ n.anc[i - 1].gen = n.gen - (i - 1)
            /\ \A p \in Path : \/ Stays(gone, n.anc[i - 1].files[p], n.files[p])
                               \/ n.markers[p] > n.anc[i - 1].gen
        BY <4>3 DEF LineSafe
      <4>5. n.gen - (i - 1) = n.gen + 1 - i
        BY <1>1, <2>1
      <4> QED
        BY <4>1, <4>4, <4>5
    <3> QED
      BY <3>1, <3>2
  <2> DEFINE g == n.gen + 1 - i
  <2>3. m.anc[i].gen = m.gen - i /\ m.gen > m.anc[i].gen
    <3>1. m.gen \in Nat
      BY <1>1
    <3>2. m.gen - i = g /\ m.gen > g
      BY <1>1, <2>1, <3>1
    <3>3. m.anc[i].gen = g
      BY <2>2
    <3> QED
      BY <3>2, <3>3
  <2>4. ASSUME NEW p \in Path
        PROVE  \/ Stays(gone, m.anc[i].files[p], m.files[p])
               \/ m.markers[p] > m.anc[i].gen
    <3>1. CASE m.markers[p] = m.gen
      BY <2>3, <3>1
    <3>2. CASE m.markers[p] = n.markers[p] /\ Stays(gone, n.files[p], m.files[p])
      BY <2>2, <3>2 DEF Stays
    <3> QED
      BY <3>1, <3>2
  <2> QED
    BY <2>3, <2>4
<1>4. m.gen > 0 /\ m.gen - 1 = n.gen
  BY <1>1
<1> QED
  BY <1>3, <1>4 DEF LineSafe

\* So does a publication (manifest.ts: stampLineage).
LEMMA StampedSafe ==
    ASSUME NEW gone, NEW b \in Body, NEW parent \in MaybeManifest,
           parent # NoManifest => LineSafe(gone, parent),
           b.gen = GenOf(parent) + 1,
           \A p \in Path : \/ b.markers[p] = b.gen
                           \/ /\ b.markers[p] = OnTopOf(parent).markers[p]
                              /\ Stays(gone, FilesOf(parent)[p], b.files[p])
    PROVE  LineSafe(gone, Stamped(b, parent))
<1> DEFINE line == IF parent = NoManifest THEN <<>> ELSE <<parent.id>> \o parent.anc
           k == IF Len(line) < LineageDepth THEN Len(line) ELSE LineageDepth
<1>1. PICK m : m = Stamped(b, parent)
  OBVIOUS
<1>2. /\ m.gen = b.gen /\ m.files = b.files /\ m.markers = b.markers /\ Identified(m)
      /\ m.anc = SubSeq(line, 1, k)
  BY <1>1, StampedLine DEF Stamped
<1>3. LineageDepth \in Nat \ {0}
  BY LineageAssumption
<1>4. CASE parent = NoManifest
  <2>1. line = <<>> /\ k = 0 /\ b.gen = 1
    BY <1>3, <1>4 DEF GenOf
  <2>2. SubSeq(line, 1, k) = <<>>
    BY <2>1
  <2> HIDE DEF line, k
  <2>3. m.anc = <<>> /\ m.gen = 1
    BY <1>2, <2>1, <2>2
  <2> QED
    BY <1>1, <1>2, <2>3, FirstOfLine
<1>5. CASE parent # NoManifest
  <2>1. /\ parent \in Manifest /\ parent.id \in Body /\ parent.anc \in Seq(Body)
        /\ parent.gen \in Nat /\ b.gen = parent.gen + 1 /\ parent.gen > 0
        /\ FilesOf(parent) = parent.files /\ OnTopOf(parent).markers = parent.markers
    BY <1>5 DEF MaybeManifest, Manifest, LineSafe, GenOf, FilesOf, OnTopOf
  <2>2. Len(parent.anc) = IF parent.gen - 1 < LineageDepth THEN parent.gen - 1
                                                           ELSE LineageDepth
    BY <1>5 DEF LineSafe
  <2>3. /\ line \in Seq(Body) /\ Len(line) = Len(parent.anc) + 1
        /\ line[1] = parent.id
        /\ \A i \in 2..Len(line) : line[i] = parent.anc[i - 1]
    BY <1>5, <2>1
  <2>4. /\ k \in Nat /\ k <= Len(line)
        /\ k = IF parent.gen < LineageDepth THEN parent.gen ELSE LineageDepth
    BY <1>3, <2>1, <2>2, <2>3
  <2>5. /\ SubSeq(line, 1, k) \in Seq(Body) /\ Len(SubSeq(line, 1, k)) = k
        /\ \A i \in 1..k : SubSeq(line, 1, k)[i] = line[i]
    BY <2>3, <2>4
  <2> HIDE DEF line, k
  <2>6. /\ Len(m.anc) = k /\ DOMAIN m.anc = 1..k
        /\ \A i \in 1..k : m.anc[i] = line[i]
    BY <1>2, <2>5
  <2>7. ASSUME NEW i \in DOMAIN m.anc
        PROVE  m.anc[i] = IF i = 1 THEN parent.id ELSE parent.anc[i - 1]
    <3>1. i \in 1..k /\ m.anc[i] = line[i]
      BY <2>6, <2>7
    <3>2. CASE i = 1
      BY <2>3, <3>1, <3>2
    <3>3. CASE i # 1
      <4>1. Len(line) \in Nat /\ i \in 2..Len(line)
        BY <2>3, <2>4, <3>1, <3>3
      <4>2. line[i] = parent.anc[i - 1]
        BY <2>3, <4>1
      <4> QED
        BY <3>1, <3>3, <4>2
    <3> QED
      BY <3>2, <3>3
  <2>8. /\ m.gen = parent.gen + 1
        /\ \A p \in Path : \/ m.markers[p] = m.gen
                           \/ /\ m.markers[p] = parent.markers[p]
                              /\ Stays(gone, parent.files[p], m.files[p])
    BY <1>2, <2>1
  <2>9. LineSafe(gone, parent)
    BY <1>5
  <2>10. /\ DOMAIN m.anc = 1..Len(m.anc)
         /\ Len(m.anc) = IF parent.gen < LineageDepth THEN parent.gen ELSE LineageDepth
    BY <2>4, <2>6
  <2>11. LineSafe(gone, m)
    BY <1>2, <2>1, <2>7, <2>8, <2>9, <2>10, NextOfLine
  <2> QED
    BY <1>1, <2>11
<1> QED
  BY <1>4, <1>5

(***************************************************************************)
(* What a base passed to the planner vouches for is in the vault and in    *)
(* the top manifest: its manifest is on the top's line of descent, and     *)
(* entries forgotten since have been dropped (engine.ts: baseFor).         *)
(***************************************************************************)
LEMMA PlannedSafe ==
    ASSUME TypeInv, NEW d \in Device, NEW gone, NEW mine,
           BaseSafe(gone, mine, base[d]),
           Top(store) # NoManifest => LineSafe(gone, Top(store)),
           InReach, ~RolledBack(base[d], store)
    PROVE  PlanSafe(gone, mine, Planned(d), Top(store))
<1> DEFINE b == base[d]
           top == Top(store)
           kept(p) == IF b.gen < top.markers[p] /\ top.files[p] # b.files[p]
                      THEN Absent ELSE b.files[p]
           new == [p \in Path |-> kept(p)]
           line == <<top.id>> \o top.anc
           depth == top.gen - b.gen
<1>1. CASE Planned(d) = NoManifest
  <2>1. \A p \in Path : FilesOf(NoManifest)[p] = Absent
    BY DEF FilesOf, OnTopOf, Blank
  <2> QED
    BY <1>1, <2>1, MarkAssumption DEF PlanSafe, Stays
<1>2. CASE Planned(d) # NoManifest
  <2>1. b # NoManifest /\ top # NoManifest
    <3>1. b # NoManifest
      BY <1>2 DEF Planned, BaseFor
    <3>2. b \in Manifest /\ b.gen > 0 /\ b.gen \in Nat
      BY <3>1 DEF TypeInv, TypeOK, MaybeManifest, Manifest, BaseSafe
    <3>3. ~(GenOf(top) < b.gen)
      BY <3>1 DEF RolledBack
    <3> QED
      BY <3>1, <3>2, <3>3 DEF GenOf
  <2>2. /\ b \in Manifest /\ top \in Manifest /\ b.gen > 0 /\ GenOf(top) = top.gen
        /\ b.gen \in Nat /\ top.gen \in Nat /\ LineSafe(gone, top)
        /\ depth \in Nat /\ depth <= LineageDepth /\ depth <= top.gen - 1
        /\ b.files \in [Path -> Hash \cup {Absent}]
    <3>1. b \in Manifest /\ top \in Manifest
      BY <2>1, TopType DEF TypeInv, TypeOK, MaybeManifest
    <3>2. GenOf(top) = top.gen /\ b.gen \in Nat /\ top.gen \in Nat /\ b.gen > 0
      BY <2>1, <3>1 DEF GenOf, Manifest, BaseSafe
    <3>3. ~(top.gen < b.gen) /\ depth <= LineageDepth
      BY <2>1, <3>2 DEF RolledBack, InReach
    <3> QED
      BY <2>1, <3>1, <3>2, <3>3 DEF Manifest
  <2>3. /\ top.anc \in Seq(Body) /\ depth <= Len(top.anc) /\ LineageDepth \in Nat
        /\ Identified(top)
        /\ \A i \in DOMAIN top.anc :
             /\ top.anc[i].gen = top.gen - i
             /\ \A p \in Path : \/ Stays(gone, top.anc[i].files[p], top.files[p])
                                \/ top.markers[p] > top.anc[i].gen
    BY <2>2, LineageAssumption DEF LineSafe, Manifest
  <2>4. /\ Len(line) = Len(top.anc) + 1 /\ line[1] = top.id
        /\ \A i \in 2..Len(line) : line[i] = top.anc[i - 1]
    BY <2>2, <2>3 DEF Manifest
  <2>5. depth >= 0 /\ depth + 1 <= Len(line)
    BY <2>2, <2>3, <2>4
  <2>6. Planned(d) = WithoutForgotten(b, top) /\ line[depth + 1] = b.id
    BY <1>2, <2>1, <2>5, Zenon DEF Planned, BaseFor
  <2>7. ASSUME NEW p \in Path, kept(p) \in Hash
        PROVE  kept(p) \in gone \/ (mine[p] = kept(p) /\ top.files[p] = kept(p))
    <3>1. kept(p) = b.files[p] /\ b.files[p] \in Hash
      BY <2>7, MarkAssumption
    <3>2. \/ b.files[p] \in gone
          \/ mine[p] = b.files[p] /\ b.id.files[p] = b.files[p]
      BY <2>1, <3>1 DEF BaseSafe, Stays
    <3>3. ASSUME b.files[p] \notin gone
          PROVE  top.files[p] = b.files[p]
      <4>1. b.id.files[p] = b.files[p]
        BY <3>2, <3>3
      <4>2. CASE depth = 0
        <5>1. top.id = b.id
          BY <2>4, <2>6, <4>2
        <5> QED
          BY <2>3, <4>1, <5>1 DEF Identified, BodyOf
      <4>3. CASE depth # 0
        <5>1. /\ depth + 1 \in 2..Len(line) /\ depth \in DOMAIN top.anc
              /\ depth + 1 - 1 = depth /\ top.gen - depth = b.gen
          BY <2>2, <2>3, <2>5, <4>3
        <5>2. top.anc[depth] = b.id
          BY <2>4, <2>6, <5>1
        <5>3. \/ Stays(gone, b.files[p], top.files[p])
              \/ top.markers[p] > b.gen
          BY <2>3, <4>1, <5>1, <5>2
        <5>4. CASE Stays(gone, b.files[p], top.files[p])
          BY <3>1, <3>3, <5>4 DEF Stays
        <5>5. CASE top.markers[p] > b.gen
          <6>1. top.markers[p] \in Nat
            BY <2>2 DEF Manifest
          <6>2. b.gen < top.markers[p]
            BY <2>2, <5>5, <6>1
          <6> QED
            BY <3>1, <6>2, MarkAssumption
        <5> QED
          BY <5>3, <5>4, <5>5
      <4> QED
        BY <4>2, <4>3
    <3> QED
      BY <3>1, <3>2, <3>3
  <2>8. new \in [Path -> Hash \cup {Absent}] /\ \A p \in Path : new[p] = kept(p)
    BY <2>2
  <2>9. WithoutForgotten(b, top) = [b EXCEPT !.files = new]
    BY DEF WithoutForgotten
  <2> HIDE DEF kept, new, line, depth
  <2>10. FilesOf(Planned(d)) = new
    BY <2>2, <2>6, <2>8, <2>9, ReplacedFiles
  <2>11. FilesOf(top) = top.files
    BY <2>1 DEF FilesOf, OnTopOf
  <2> QED
    BY <2>7, <2>8, <2>10, <2>11 DEF PlanSafe, Stays
<1> QED
  BY <1>1, <1>2

---------------------------------------------------------------------------
(* What a plan replaces was given up.                                      *)

\* What a manifest names at a path, and the side classify sees there.
LEMMA SideFiles ==
    ASSUME NEW m \in MaybeManifest, NEW p \in Path
    PROVE  /\ FilesOf(m)[p] \in Hash \cup {Absent}
           /\ Live(SideOf(m, p)) => SideOf(m, p) = FilesOf(m)[p]
           /\ ~Live(SideOf(m, p)) => FilesOf(m)[p] = Absent
<1>1. CASE m = NoManifest
  BY <1>1, MarkAssumption DEF FilesOf, OnTopOf, Blank, SideOf, Live
<1>2. CASE m # NoManifest
  BY <1>2, MarkAssumption DEF MaybeManifest, Manifest, FilesOf, OnTopOf, SideOf, Live
<1> QED
  BY <1>1, <1>2

\* What each decision of the three-way merge says of the three sides.
LEMMA MergeTakes ==
    ASSUME NEW l \in LocalSide, NEW b \in ManifestSide, NEW r \in ManifestSide
    PROVE  LET kind == ThreeWay(l, b, r)
           IN  /\ kind = "download" => Live(r) /\ l # r /\ (l # Absent => b = l)
               /\ kind = "deleteLocal" => ~Live(r) /\ Live(l) /\ b = l
               /\ kind = "upload" => Live(l) /\ l # r /\ (Live(r) => b = r)
               /\ kind = "deleteRemote" => l = Absent /\ Live(r) /\ b = r
               /\ kind \notin {"download", "conflict"} => ~Live(r) \/ l = r \/ b = r
<1>1. CASE Live(r)
  <2>1. r # Absent /\ r # Tombstoned
    BY <1>1, LiveSides
  <2>2. CASE Live(l)
    BY <1>1, <2>1, <2>2, LiveSides DEF ThreeWay, Same
  <2>3. CASE ~Live(l)
    BY <1>1, <2>1, <2>3, LiveSides DEF ThreeWay, Same
  <2> QED
    BY <2>2, <2>3
<1>2. CASE ~Live(r)
  <2>1. CASE Live(l)
    BY <1>2, <2>1, LiveSides DEF ThreeWay, Same
  <2>2. CASE ~Live(l)
    <3>1. ThreeWay(l, b, r) = "none"
      BY <1>2, <2>2 DEF ThreeWay, Same
    <3> QED
      BY <1>2, <3>1
  <2> QED
    BY <2>1, <2>2
<1> QED
  BY <1>1, <1>2

\* An operation is about a carried file that could be read, as it was then.
LEMMA PlanReads ==
    ASSUME NEW d \in Device, NEW U, NEW op \in PlanFor(d, U)
    PROVE  op.path \in profile[d] \ U /\ op.local = Scan(d, U)[op.path]
<1>1. PICK p \in {q \in Path : Scan(d, U)[q] # Absent \/ q \in profile[d] \ U} :
        op = Operation(Scan(d, U), Planned(d), Top(store), p)
  BY DEF PlanFor, PlanOps, Operations
<1>2. p \in profile[d] \ U
  BY <1>1 DEF Scan
<1> QED
  BY <1>1, <1>2 DEF Operation

(***************************************************************************)
(* An operation replaces or removes what the base vouches for on one side  *)
(* because the other side has moved on from it: it was given up.           *)
(***************************************************************************)
LEMMA PlanTakesGivenUp ==
    ASSUME TypeInv, NEW d \in Device, NEW U \in SUBSET Path, NEW gone,
           PlanSafe(gone, vault[d], Planned(d), Top(store))
    PROVE  TodoSafe(gone, Top(store), PlanFor(d, U))
<1> SUFFICES ASSUME NEW op \in PlanFor(d, U)
             PROVE  /\ op.kind \in {"download", "deleteLocal"}
                         => op.local \in gone \cup {Absent}
                    /\ op.kind \in PushKinds
                         => FilesOf(Top(store))[op.path] \in gone \cup {Absent}
  BY DEF TodoSafe
<1> DEFINE p == op.path
           l == Scan(d, U)[p]
           b == SideOf(Planned(d), p)
           r == SideOf(Top(store), p)
           B == FilesOf(Planned(d))[p]
           R == FilesOf(Top(store))[p]
<1>1. /\ p \in Path /\ op.local = l
      /\ op.kind # "conflict" => op.kind = Decision(d, U, p)
      /\ l = vault[d][p]
  BY PlanDecides, PlanReads DEF Scan
<1>2. /\ l \in LocalSide /\ b \in ManifestSide /\ r \in ManifestSide
      /\ Decision(d, U, p) = ThreeWay(l, b, r)
  BY <1>1, PlanSides DEF Decision
<1>3. /\ R \in Hash \cup {Absent}
      /\ Live(r) => r = R
      /\ ~Live(r) => R = Absent
  BY <1>1, PlannedType, SideFiles
<1>4. Live(b) => b = B
  BY <1>1, PlannedType, SideFiles
<1>5. Stays(gone, B, l) /\ Stays(gone, B, R)
  BY <1>1 DEF PlanSafe
<1>6. Live(l) <=> l # Absent
  BY <1>2, LiveSides
<1> HIDE DEF p, l, b, r, B, R
<1>7. /\ ThreeWay(l, b, r) \in {"download", "deleteLocal"} => l \in gone \cup {Absent}
      /\ ThreeWay(l, b, r) \in PushKinds => R \in gone \cup {Absent}
  <2>1. CASE ThreeWay(l, b, r) = "download"
    <3>1. l # Absent => b = l /\ l # R
      BY <1>2, <1>3, <2>1, MergeTakes
    <3> QED
      BY <1>4, <1>5, <1>6, <2>1, <3>1 DEF Stays, Live, PushKinds
  <2>2. CASE ThreeWay(l, b, r) = "deleteLocal"
    <3>1. b = l /\ Live(l) /\ R = Absent
      BY <1>2, <1>3, <2>2, MergeTakes
    <3> QED
      BY <1>4, <1>5, <1>6, <2>2, <3>1 DEF Stays, Live, PushKinds
  <2>3. CASE ThreeWay(l, b, r) \in PushKinds
    <3>1. R = Absent \/ (Live(r) /\ r = R /\ b = r /\ l # r)
      <4>1. CASE ThreeWay(l, b, r) = "upload"
        BY <1>2, <1>3, <4>1, MergeTakes
      <4>2. CASE ThreeWay(l, b, r) = "deleteRemote"
        BY <1>2, <1>3, <1>6, <4>2, MergeTakes
      <4> QED
        BY <2>3, <4>1, <4>2 DEF PushKinds
    <3>2. ThreeWay(l, b, r) \notin {"download", "deleteLocal"}
      BY <2>3 DEF PushKinds
    <3> QED
      BY <1>4, <1>5, <3>1, <3>2 DEF Stays, Live
  <2> QED
    BY <2>1, <2>2, <2>3
<1>8. op.kind \in {"download", "deleteLocal"} \cup PushKinds => op.kind = ThreeWay(l, b, r)
  BY <1>1, <1>2 DEF PushKinds
<1>9. /\ op.kind \in {"download", "deleteLocal"} => op.local \in gone \cup {Absent}
      /\ op.kind \in PushKinds => R \in gone \cup {Absent}
  BY <1>1, <1>7, <1>8
<1> QED
  BY <1>9 DEF R, p

(***************************************************************************)
(* A path that could be read needs no fetching only if this device has     *)
(* what the storage names there, or it was given up.                       *)
(***************************************************************************)
LEMMA PlanLeavesNothing ==
    ASSUME TypeInv, NEW d \in Device, NEW U \in SUBSET Path, NEW gone,
           PlanSafe(gone, vault[d], Planned(d), Top(store)), NEW p \in profile[d] \ U
    PROVE  \/ Stays(gone, FilesOf(Top(store))[p], vault[d][p])
           \/ \E op \in PlanFor(d, U) : op.path = p /\ op.kind \in {"download", "conflict"}
<1> DEFINE l == Scan(d, U)[p]
           b == SideOf(Planned(d), p)
           r == SideOf(Top(store), p)
<1>1. p \in Path
  BY DEF TypeInv, TypeOK
<1>2. l = vault[d][p]
  BY <1>1 DEF Scan
<1>3. /\ l \in LocalSide /\ b \in ManifestSide /\ r \in ManifestSide
      /\ Decision(d, U, p) = ThreeWay(l, b, r)
  BY <1>1, PlanSides DEF Decision
<1>4. /\ Live(r) => r = FilesOf(Top(store))[p]
      /\ ~Live(r) => FilesOf(Top(store))[p] = Absent
      /\ Live(b) => b = FilesOf(Planned(d))[p]
  BY <1>1, PlannedType, SideFiles
<1>5. CASE Decision(d, U, p) \in {"download", "conflict"}
  <2>1. PICK op \in PlanFor(d, U) : op.path = p
    BY <1>5, PlanCovers
  <2> QED
    BY <1>5, <2>1, PlanDecides
<1>6. CASE Decision(d, U, p) \notin {"download", "conflict"}
  <2>1. ~Live(r) \/ l = r \/ b = r
    BY <1>3, <1>6, MergeTakes
  <2>2. CASE ~Live(r)
    BY <1>4, <2>2, MarkAssumption DEF Stays
  <2>3. CASE Live(r) /\ l = r
    BY <1>2, <1>4, <2>3 DEF Stays
  <2>4. CASE Live(r) /\ b = r
    <3>1. FilesOf(Planned(d))[p] = FilesOf(Top(store))[p]
      BY <1>4, <2>4
    <3> QED
      BY <1>1, <3>1 DEF PlanSafe
  <2> QED
    BY <2>1, <2>2, <2>3, <2>4
<1> QED
  BY <1>5, <1>6

\* So a job that has just planned is safe.
LEMMA PlanningSafe ==
    ASSUME TypeInv, NEW d \in Device, NEW U \in SUBSET Path, NEW gone,
           PlanSafe(gone, vault[d], Planned(d), Top(store)),
           Top(store) # NoManifest => LineSafe(gone, Top(store)),
           NEW phase \in {"pull", "push"}, NEW full, NEW todo \in SUBSET PlanFor(d, U),
           phase = "pull" => OpsOf(PlanFor(d, U), PullKinds) \subseteq todo
    PROVE  JobSafe(gone, vault[d], profile[d], Planning(d, U, phase, full, todo))
<1> DEFINE j == Planning(d, U, phase, full, todo)
<1>1. /\ j.planned = Planned(d) /\ j.phase = phase /\ j.held = U /\ j.todo = todo
      /\ j.remote = Top(store)
  BY DEF Planning
<1>2. TodoSafe(gone, Top(store), todo)
  BY PlanTakesGivenUp DEF TodoSafe
<1>3. ASSUME phase = "pull", NEW p \in profile[d] \ U
      PROVE  \/ Stays(gone, FilesOf(Top(store))[p], vault[d][p])
             \/ \E op \in todo : op.path = p /\ op.kind \in {"download", "conflict"}
  <2>1. ASSUME NEW op \in PlanFor(d, U), op.path = p, op.kind \in {"download", "conflict"}
        PROVE  op \in todo
    BY <1>3, <2>1 DEF OpsOf, PullKinds
  <2>2. \/ Stays(gone, FilesOf(Top(store))[p], vault[d][p])
        \/ \E op \in PlanFor(d, U) : op.path = p /\ op.kind \in {"download", "conflict"}
    BY <1>3, PlanLeavesNothing
  <2> QED
    BY <2>1, <2>2
<1> HIDE DEF j
<1>4. JobSafe(gone, vault[d], profile[d], j)
  BY <1>1, <1>2, <1>3 DEF JobSafe, PullSafe
<1> QED
  BY <1>4 DEF j

---------------------------------------------------------------------------
(* The steps: what a file loses is given up, and so nothing is lost.       *)

(***************************************************************************)
(* A step takes a content out of a file only if it was given up or this    *)
(* step gives it up, and a content that is new is somewhere to be seen.    *)
(***************************************************************************)
NothingTaken ==
    /\ GivenUp \subseteq GivenUp'
    /\ \A e \in Device, p \in Path : Stays(GivenUp', vault[e][p], vault'[e][p])
    /\ authored' \subseteq authored \cup GivenUp' \cup Visible'

(***************************************************************************)
(* A step of one device that takes nothing, and leaves its base and its    *)
(* job with nothing to lose, keeps AllSafe: the other devices' files stay. *)
(***************************************************************************)
LEMMA SafeStep ==
    ASSUME TypeInv, AllSafe, NEW d \in Device, OthersStand(d), NothingTaken,
           \A m \in store' : m \in store \/ LineSafe(GivenUp', m),
           DeviceSafe(GivenUp', vault'[d], profile'[d], base'[d], saved'[d], job'[d])
    PROVE  AllSafe'
<1>1. PICK gone : gone = GivenUp
  OBVIOUS
<1>2. PICK more : more = GivenUp'
  OBVIOUS
<1>3. gone \subseteq more
  BY <1>1, <1>2 DEF NothingTaken
<1>4. ASSUME NEW m \in store'
      PROVE  LineSafe(more, m)
  <2>1. CASE m \in store
    <3>1. LineSafe(gone, m)
      BY <1>1, <2>1 DEF AllSafe
    <3> QED
      BY <1>3, <3>1, LineGrows
  <2>2. CASE LineSafe(GivenUp', m)
    BY <1>2, <2>2
  <2> QED
    BY <2>1, <2>2
<1>5. ASSUME NEW e \in Device
      PROVE  DeviceSafe(more, vault'[e], profile'[e], base'[e], saved'[e], job'[e])
  <2>1. CASE e = d
    BY <1>2, <2>1
  <2>2. CASE e # d
    <3>1. DeviceSafe(gone, vault[e], profile[e], base[e], saved[e], job[e])
      BY <1>1 DEF AllSafe
    <3>2. /\ vault'[e] = vault[e] /\ profile'[e] = profile[e]
          /\ base'[e] = base[e] /\ saved'[e] = saved[e] /\ job'[e] = job[e]
      BY <2>2 DEF OthersStand
    <3>3. profile[e] \in SUBSET Path /\ \A p \in Path : Stays(more, vault[e][p], vault[e][p])
      BY DEF TypeInv, TypeOK, Stays
    <3>4. DeviceSafe(more, vault[e], profile[e], base[e], saved[e], job[e])
      BY <1>3, <3>1, <3>3, BaseGrows, JobGrows DEF DeviceSafe
    <3> QED
      BY <3>2, <3>4, Zenon
  <2> QED
    BY <2>1, <2>2
<1>6. ASSUME NEW h \in authored'
      PROVE  h \in GivenUp' \cup Visible'
  <2>1. CASE h \in GivenUp' \cup Visible'
    BY <2>1
  <2>2. CASE h \in authored
    <3>1. h \in Hash /\ h \in GivenUp \cup Visible
      BY <2>2 DEF TypeInv, TypeOK, AllSafe
    <3>2. CASE h \in GivenUp \/ h \in UNION {copies[e] : e \in Device}
      BY <3>2 DEF NothingTaken, GivenUp
    <3>3. ASSUME NEW e \in Device, NEW p \in Path, h = vault[e][p]
          PROVE  h \in GivenUp' \cup Visible'
      <4>1. h \in GivenUp' \/ vault'[e][p] = h
        BY <3>1, <3>3 DEF NothingTaken, Stays
      <4> QED
        BY <4>1 DEF Visible
    <3> QED
      BY <3>1, <3>2, <3>3 DEF Visible
  <2> QED
    BY <1>6, <2>1, <2>2 DEF NothingTaken
<1> QED
  BY <1>2, <1>4, <1>5, <1>6 DEF AllSafe

\* A step that touches no file and no ghost takes nothing.
LEMMA NothingMoves ==
    ASSUME UNCHANGED <<vault, copies, superseded, authored>>
    PROVE  GivenUp' = GivenUp /\ NothingTaken
<1>1. GivenUp' = GivenUp
  BY DEF GivenUp
<1> QED
  BY <1>1 DEF NothingTaken, Stays

\* Of a step that touches no file, the device's base and job are all to look at.
LEMMA SafeQuietStep ==
    ASSUME TypeInv, AllSafe, NEW d \in Device, OthersStand(d),
           UNCHANGED <<vault, copies, superseded, authored>>,
           \A m \in store' : m \in store \/ LineSafe(GivenUp, m),
           DeviceSafe(GivenUp, vault[d], profile'[d], base'[d], saved'[d], job'[d])
    PROVE  AllSafe'
<1>1. PICK gone : gone = GivenUp
  OBVIOUS
<1>2. gone = GivenUp' /\ NothingTaken /\ vault'[d] = vault[d]
  BY <1>1, NothingMoves
<1>3. \A m \in store' : m \in store \/ LineSafe(gone, m)
  BY <1>1
<1>4. DeviceSafe(gone, vault[d], profile'[d], base'[d], saved'[d], job'[d])
  BY <1>1
<1>5. DeviceSafe(GivenUp', vault'[d], profile'[d], base'[d], saved'[d], job'[d])
  BY <1>2, <1>4, Zenon
<1>6. \A m \in store' : m \in store \/ LineSafe(GivenUp', m)
  BY <1>2, <1>3, Zenon
<1> QED
  BY <1>2, <1>5, <1>6, SafeStep

\* Of one that moves the job only, the job.
LEMMA SafeJobStep ==
    ASSUME TypeInv, AllSafe, NEW d \in Device, OthersStand(d),
           UNCHANGED <<vault, copies, superseded, authored, base, saved, profile>>,
           \A m \in store' : m \in store \/ LineSafe(GivenUp, m),
           JobSafe(GivenUp, vault[d], profile[d], job'[d])
    PROVE  AllSafe'
<1>1. DeviceSafe(GivenUp, vault[d], profile[d], base[d], saved[d], job[d])
  BY DEF AllSafe
<1>2. DeviceSafe(GivenUp, vault[d], profile'[d], base'[d], saved'[d], job'[d])
  BY <1>1 DEF DeviceSafe
<1> QED
  BY <1>2, SafeQuietStep

\* Of one that replaces the base, saved or not, the new base and the job.
LEMMA SafeBaseStep ==
    ASSUME TypeInv, AllSafe, NEW d \in Device, OthersStand(d),
           UNCHANGED <<vault, copies, superseded, authored, store, profile>>,
           NEW b, BaseSafe(GivenUp, vault[d], b), base' = [base EXCEPT ![d] = b],
           saved' = [saved EXCEPT ![d] = b] \/ UNCHANGED saved,
           JobSafe(GivenUp, vault[d], profile[d], job'[d])
    PROVE  AllSafe'
<1>1. DeviceSafe(GivenUp, vault[d], profile[d], base[d], saved[d], job[d])
  BY DEF AllSafe
<1>2. base'[d] = b /\ saved'[d] \in {b, saved[d]}
  BY DEF TypeInv, TypeOK
<1>3. DeviceSafe(GivenUp, vault[d], profile'[d], base'[d], saved'[d], job'[d])
  BY <1>1, <1>2 DEF DeviceSafe
<1> QED
  BY <1>3, SafeQuietStep

(***************************************************************************)
(* A step that moves files of one device only: what they lose has to be    *)
(* given up.                                                               *)
(***************************************************************************)
LEMMA TakesHere ==
    ASSUME TypeInv, NEW d \in Device, OthersStand(d), GivenUp \subseteq GivenUp',
           \A p \in Path : Stays(GivenUp', vault[d][p], vault'[d][p]),
           authored' \subseteq authored \cup GivenUp' \cup Visible'
    PROVE  NothingTaken
<1>1. ASSUME NEW e \in Device, NEW p \in Path
      PROVE  Stays(GivenUp', vault[e][p], vault'[e][p])
  <2>1. CASE e = d
    BY <2>1
  <2>2. CASE e # d
    BY <2>2 DEF OthersStand, Stays
  <2> QED
    BY <2>1, <2>2
<1> QED
  BY <1>1 DEF NothingTaken

\* What a user's edit, deletion or restore replaces is superseded by it.
LEMMA SafeUser ==
    ASSUME TypeInv, AllSafe, NEW d \in Device, User(d)
    PROVE  AllSafe'
<1>1. /\ vault \in [Device -> [Path -> Side]] /\ profile[d] \in SUBSET Path
      /\ OthersStand(d)
      /\ DeviceSafe(GivenUp, vault[d], profile[d], base[d], saved[d], job[d])
  BY UserAlone DEF TypeInv, TypeOK, AllSafe
<1>2. ASSUME NEW p \in Path, UserEdit(d, p) \/ UserDelete(d, p) \/ UserRestore(d, p)
      PROVE  AllSafe'
  <2>1. PICK h : /\ vault' = [vault EXCEPT ![d][p] = h]
                 /\ authored' \subseteq authored \cup {h}
                 /\ superseded' = superseded \cup ({vault[d][p]} \cap Hash)
    <3>1. CASE UserEdit(d, p)
      BY <3>1 DEF UserEdit
    <3>2. CASE UserRestore(d, p)
      BY <3>2 DEF UserRestore
    <3>3. CASE UserDelete(d, p)
      <4>1. vault[d][p] \in Hash
        BY <1>1, <3>3 DEF UserDelete, Side
      <4> QED
        BY <3>3, <4>1 DEF UserDelete
    <3> QED
      BY <1>2, <3>1, <3>2, <3>3
  <2>2. UNCHANGED <<copies, profile, base, saved, job, store>>
    BY <1>2 DEF UserEdit, UserDelete, UserRestore, state
  <2>3. GivenUp' = superseded' \cup UNION {copies[e] : e \in Device}
    BY <2>2 DEF GivenUp
  <2>4. PICK more : more = GivenUp'
    OBVIOUS
  <2>5. GivenUp \subseteq more /\ {vault[d][p]} \cap Hash \subseteq more
    BY <2>1, <2>3, <2>4 DEF GivenUp
  <2>6. vault'[d][p] = h /\ \A q \in Path \ {p} : vault'[d][q] = vault[d][q]
    BY <1>1, <2>1
  <2>7. \A q \in Path : Stays(more, vault[d][q], vault'[d][q])
    BY <2>5, <2>6 DEF Stays
  <2>8. authored' \subseteq authored \cup GivenUp' \cup Visible'
    BY <2>1, <2>6 DEF Visible
  <2>9. NothingTaken
    BY <1>1, <2>4, <2>5, <2>7, <2>8, TakesHere
  <2>10. DeviceSafe(more, vault'[d], profile[d], base[d], saved[d], job[d])
    BY <1>1, <2>5, <2>7, BaseGrows, JobGrows DEF DeviceSafe
  <2>11. DeviceSafe(GivenUp', vault'[d], profile'[d], base'[d], saved'[d], job'[d])
    BY <2>2, <2>4, <2>10, Zenon
  <2> QED
    BY <1>1, <2>2, <2>9, <2>11, SafeStep
<1>3. CASE ChangeProfile(d)
  <2>1. /\ job[d].phase = "idle" /\ job'[d] = job[d]
        /\ UNCHANGED <<vault, copies, superseded, authored, store, base, saved>>
    BY <1>3 DEF ChangeProfile, Idle, files, state, ghosts
  <2>2. JobSafe(GivenUp, vault[d], profile'[d], job[d])
    BY <1>1, <2>1 DEF DeviceSafe, JobSafe
  <2>3. DeviceSafe(GivenUp, vault[d], profile'[d], base'[d], saved'[d], job'[d])
    BY <1>1, <2>1, <2>2 DEF DeviceSafe
  <2> QED
    BY <1>1, <2>1, <2>3, SafeQuietStep
<1> QED
  BY <1>2, <1>3 DEF User

(***************************************************************************)
(* A pull's step takes one operation off the list: by then its content is  *)
(* in the vault or given up, or its path sits out, or it fetched nothing.  *)
(***************************************************************************)
LEMMA SafeDone ==
    ASSUME NEW gone, NEW mine, NEW carried, NEW j \in Job,
           JobSafe(gone, mine, carried, j), j.phase = "pull", NEW op \in j.todo, NEW sits,
           \/ op.path \in sits
           \/ op.kind \notin {"download", "conflict"}
           \/ Stays(gone, FilesOf(j.remote)[op.path], mine[op.path])
    PROVE  JobSafe(gone, mine, carried, [j EXCEPT !.todo = @ \ {op}, !.held = @ \cup sits])
<1> DEFINE k == [j EXCEPT !.todo = @ \ {op}, !.held = @ \cup sits]
<1>1. /\ k.planned = j.planned /\ k.phase = "pull" /\ k.remote = j.remote
      /\ k.todo = j.todo \ {op} /\ k.held = j.held \cup sits
  BY DEF Job
<1> HIDE DEF k
<1>2. TodoSafe(gone, k.remote, k.todo)
  BY <1>1 DEF JobSafe, TodoSafe
<1>3. ASSUME NEW p \in carried \ k.held
      PROVE  \/ Stays(gone, FilesOf(k.remote)[p], mine[p])
             \/ \E o \in k.todo : o.path = p /\ o.kind \in {"download", "conflict"}
  <2>1. p \in carried \ j.held
    BY <1>1
  <2>2. \/ Stays(gone, FilesOf(j.remote)[p], mine[p])
        \/ \E o \in j.todo : o.path = p /\ o.kind \in {"download", "conflict"}
    BY <2>1 DEF JobSafe, PullSafe
  <2>3. ASSUME NEW o \in j.todo, o.path = p, o.kind \in {"download", "conflict"}
        PROVE  \/ Stays(gone, FilesOf(j.remote)[p], mine[p])
               \/ o \in k.todo
    BY <1>1, <1>3, <2>3
  <2> QED
    BY <1>1, <2>2, <2>3
<1>4. JobSafe(gone, mine, carried, k)
  BY <1>1, <1>2, <1>3 DEF JobSafe, PullSafe
<1> QED
  BY <1>4 DEF k

\* What a write leaves: the written content, in the file or given up.
LEMMA WriteTakes ==
    ASSUME TypeInv, PathsTold, NEW d \in Device, NEW p \in Path, NEW h,
           \/ WriteFile(d, p, h) /\ vault[d][p] \in GivenUp \cup {Absent}
           \/ WriteCopy(d, h),
           UNCHANGED superseded
    PROVE  /\ GivenUp \subseteq GivenUp'
           /\ \A q \in Path : Stays(GivenUp', vault[d][q], vault'[d][q])
           /\ Stays(GivenUp', h, vault'[d][p])
<1>1. /\ vault \in [Device -> [Path -> Side]] /\ copies \in [Device -> SUBSET Hash]
      /\ At(d, p) = p
  BY AtItself DEF TypeInv, TypeOK
<1>2. PICK more : more = GivenUp'
  OBVIOUS
<1>3. CASE WriteFile(d, p, h) /\ vault[d][p] \in GivenUp \cup {Absent}
  <2>1. UNCHANGED copies /\ vault' = [vault EXCEPT ![d][p] = h]
    BY <1>1, <1>3 DEF WriteFile
  <2>2. more = GivenUp
    BY <1>2, <2>1 DEF GivenUp
  <2>3. vault'[d][p] = h /\ \A q \in Path \ {p} : vault'[d][q] = vault[d][q]
    BY <1>1, <2>1
  <2> QED
    BY <1>2, <1>3, <2>2, <2>3, MarkAssumption DEF Stays
<1>4. CASE WriteCopy(d, h)
  <2>1. UNCHANGED vault /\ copies' = [copies EXCEPT ![d] = @ \cup {h}]
    BY <1>4 DEF WriteCopy
  <2>2. h \in copies'[d] /\ \A e \in Device : copies[e] \subseteq copies'[e]
    BY <1>1, <2>1
  <2>3. h \in more /\ GivenUp \subseteq more
    BY <1>2, <2>2 DEF GivenUp
  <2> QED
    BY <1>2, <2>1, <2>3 DEF Stays
<1> QED
  BY <1>3, <1>4

(***************************************************************************)
(* The operations of a pull replace a file only as it was scanned, and     *)
(* keep both versions where the scan no longer holds (engine/apply.ts).    *)
(***************************************************************************)
LEMMA SafeApply ==
    ASSUME TypeInv, PathsTold, AllSafe, NEW d \in Device,
           ApplyDownload(d) \/ ApplyDeleteLocal(d) \/ ApplyConflict(d)
    PROVE  AllSafe'
<1> DEFINE j == job[d]
<1>1. /\ vault \in [Device -> [Path -> Side]] /\ profile[d] \in SUBSET Path
      /\ job \in [Device -> Job] /\ j \in Job /\ OthersStand(d)
      /\ \A op \in j.todo : op.path \in Path /\ op.local \in Side
      /\ \A op \in j.todo : FileAt(d, op.path) = vault[d][op.path]
      /\ DeviceSafe(GivenUp, vault[d], profile[d], base[d], saved[d], j)
  BY PullAlone, AtItself DEF TypeInv, TypeOK, AllSafe, Pull, Job, Op, FileAt
<1>2. j.phase = "pull" /\ j.remote \in Manifest /\ FilesOf(j.remote) = j.remote.files
  BY NoManifestAssumption DEF ApplyDownload, ApplyDeleteLocal, ApplyConflict, NextPullOp,
     TypeInv, Fits, FilesOf, OnTopOf
<1>3. UNCHANGED <<profile, state, store, authored, superseded>>
  BY DEF ApplyDownload, ApplyDeleteLocal, ApplyConflict, ghosts
<1>4. \A op \in j.todo : op.kind \in {"download", "deleteLocal"}
                           => op.local \in GivenUp \cup {Absent}
  BY <1>1 DEF DeviceSafe, JobSafe, TodoSafe
<1>5. PICK more : more = GivenUp'
  OBVIOUS
<1>6. UNCHANGED <<vault, copies>>
        => GivenUp \subseteq more /\ \A q \in Path : Stays(more, vault[d][q], vault'[d][q])
  BY <1>3, <1>5 DEF GivenUp, Stays
<1>7. PICK op \in j.todo :
        /\ job' = Done(d, op) \/ job' = DoneHeld(d, op)
        /\ GivenUp \subseteq more
        /\ \A q \in Path : Stays(more, vault[d][q], vault'[d][q])
        /\ \/ job' = DoneHeld(d, op)
           \/ op.kind \notin {"download", "conflict"}
           \/ Stays(more, FilesOf(j.remote)[op.path], vault'[d][op.path])
  <2>1. CASE ApplyDownload(d)
    <3>1. PICK op \in j.todo :
            /\ op.kind = "download"
            /\ \/ /\ \/ /\ StillAsScanned(d, op)
                        /\ WriteFile(d, op.path, j.remote.files[op.path])
                     \/ WriteCopy(d, j.remote.files[op.path])
                  /\ job' = Done(d, op)
               \/ job' = DoneHeld(d, op) /\ UNCHANGED files
      BY <2>1 DEF ApplyDownload
    <3>2. CASE \/ /\ StillAsScanned(d, op)
                  /\ WriteFile(d, op.path, j.remote.files[op.path])
               \/ WriteCopy(d, j.remote.files[op.path])
      <4>1. StillAsScanned(d, op) => vault[d][op.path] \in GivenUp \cup {Absent}
        BY <1>1, <1>4, <3>1 DEF StillAsScanned
      <4> QED
        BY <1>1, <1>2, <1>3, <1>5, <3>1, <3>2, <4>1, WriteTakes
    <3>3. CASE job' = DoneHeld(d, op) /\ UNCHANGED files
      BY <1>6, <3>3 DEF files
    <3> QED
      BY <3>1, <3>2, <3>3
  <2>2. CASE ApplyConflict(d)
    <3>1. PICK op \in j.todo :
            /\ job' = Done(d, op)
            /\ \/ /\ FileAt(d, op.path) = Absent
                  /\ WriteFile(d, op.path, j.remote.files[op.path])
               \/ WriteCopy(d, j.remote.files[op.path])
               \/ j.remote.files[op.path] = Absent /\ UNCHANGED files
      BY <2>2 DEF ApplyConflict, files
    <3>2. CASE \/ /\ FileAt(d, op.path) = Absent
                  /\ WriteFile(d, op.path, j.remote.files[op.path])
               \/ WriteCopy(d, j.remote.files[op.path])
      BY <1>1, <1>2, <1>3, <1>5, <3>1, <3>2, WriteTakes
    <3>3. CASE j.remote.files[op.path] = Absent /\ UNCHANGED files
      BY <1>2, <1>6, <3>1, <3>3, MarkAssumption DEF files, Stays
    <3> QED
      BY <3>1, <3>2, <3>3
  <2>3. CASE ApplyDeleteLocal(d)
    <3>1. PICK op \in j.todo :
            /\ op.kind = "deleteLocal"
            /\ job' = Done(d, op) \/ job' = DoneHeld(d, op)
            /\ \/ /\ FileAt(d, op.path) \in {op.local, Absent}
                  /\ vault' = [vault EXCEPT ![d][At(d, op.path)] = Absent]
               \/ UNCHANGED vault
            /\ UNCHANGED copies
      BY <2>3 DEF ApplyDeleteLocal
    <3>2. CASE UNCHANGED vault
      BY <1>6, <3>1, <3>2
    <3>3. CASE /\ FileAt(d, op.path) \in {op.local, Absent}
               /\ vault' = [vault EXCEPT ![d][At(d, op.path)] = Absent]
      <4>1. more = GivenUp
        BY <1>3, <1>5, <3>1 DEF GivenUp
      <4>2. vault[d][op.path] \in GivenUp \cup {Absent}
        BY <1>1, <1>4, <3>1, <3>3
      <4>3. \A q \in Path \ {op.path} : vault'[d][q] = vault[d][q]
        BY <1>1, <3>3, AtItself
      <4>4. \A q \in Path : Stays(more, vault[d][q], vault'[d][q])
        BY <4>1, <4>2, <4>3, MarkAssumption DEF Stays
      <4> QED
        BY <3>1, <4>1, <4>4
    <3> QED
      BY <3>1, <3>2, <3>3
  <2> QED
    BY <2>1, <2>2, <2>3
<1>8. JobSafe(more, vault'[d], profile[d], j)
  BY <1>1, <1>7, JobGrows DEF DeviceSafe
<1>9. JobSafe(more, vault'[d], profile[d], job'[d])
  <2>1. CASE job' = DoneHeld(d, op)
    <3>1. job'[d] = [j EXCEPT !.todo = @ \ {op}, !.held = @ \cup {op.path}]
      BY <1>1, <2>1 DEF DoneHeld
    <3>2. JobSafe(more, vault'[d], profile[d],
                  [j EXCEPT !.todo = @ \ {op}, !.held = @ \cup {op.path}])
      <4>1. op.path \in {op.path}
        OBVIOUS
      <4> HIDE DEF j
      <4> QED
        BY <1>1, <1>2, <1>7, <1>8, <4>1, SafeDone
    <3> QED
      BY <3>1, <3>2, Zenon
  <2>2. CASE job' = Done(d, op) /\ job' # DoneHeld(d, op)
    <3>1. job'[d] = [j EXCEPT !.todo = @ \ {op}]
      BY <1>1, <2>2 DEF Done
    <3>2. [j EXCEPT !.todo = @ \ {op}] = [j EXCEPT !.todo = @ \ {op}, !.held = @ \cup {}]
      BY <1>1 DEF Job
    <3>3. \/ op.kind \notin {"download", "conflict"}
          \/ Stays(more, FilesOf(j.remote)[op.path], vault'[d][op.path])
      BY <1>7, <2>2
    <3>4. JobSafe(more, vault'[d], profile[d],
                  [j EXCEPT !.todo = @ \ {op}, !.held = @ \cup {}])
      <4> HIDE DEF j
      <4> QED
        BY <1>1, <1>2, <1>7, <1>8, <3>3, SafeDone
    <3> QED
      BY <3>1, <3>2, <3>4, Zenon
  <2> QED
    BY <1>7, <2>1, <2>2
<1>10. DeviceSafe(more, vault'[d], profile[d], base[d], saved[d], job'[d])
  BY <1>1, <1>7, <1>9, BaseGrows DEF DeviceSafe
<1>11. DeviceSafe(GivenUp', vault'[d], profile'[d], base'[d], saved'[d], job'[d])
  BY <1>3, <1>5, <1>10, Zenon DEF state
<1>12. NothingTaken
  <2>1. /\ GivenUp \subseteq GivenUp'
        /\ \A q \in Path : Stays(GivenUp', vault[d][q], vault'[d][q])
        /\ authored' \subseteq authored \cup GivenUp' \cup Visible'
    BY <1>3, <1>5, <1>7
  <2> QED
    BY <1>1, <2>1, TakesHere
<1> QED
  BY <1>1, <1>3, <1>11, <1>12, SafeStep

\* A pull that ends vouches for what it fetched, held out or had already.
LEMMA SafeFinishPull ==
    ASSUME TypeInv, AllSafe, NEW d \in Device, FinishPull(d)
    PROVE  AllSafe'
<1> DEFINE j == job[d]
           new == [p \in Path |-> IF p \notin profile[d] THEN Absent
                                  ELSE IF p \in j.held THEN FilesOf(j.planned)[p]
                                  ELSE j.remote.files[p]]
           b == AdoptPulled(j.remote, j.planned, j.held, profile[d])
           push == [j EXCEPT !.phase = "push", !.planned = b]
<1>1. /\ j \in Job /\ j.phase = "pull" /\ j.remote \in Manifest
      /\ JobSafe(GivenUp, vault[d], profile[d], j) /\ OthersStand(d)
      /\ \A op \in j.todo : op.kind \notin PullKinds
  BY PullAlone DEF FinishPull, PullApplied, OpsOf, TypeInv, TypeOK, Fits, AllSafe,
     DeviceSafe, Pull
<1>2. j.planned \in MaybeManifest /\ FilesOf(j.remote) = j.remote.files
  BY <1>1, NoManifestAssumption DEF Job, FilesOf, OnTopOf
<1>3. new \in [Path -> Hash \cup {Absent}]
  BY <1>1, <1>2, OnTopOfType DEF FilesOf, Manifest
<1>4. b = [j.remote EXCEPT !.files = new]
  BY DEF AdoptPulled
<1>5. \A p \in Path : \/ new[p] = Absent
                      \/ p \in j.held /\ new[p] = FilesOf(j.planned)[p]
                      \/ p \in profile[d] \ j.held /\ new[p] = FilesOf(j.remote)[p]
  BY <1>2
<1>6. /\ base' = [base EXCEPT ![d] = b]
      /\ saved' = [saved EXCEPT ![d] = b] \/ UNCHANGED saved
      /\ job'[d] \in {push, IdleJob}
      /\ UNCHANGED <<vault, copies, superseded, authored, store, profile>>
  BY DEF FinishPull, Adopt, ghosts, files, TypeInv, TypeOK
<1>7. push.planned = b /\ push.phase = "push" /\ push.remote = j.remote /\ push.todo = j.todo
  BY <1>1 DEF Job
<1> HIDE DEF new, b
<1>8. FilesOf(b) = new
  BY <1>1, <1>3, <1>4, ReplacedFiles
<1>9. b.files = new /\ b.id = j.remote.id /\ b.gen = j.remote.gen
  BY <1>1, <1>4 DEF Manifest
<1>10. /\ LineSafe(GivenUp, j.remote) /\ j.remote.gen > 0
       /\ j.remote.id.files = FilesOf(j.remote)
  <2>1. LineSafe(GivenUp, j.remote)
    BY <1>1, NoManifestAssumption DEF JobSafe
  <2> QED
    BY <1>2, <2>1 DEF LineSafe, Identified, BodyOf
<1>11. ASSUME NEW p \in Path
       PROVE  /\ Stays(GivenUp, new[p], vault[d][p])
              /\ Stays(GivenUp, new[p], FilesOf(j.remote)[p])
  <2>1. CASE new[p] = Absent
    BY <2>1, MarkAssumption DEF Stays
  <2>2. CASE p \in j.held /\ new[p] = FilesOf(j.planned)[p]
    BY <1>1, <2>2 DEF JobSafe, PlanSafe
  <2>3. CASE p \in profile[d] \ j.held /\ new[p] = FilesOf(j.remote)[p]
    <3>1. Stays(GivenUp, FilesOf(j.remote)[p], vault[d][p])
      BY <1>1, <2>3 DEF JobSafe, PullSafe, PullKinds
    <3> QED
      BY <2>3, <3>1 DEF Stays
  <2> QED
    BY <1>5, <2>1, <2>2, <2>3
<1>12. BaseSafe(GivenUp, vault[d], b)
  BY <1>9, <1>10, <1>11 DEF BaseSafe
<1> HIDE DEF push
<1>13. JobSafe(GivenUp, vault[d], profile[d], push)
  BY <1>1, <1>7, <1>8, <1>10, <1>11 DEF JobSafe, PlanSafe
<1>14. JobSafe(GivenUp, vault[d], profile[d], job'[d])
  <2>1. JobSafe(GivenUp, vault[d], profile[d], IdleJob)
    BY NothingSafe
  <2> QED
    BY <1>6, <1>13, <2>1
<1> QED
  BY <1>1, <1>6, <1>12, <1>14, SafeBaseStep

\* What buildNextManifest makes of its parent's entries.
LEMMA BuildNextEntries ==
    ASSUME NEW parent, NEW gen, NEW dev, NEW uploaded, NEW tombstoned, NEW keep, NEW time,
           NEW grace
    PROVE  LET next == BuildNext(parent, gen, dev, uploaded, tombstoned, keep, time, grace)
           IN  /\ next.gen = gen /\ next.markers = OnTopOf(parent).markers
               /\ \A p \in Path : next.files[p] = IF p \in tombstoned THEN Absent
                                                  ELSE IF uploaded[p] # Absent
                                                       THEN uploaded[p]
                                                       ELSE FilesOf(parent)[p]
  BY DEF BuildNext, FilesOf

(***************************************************************************)
(* A push publishes what it read of the vault over what was given up, and  *)
(* carries the rest of its parent along.                                   *)
(***************************************************************************)
LEMMA SafePushFiles ==
    ASSUME TypeInv, PathsTold, AllSafe, NEW d \in Device, PushFiles(d)
    PROVE  AllSafe'
<1> DEFINE uploads(L) == {o.path : o \in OpsOf(job[d].todo, {"upload"})} \ L
           uploaded(L) == [p \in Path |-> IF p \in uploads(L) THEN FileAt(d, p) ELSE Absent]
           tombstoned == {o.path : o \in OpsOf(job[d].todo, {"deleteRemote"})}
           changed(L) == {p \in Path : uploaded(L)[p] # Absent} \cup tombstoned
           body(L) == BuildNext(job[d].remote, GenOf(job[d].remote) + 1, d,
                                uploaded(L), tombstoned, Keep[d], now, Grace)
           next(L) == Stamped(body(L), job[d].remote)
           j(L) == [job[d] EXCEPT !.phase = "ready", !.todo = {},
                      !.next = next(L), !.changed = changed(L)]
<1>1. /\ job \in [Device -> Job] /\ job[d] \in Job /\ job[d].remote \in MaybeManifest
      /\ OthersStand(d)
      /\ JobSafe(GivenUp, vault[d], profile[d], job[d])
  BY EngineAlone DEF TypeInv, TypeOK, Job, AllSafe, DeviceSafe, Engine, PushSteps
<1>2. PICK locked : job' = [job EXCEPT ![d] = IF changed(locked) = {} THEN IdleJob
                                              ELSE j(locked)]
  BY Zenon DEF PushFiles
<1>3. /\ \A o \in job[d].todo : o.path \in Path
      /\ \A p \in Path : FileAt(d, p) = vault[d][p] /\ FileAt(d, p) \in Hash \cup {Absent}
  BY <1>1, AtItself DEF FileAt, TypeInv, TypeOK, Side, Job, Op
<1>4. /\ uploaded(locked) \in [Path -> Hash \cup {Absent}] /\ tombstoned \in SUBSET Path
      /\ changed(locked) = {p \in Path : uploaded(locked)[p] # Absent \/ p \in tombstoned}
  BY <1>3 DEF OpsOf
<1>5. /\ \A p \in Path : uploaded(locked)[p] # Absent =>
           /\ uploaded(locked)[p] = vault[d][p]
           /\ \E o \in job[d].todo : o.path = p /\ o.kind \in PushKinds
      /\ \A p \in tombstoned : \E o \in job[d].todo : o.path = p /\ o.kind \in PushKinds
  BY <1>3 DEF OpsOf, PushKinds
<1>6. /\ GenOf(job[d].remote) + 1 \in Nat
      /\ Keep[d] \in Nat /\ now \in Nat /\ Grace \in Nat
  BY <1>1, OnTopOfType, ParameterAssumption DEF TypeInv, TypeOK
<1>7. /\ j(locked).next = next(locked) /\ j(locked).changed = changed(locked)
      /\ j(locked).phase = "ready" /\ j(locked).planned = job[d].planned
      /\ j(locked).remote = job[d].remote /\ j(locked).todo = {}
  BY <1>1 DEF Job
<1> HIDE DEF uploads, uploaded, tombstoned, changed, j
<1>8. body(locked) \in Body
  BY <1>1, <1>4, <1>6, BuildNextType
<1>9. /\ body(locked).gen = GenOf(job[d].remote) + 1
      /\ body(locked).markers = OnTopOf(job[d].remote).markers
      /\ \A p \in Path : body(locked).files[p] =
                            IF p \in tombstoned THEN Absent
                            ELSE IF uploaded(locked)[p] # Absent THEN uploaded(locked)[p]
                            ELSE FilesOf(job[d].remote)[p]
  BY BuildNextEntries
<1>10. next(locked).files = body(locked).files
  BY DEF Stamped
<1> HIDE DEF body
<1>11. ASSUME NEW p \in Path
       PROVE  /\ p \in changed(locked)
                   => FilesOf(job[d].remote)[p] \in GivenUp \cup {Absent}
              /\ p \in changed(locked)
                   => body(locked).files[p] \in {Absent, vault[d][p]}
              /\ p \notin changed(locked)
                   => body(locked).files[p] = FilesOf(job[d].remote)[p]
  <2>1. CASE p \in changed(locked)
    <3>1. PICK o \in job[d].todo : o.path = p /\ o.kind \in PushKinds
      BY <1>4, <1>5, <2>1
    <3>2. FilesOf(job[d].remote)[p] \in GivenUp \cup {Absent}
      BY <1>1, <3>1 DEF JobSafe, TodoSafe
    <3> QED
      BY <1>4, <1>5, <1>9, <2>1, <3>2
  <2>2. CASE p \notin changed(locked)
    BY <1>4, <1>9, <2>2
  <2> QED
    BY <2>1, <2>2
<1>12. \A p \in Path : Stays(GivenUp, FilesOf(job[d].remote)[p], body(locked).files[p])
  BY <1>11, MarkAssumption DEF Stays
<1>13. LineSafe(GivenUp, next(locked))
  <2>1. job[d].remote # NoManifest => LineSafe(GivenUp, job[d].remote)
    BY <1>1 DEF JobSafe
  <2> QED
    BY <1>1, <1>8, <1>9, <1>12, <2>1, StampedSafe
<1> HIDE DEF next
<1>14. NextSafe(GivenUp, vault[d], j(locked))
  <2>1. ASSUME NEW p \in Path
        PROVE  IF p \in changed(locked)
               THEN Stays(GivenUp, next(locked).files[p], vault[d][p])
               ELSE Stays(GivenUp, FilesOf(job[d].planned)[p], next(locked).files[p])
    <3>1. CASE p \in changed(locked)
      BY <1>10, <1>11, <3>1, MarkAssumption DEF Stays
    <3>2. CASE p \notin changed(locked)
      <4>1. Stays(GivenUp, FilesOf(job[d].planned)[p], FilesOf(job[d].remote)[p])
        BY <1>1 DEF JobSafe, PlanSafe
      <4> QED
        BY <1>10, <1>11, <3>2, <4>1
    <3> QED
      BY <3>1, <3>2
  <2> QED
    BY <1>7, <1>13, <2>1 DEF NextSafe
<1>15. JobSafe(GivenUp, vault[d], profile[d], j(locked))
  BY <1>1, <1>7, <1>14 DEF JobSafe, TodoSafe
<1>16. JobSafe(GivenUp, vault[d], profile[d], job'[d])
  <2>1. job'[d] = IdleJob \/ job'[d] = j(locked)
    BY <1>1, <1>2
  <2> QED
    BY <1>15, <2>1, NothingSafe
<1> QED
  BY <1>1, <1>16, SafeJobStep DEF PushFiles, files, state, ghosts

\* The put adds a line of descent; the re-LIST adopts what the push changed.
LEMMA SafePublished ==
    ASSUME TypeInv, AllSafe, NEW d \in Device, Publish(d) \/ Relist(d)
    PROVE  AllSafe'
<1> DEFINE j == job[d]
<1>1. /\ job \in [Device -> Job] /\ j \in Job /\ OthersStand(d)
      /\ JobSafe(GivenUp, vault[d], profile[d], j)
      /\ j.phase \in {"ready", "published"}
      /\ NextSafe(GivenUp, vault[d], j)
  BY EngineAlone DEF TypeInv, TypeOK, AllSafe, DeviceSafe, JobSafe, Engine, PushSteps,
     Publish, Relist
<1>2. CASE Publish(d)
  <2> DEFINE k == [j EXCEPT !.phase = "published"]
  <2>1. job'[d] \in {IdleJob, k}
    BY <1>1, <1>2 DEF Publish
  <2>2. /\ k.phase = "published" /\ k.next = j.next /\ k.changed = j.changed
        /\ k.planned = j.planned /\ k.remote = j.remote /\ k.todo = j.todo
    BY <1>1 DEF Job
  <2> HIDE DEF k
  <2>3. JobSafe(GivenUp, vault[d], profile[d], k)
    BY <1>1, <2>2 DEF JobSafe, NextSafe
  <2>4. JobSafe(GivenUp, vault[d], profile[d], job'[d])
    BY <2>1, <2>3, NothingSafe
  <2>5. \A m \in store' : m \in store \/ LineSafe(GivenUp, m)
    BY <1>1, <1>2 DEF Publish, Put, NextSafe
  <2> QED
    BY <1>1, <1>2, <2>4, <2>5, SafeJobStep DEF Publish, files, state, ghosts
<1>3. CASE Relist(d)
  <2> DEFINE new == [p \in Path |-> IF p \notin j.changed THEN FilesOf(j.planned)[p]
                                    ELSE IF p \in profile[d] THEN j.next.files[p]
                                    ELSE Absent]
             b == AdoptPublished(j.next, j.planned, j.changed, profile[d])
  <2>1. j.next \in Manifest /\ j.planned \in MaybeManifest
    BY <1>1 DEF TypeInv, Fits, Job
  <2>2. \A p \in Path : \/ new[p] = Absent
                        \/ p \notin j.changed /\ new[p] = FilesOf(j.planned)[p]
                        \/ p \in j.changed /\ new[p] = j.next.files[p]
    OBVIOUS
  <2>3. new \in [Path -> Hash \cup {Absent}]
    BY <2>1, OnTopOfType DEF FilesOf, Manifest
  <2>4. b = [j.next EXCEPT !.files = new]
    BY DEF AdoptPublished
  <2>5. \/ /\ base' = [base EXCEPT ![d] = b]
           /\ saved' = [saved EXCEPT ![d] = b] \/ UNCHANGED saved
        \/ UNCHANGED <<base, saved>>
    BY <1>3 DEF Relist, Adopt, state
  <2> HIDE DEF new, b
  <2>6. /\ b.files = new /\ b.id = j.next.id /\ b.gen = j.next.gen
    BY <2>1, <2>3, <2>4 DEF Manifest
  <2>7. j.next.id.files = j.next.files /\ j.next.gen > 0
    BY <1>1 DEF NextSafe, LineSafe, Identified, BodyOf
  <2>8. ASSUME NEW p \in Path
        PROVE  /\ Stays(GivenUp, new[p], vault[d][p])
               /\ Stays(GivenUp, new[p], j.next.files[p])
    <3>1. CASE new[p] = Absent
      BY <3>1, MarkAssumption DEF Stays
    <3>2. CASE p \notin j.changed /\ new[p] = FilesOf(j.planned)[p]
      BY <1>1, <3>2 DEF JobSafe, PlanSafe, NextSafe
    <3>3. CASE p \in j.changed /\ new[p] = j.next.files[p]
      BY <1>1, <3>3 DEF NextSafe, Stays
    <3> QED
      BY <2>2, <3>1, <3>2, <3>3
  <2>9. BaseSafe(GivenUp, vault[d], b)
    BY <2>6, <2>7, <2>8 DEF BaseSafe
  <2>10. /\ JobSafe(GivenUp, vault[d], profile[d], job'[d])
         /\ UNCHANGED <<vault, copies, superseded, authored, store, profile>>
    <3>1. job'[d] = IdleJob
      BY <1>1, <1>3 DEF Relist
    <3> QED
      BY <1>3, <3>1, NothingSafe DEF Relist, files, ghosts
  <2> QED
    BY <1>1, <2>5, <2>9, <2>10, SafeBaseStep, SafeJobStep
<1> QED
  BY <1>2, <1>3

\* What an operation publishes without a push: nothing it changes is live.
LEMMA PublishingSafe ==
    ASSUME TypeInv, NEW d \in Device, NEW gone, store # {},
           LineSafe(gone, Top(store)), PlanSafe(gone, vault[d], Planned(d), Top(store)),
           NEW body \in Body, body.gen = GenOf(Top(store)) + 1, NEW changed,
           \A p \in Path : IF p \in changed
                           THEN body.files[p] = Absent /\ body.markers[p] = body.gen
                           ELSE /\ body.files[p] = Top(store).files[p]
                                /\ body.markers[p] = Top(store).markers[p]
    PROVE  JobSafe(gone, vault[d], profile[d], Publishing(d, body, changed))
<1> DEFINE top == Top(store)
           next == Stamped(body, top)
           j == Publishing(d, body, changed)
<1>1. /\ top \in MaybeManifest /\ FilesOf(top) = top.files
      /\ OnTopOf(top).markers = top.markers
  BY TopType, NoManifestAssumption DEF FilesOf, OnTopOf
<1>2. \A p \in Path : \/ body.markers[p] = body.gen
                      \/ /\ body.markers[p] = OnTopOf(top).markers[p]
                         /\ Stays(gone, FilesOf(top)[p], body.files[p])
  BY <1>1 DEF Stays
<1>3. next.files = body.files
  BY DEF Stamped
<1>4. /\ j.phase = "ready" /\ j.remote = top /\ j.planned = Planned(d) /\ j.todo = {}
      /\ j.next = next /\ j.changed = changed
  BY DEF Publishing
<1> HIDE DEF top
<1>5. LineSafe(gone, next)
  BY <1>1, <1>2, StampedSafe DEF top
<1> HIDE DEF next, j
<1>6. ASSUME NEW p \in Path
      PROVE  IF p \in changed
             THEN Stays(gone, next.files[p], vault[d][p])
             ELSE Stays(gone, FilesOf(Planned(d))[p], next.files[p])
  <2>1. CASE p \in changed
    BY <1>3, <2>1, MarkAssumption DEF Stays
  <2>2. CASE p \notin changed
    <3>1. next.files[p] = FilesOf(top)[p]
      BY <1>1, <1>3, <2>2 DEF top
    <3> QED
      BY <2>2, <3>1 DEF PlanSafe, top
  <2> QED
    BY <2>1, <2>2
<1>7. JobSafe(gone, vault[d], profile[d], j)
  BY <1>4, <1>5, <1>6 DEF JobSafe, TodoSafe, NextSafe, top
<1> QED
  BY <1>7 DEF j

\* A pull, a push or a confirmed plan begins with a plan made from fresh reads.
LEMMA BeginsWithPlan ==
    ASSUME NEW d \in Device, PullBegin(d) \/ PushBegin(d) \/ ConfirmBegin(d)
    PROVE  \E U \in Unreadable(d), phase \in {"pull", "push"}, full \in BOOLEAN :
             \E todo \in SUBSET PlanFor(d, U) :
               /\ job' = [job EXCEPT ![d] = Planning(d, U, phase, full, todo)]
               /\ phase = "pull" => OpsOf(PlanFor(d, U), PullKinds) \subseteq todo
<1>1. CASE PullBegin(d)
  <2>1. PICK U \in Unreadable(d) :
          job' = [job EXCEPT ![d] =
                    Planning(d, U, "pull", FALSE, OpsOf(PlanFor(d, U), PullKinds))]
    BY <1>1 DEF PullBegin
  <2>2. OpsOf(PlanFor(d, U), PullKinds) \in SUBSET PlanFor(d, U)
    BY DEF OpsOf
  <2> QED
    BY <2>1, <2>2
<1>2. CASE PushBegin(d)
  <2>1. PICK U \in Unreadable(d) :
          job' = [job EXCEPT ![d] =
                    Planning(d, U, "push", FALSE, OpsOf(PlanFor(d, U), PushKinds))]
    BY <1>2 DEF PushBegin
  <2>2. OpsOf(PlanFor(d, U), PushKinds) \in SUBSET PlanFor(d, U)
    BY DEF OpsOf
  <2> QED
    BY <2>1, <2>2
<1>3. CASE ConfirmBegin(d)
  <2>1. PICK U \in Unreadable(d) :
          job' = [job EXCEPT ![d] =
                    Planning(d, U, IF store = {} THEN "push" ELSE "pull", TRUE,
                             IF store = {} THEN OpsOf(PlanFor(d, U), PushKinds)
                                           ELSE PlanFor(d, U))]
    BY <1>3 DEF ConfirmBegin
  <2>2. CASE store = {}
    <3>1. job' = [job EXCEPT ![d] =
                    Planning(d, U, "push", TRUE, OpsOf(PlanFor(d, U), PushKinds))]
      BY <2>1, <2>2
    <3>2. OpsOf(PlanFor(d, U), PushKinds) \in SUBSET PlanFor(d, U)
      BY DEF OpsOf
    <3> QED
      BY <3>1, <3>2
  <2>3. CASE store # {}
    <3>1. job' = [job EXCEPT ![d] = Planning(d, U, "pull", TRUE, PlanFor(d, U))]
      BY <2>1, <2>3
    <3>2. OpsOf(PlanFor(d, U), PullKinds) \subseteq PlanFor(d, U)
      BY DEF OpsOf
    <3> QED
      BY <3>1, <3>2
  <2> QED
    BY <2>2, <2>3
<1> QED
  BY <1>1, <1>2, <1>3

\* The jobs that begin, all of them with a fresh plan or a body to publish.
LEMMA SafeBegin ==
    ASSUME TypeInv, InReach, AllSafe, NEW d \in Device,
           \/ PullBegin(d) \/ PushBegin(d) \/ ConfirmBegin(d)
           \/ ForgetBegin(d) \/ ReleaseBegin(d)
    PROVE  AllSafe'
<1>1. job \in [Device -> Job] /\ OthersStand(d) /\ BaseSafe(GivenUp, vault[d], base[d])
  BY EngineAlone DEF TypeInv, TypeOK, AllSafe, DeviceSafe, Engine, Pull
<1>2. UNCHANGED <<vault, copies, superseded, authored, base, saved, profile, store>>
  BY DEF PullBegin, PushBegin, ConfirmBegin, ForgetBegin, ReleaseBegin, files, state, ghosts
<1>3. Top(store) # NoManifest => LineSafe(GivenUp, Top(store))
  BY TopType DEF AllSafe
<1>4. PlanSafe(GivenUp, vault[d], Planned(d), Top(store))
  <2>1. ~RolledBack(base[d], store)
    BY DEF PullBegin, PushBegin, ConfirmBegin, ForgetBegin, ReleaseBegin
  <2> QED
    BY <1>1, <1>3, <2>1, PlannedSafe
<1>5. CASE PullBegin(d) \/ PushBegin(d) \/ ConfirmBegin(d)
  <2>1. PICK U \in Unreadable(d), phase \in {"pull", "push"}, full \in BOOLEAN :
          \E todo \in SUBSET PlanFor(d, U) :
            /\ job' = [job EXCEPT ![d] = Planning(d, U, phase, full, todo)]
            /\ phase = "pull" => OpsOf(PlanFor(d, U), PullKinds) \subseteq todo
    BY <1>5, BeginsWithPlan
  <2>2. PICK todo \in SUBSET PlanFor(d, U) :
          /\ job' = [job EXCEPT ![d] = Planning(d, U, phase, full, todo)]
          /\ phase = "pull" => OpsOf(PlanFor(d, U), PullKinds) \subseteq todo
    BY <2>1
  <2>3. U \in SUBSET Path
    BY UnreadableType
  <2>4. JobSafe(GivenUp, vault[d], profile[d], Planning(d, U, phase, full, todo))
    BY <1>3, <1>4, <2>2, <2>3, PlanningSafe
  <2>5. job'[d] = Planning(d, U, phase, full, todo)
    BY <1>1, <2>2
  <2> QED
    BY <1>1, <1>2, <2>4, <2>5, SafeJobStep
<1>6. CASE ForgetBegin(d) \/ ReleaseBegin(d)
  <2> DEFINE top == Top(store)
  <2>1. top \in Manifest /\ GenOf(top) + 1 \in Nat /\ store # {}
    BY <1>6, TopType DEF ForgetBegin, ReleaseBegin
  <2>2. PICK body \in Body :
          /\ body.gen = GenOf(top) + 1
          /\ \E changed :
               /\ job' = [job EXCEPT ![d] = Publishing(d, body, changed)]
               /\ \A p \in Path : IF p \in changed
                                  THEN body.files[p] = Absent /\ body.markers[p] = body.gen
                                  ELSE /\ body.files[p] = top.files[p]
                                       /\ body.markers[p] = top.markers[p]
    <3>1. CASE ForgetBegin(d)
      <4>1. PICK gone \in SUBSET {p \in Path : top.files[p] # Absent} :
              job' = [job EXCEPT ![d] =
                        Publishing(d, ForgetNext(top, GenOf(top) + 1, d, gone), gone)]
        BY <3>1 DEF ForgetBegin
      <4> DEFINE body == ForgetNext(top, GenOf(top) + 1, d, gone)
      <4>2. body \in Body
        BY <2>1, ForgetNextType
      <4>3. /\ body.gen = GenOf(top) + 1
            /\ \A p \in Path : IF p \in gone
                               THEN body.files[p] = Absent /\ body.markers[p] = body.gen
                               ELSE /\ body.files[p] = top.files[p]
                                    /\ body.markers[p] = top.markers[p]
        BY DEF ForgetNext
      <4> HIDE DEF body, top
      <4> QED
        BY <4>1, <4>2, <4>3 DEF body
    <3>2. CASE ReleaseBegin(d)
      <4> DEFINE body == ReleaseNext(top, GenOf(top) + 1, d)
                 none == {}
      <4>1. job' = [job EXCEPT ![d] = Publishing(d, body, none)]
        BY <3>2 DEF ReleaseBegin
      <4>2. body \in Body
        BY <2>1, ReleaseNextType
      <4>3. /\ body.gen = GenOf(top) + 1
            /\ \A p \in Path : IF p \in none
                               THEN body.files[p] = Absent /\ body.markers[p] = body.gen
                               ELSE /\ body.files[p] = top.files[p]
                                    /\ body.markers[p] = top.markers[p]
        BY DEF ReleaseNext
      <4> HIDE DEF body, top, none
      <4> QED
        BY <4>1, <4>2, <4>3
    <3> QED
      BY <1>6, <3>1, <3>2
  <2>3. PICK changed :
          /\ job' = [job EXCEPT ![d] = Publishing(d, body, changed)]
          /\ \A p \in Path : IF p \in changed
                             THEN body.files[p] = Absent /\ body.markers[p] = body.gen
                             ELSE /\ body.files[p] = top.files[p]
                                  /\ body.markers[p] = top.markers[p]
    BY <2>2
  <2>4. LineSafe(GivenUp, top)
    BY <1>3, <2>1, NoManifestAssumption
  <2>5. JobSafe(GivenUp, vault[d], profile[d], Publishing(d, body, changed))
    BY <1>4, <2>1, <2>2, <2>3, <2>4, PublishingSafe
  <2>6. job'[d] = Publishing(d, body, changed)
    BY <1>1, <2>3
  <2> QED
    BY <1>1, <1>2, <2>5, <2>6, SafeJobStep
<1> QED
  BY <1>5, <1>6

\* No operation of the engine takes what no user gave up.
LEMMA SafeEngine ==
    ASSUME TypeInv, PathsTold, InReach, AllSafe, NEW d \in Device,
           Engine(d) \/ Abandon(d) \/ Crash(d)
    PROVE  AllSafe'
<1>1. /\ OthersStand(d) /\ job \in [Device -> Job]
      /\ base \in [Device -> MaybeManifest] /\ saved \in [Device -> MaybeManifest]
      /\ BaseSafe(GivenUp, vault[d], saved[d])
      /\ JobSafe(GivenUp, vault[d], profile[d], job[d])
  BY EngineAlone DEF TypeInv, TypeOK, AllSafe, DeviceSafe
<1>2. CASE Preview(d) \/ Dismiss(d)
  BY <1>1, <1>2, SafeJobStep DEF Preview, Dismiss, files, state, ghosts
<1>3. CASE ForgetBase(d) \/ AcceptRolledBack(d)
  <2>1. /\ base' = [base EXCEPT ![d] = NoManifest] /\ saved' = [saved EXCEPT ![d] = NoManifest]
        /\ UNCHANGED <<vault, copies, superseded, authored, store, profile, job>>
    BY <1>3 DEF ForgetBase, AcceptRolledBack, DropBase, files, ghosts
  <2>2. BaseSafe(GivenUp, vault[d], NoManifest) /\ job'[d] = job[d]
    BY <2>1, NothingSafe
  <2> QED
    BY <1>1, <2>1, <2>2, SafeBaseStep
<1>4. CASE Abandon(d)
  <2>1. /\ job'[d] = IdleJob
        /\ UNCHANGED <<vault, copies, superseded, authored, base, saved, profile, store>>
    BY <1>1, <1>4 DEF Abandon, files, state, ghosts
  <2>2. JobSafe(GivenUp, vault[d], profile[d], job'[d])
    BY <2>1, NothingSafe
  <2> QED
    BY <1>1, <2>1, <2>2, SafeJobStep
<1>5. CASE Crash(d)
  <2> DEFINE m == saved[d]
             new == [p \in Path |-> IF p \in profile[d] THEN m.files[p] ELSE Absent]
             b == Loaded(m, profile[d])
  <2>1. BaseSafe(GivenUp, vault[d], b)
    <3>1. CASE m = NoManifest \/ ~Parses(m)
      BY <3>1, NothingSafe DEF Loaded
    <3>2. CASE m # NoManifest /\ Parses(m)
      <4>1. m \in Manifest
        BY <1>1, <3>2 DEF MaybeManifest
      <4>2. b = [m EXCEPT !.files = new]
        BY <3>2 DEF Loaded
      <4>3. \A p \in Path : new[p] \in {Absent, m.files[p]}
        OBVIOUS
      <4>4. m.gen > 0 /\ \A p \in Path : /\ Stays(GivenUp, m.files[p], m.id.files[p])
                                         /\ Stays(GivenUp, m.files[p], vault[d][p])
        BY <1>1, <3>2 DEF BaseSafe
      <4> HIDE DEF new, b, m
      <4>5. b.files = new /\ b.id = m.id /\ b.gen = m.gen
        BY <4>1, <4>2 DEF Manifest
      <4>6. \A p \in Path : /\ Stays(GivenUp, new[p], m.id.files[p])
                            /\ Stays(GivenUp, new[p], vault[d][p])
        BY <4>3, <4>4, MarkAssumption DEF Stays
      <4> QED
        BY <4>4, <4>5, <4>6 DEF BaseSafe
    <3> QED
      BY <3>1, <3>2
  <2>2. /\ base' = [base EXCEPT ![d] = b] /\ job'[d] = IdleJob
        /\ UNCHANGED <<saved, vault, copies, superseded, authored, store, profile>>
    BY <1>1, <1>5 DEF Crash, files, ghosts
  <2> HIDE DEF b
  <2>3. JobSafe(GivenUp, vault[d], profile[d], job'[d])
    BY <2>2, NothingSafe
  <2> QED
    BY <1>1, <2>1, <2>2, <2>3, SafeBaseStep
<1> QED
  BY <1>2, <1>3, <1>4, <1>5, SafeBegin, SafeApply, SafeFinishPull, SafePushFiles,
     SafePublished DEF Engine, Pull, PushSteps

\* Nor does any other step.
LEMMA SafeNext ==
    ASSUME TypeInv, PathsTold, InReach, AllSafe, [Next]_vars
    PROVE  AllSafe'
<1>1. ASSUME store' \subseteq store,
             UNCHANGED <<vault, copies, profile, base, saved, job, authored, superseded>>
      PROVE  AllSafe'
  <2>1. GivenUp' = GivenUp /\ Visible' = Visible
    BY <1>1 DEF GivenUp, Visible
  <2> QED
    BY <1>1, <2>1 DEF AllSafe
<1>2. CASE Tick \/ StorageRollback \/ UNCHANGED vars
  BY <1>1, <1>2 DEF Tick, StorageRollback, vars, files, state, ghosts
<1> QED
  BY <1>2, SafeUser, SafeEngine DEF Next

\* Where nobody has written anything there is nothing to lose.
LEMMA SafeInit == Init => AllSafe
<1> SUFFICES ASSUME Init
             PROVE  AllSafe
  OBVIOUS
<1>1. ASSUME NEW d \in Device
      PROVE  DeviceSafe(GivenUp, vault[d], profile[d], base[d], saved[d], job[d])
  <2>1. base[d] = NoManifest /\ saved[d] = NoManifest /\ job[d] = IdleJob
    BY DEF Init
  <2> QED
    BY <2>1, NothingSafe DEF DeviceSafe
<1> QED
  BY <1>1 DEF Init, AllSafe

\* A content that was given up and not superseded is a copy; a copy can be seen.
LEMMA SafeMeansSeen == AllSafe => NoEditLost
  BY DEF AllSafe, GivenUp, Visible, NoEditLost

(***************************************************************************)
(* No edit is lost: what a user wrote, and no user has overwritten or      *)
(* deleted since, is some device's file or stands beside one as a copy,    *)
(* through forks, aborted jobs, edits under a running pull, lost bases,    *)
(* restored buckets and changed profiles, on any number of devices.  Two   *)
(* hypotheses are needed: no device's filesystem confuses paths, and the   *)
(* lineage of the top manifest reaches the bases (engine.ts: baseFor,      *)
(* doPull, doPush, publishManifest; apply.ts: applyPullOps).               *)
(***************************************************************************)
THEOREM NoEditIsEverLost ==
    ASSUME PathsTold
    PROVE  Spec /\ []InReach => []NoEditLost
<1>1. TypeInv /\ InReach /\ AllSafe /\ [Next]_vars => AllSafe'
  BY SafeNext
<1>2. Spec => []TypeInv
  BY TypeInvariant
<1> QED
  BY <1>1, <1>2, SafeInit, SafeMeansSeen, PTL DEF Spec

(***************************************************************************)
(* So it is without the second hypothesis in a vault that has had fewer    *)
(* generations than a lineage keeps (manifest.ts: LINEAGE_DEPTH).          *)
(***************************************************************************)
COROLLARY NoEditLostWithinTheLineage ==
    ASSUME PathsTold, MaxGen <= LineageDepth
    PROVE  Spec => []NoEditLost
<1>1. ASSUME TypeInv
      PROVE  InReach
  <2>1. ASSUME NEW d \in Device, base[d] # NoManifest
        PROVE  GenOf(Top(store)) - base[d].gen <= LineageDepth
    <3>1. base[d].gen \in Nat
      BY <1>1, <2>1 DEF TypeInv, TypeOK, MaybeManifest, Manifest
    <3>2. GenOf(Top(store)) \in Nat /\ GenOf(Top(store)) <= MaxGen
      <4>1. GenOf(NoManifest) = 0
        BY DEF GenOf
      <4> QED
        BY <1>1, <4>1, TopType, ParameterAssumption
    <3>3. MaxGen \in Nat /\ LineageDepth \in Nat
      BY ParameterAssumption, LineageAssumption
    <3> QED
      BY <3>1, <3>2, <3>3
  <2> QED
    BY <2>1 DEF InReach
<1>2. Spec => []TypeInv
  BY TypeInvariant
<1>3. Spec /\ []InReach => []NoEditLost
  BY NoEditIsEverLost
<1> QED
  BY <1>1, <1>2, <1>3, PTL

---------------------------------------------------------------------------
(* The deletions.  A tombstone is published where a base vouches for a     *)
(* file that is not there; so the question is how a file can be missing.   *)

(***************************************************************************)
(* The paths a device may publish a tombstone for: those its user has      *)
(* deleted (`own`), or those some user has.                                *)
(***************************************************************************)
Told(own) ==
    [e \in Device |-> {p \in Path : IF own THEN <<e, p>> \in deletions
                                    ELSE \E f \in Device : <<f, p>> \in deletions}]

TombsTold(told, m) ==
    \A p \in Path : m.tombs[p] # Absent => p \in told[m.tombs[p].dev]

(***************************************************************************)
(* What a running pull moves to the trash is missing until its base says   *)
(* so too: it is the storage's deletion, not this user's.                  *)
(***************************************************************************)
Trashed(own, j) ==
    IF own /\ j.phase = "pull"
    THEN {p \in Path : p \notin j.held /\ FilesOf(j.remote)[p] = Absent}
    ELSE {}

\* A content named for a path: the path has a file, or it is known to be gone.
Found(gone, mine, x, p) == x # Absent => mine[p] # Absent \/ p \in gone

EntriesTold(gone, mine, m) == \A p \in Path : Found(gone, mine, FilesOf(m)[p], p)

(***************************************************************************)
(* A job's operations are about paths of their own; a deletion it will     *)
(* publish has been told, and so has one it will carry out, unless only    *)
(* the deletions of this device's user count.                              *)
(***************************************************************************)
TodoTold(own, gone, mine, j) ==
    \A op \in j.todo :
        /\ op.path \notin j.held
        /\ \A o \in j.todo : o.path = op.path => o = op
        /\ Found(gone, mine, op.local, op.path)
        /\ op.kind = "deleteRemote" => op.path \in gone
        /\ op.kind = "deleteLocal" => /\ op.local # Absent
                                      /\ FilesOf(j.remote)[op.path] = Absent
                                      /\ own \/ op.path \in gone

PullTold(gone, mine, carried, j) ==
    \A p \in carried \ j.held :
        \/ Found(gone, mine, FilesOf(j.remote)[p], p)
        \/ \E op \in j.todo : op.path = p /\ op.kind \in {"download", "conflict"}

JobTold(own, told, d, mine, carried, j) ==
    /\ j.remote # NoManifest => TombsTold(told, j.remote)
    /\ EntriesTold(told[d] \cup Trashed(own, j), mine, j.planned)
    /\ TodoTold(own, told[d], mine, j)
    /\ j.phase = "pull" => PullTold(told[d], mine, carried, j)
    /\ j.phase \in {"ready", "published"} =>
         /\ TombsTold(told, j.next)
         /\ \A p \in j.changed : Found(told[d], mine, j.next.files[p], p)

BasesTold(gone, mine, b, s) == EntriesTold(gone, mine, b) /\ EntriesTold(gone, mine, s)

DeviceTold(own, told, d, mine, carried, b, s, j) ==
    /\ BasesTold(told[d] \cup Trashed(own, j), mine, b, s)
    /\ JobTold(own, told, d, mine, carried, j)

AllTold(own) ==
    /\ \A m \in store : TombsTold(Told(own), m)
    /\ \A d \in Device :
         DeviceTold(own, Told(own), d, vault[d], profile[d], base[d], saved[d], job[d])

(***************************************************************************)
(* A pull that began ends, and its base is saved: what it trashes without  *)
(* that looks like its user's deletion to the next sync.                   *)
(***************************************************************************)
Undisturbed ==
    \A d \in Device : /\ Abandon(d) \/ Crash(d) => job[d].phase # "pull"
                      /\ FinishPull(d) => saved'[d] = base'[d]

\* Every tombstone in the storage is about a path that some user has deleted.
TombstonesHaveDeletions ==
    \A m \in store, p \in Path :
        m.tombs[p] # Absent => \E e \in Device : <<e, p>> \in deletions

---------------------------------------------------------------------------
(* Facts about the parts.                                                  *)

\* What one device may publish, the others may see.
ToldMore(told, more) == \A e \in Device : told[e] \subseteq more[e]

\* A tombstone that was told stays told.
LEMMA TombsGrow ==
    ASSUME NEW told, NEW more, ToldMore(told, more), NEW m \in Manifest, TombsTold(told, m)
    PROVE  TombsTold(more, m)
<1>1. \A p \in Path : m.tombs[p] # Absent => m.tombs[p].dev \in Device
  BY DEF Manifest, Tombstone
<1> QED
  BY <1>1 DEF TombsTold, ToldMore

\* An entry is accounted for while the files stay or their deletion is told.
LEMMA EntriesGrow ==
    ASSUME NEW gone, NEW more, gone \subseteq more, NEW mine, NEW later,
           \A p \in Path : Found(more, later, mine[p], p),
           NEW m, EntriesTold(gone, mine, m)
    PROVE  EntriesTold(more, later, m)
  BY DEF EntriesTold, Found

\* So is what a job knows.
LEMMA JobToldGrows ==
    ASSUME NEW own \in BOOLEAN, NEW told, NEW more, ToldMore(told, more), NEW d \in Device,
           NEW mine, NEW later, \A p \in Path : Found(more[d], later, mine[p], p),
           NEW carried \in SUBSET Path, NEW j \in Job, Fits(j),
           JobTold(own, told, d, mine, carried, j)
    PROVE  JobTold(own, more, d, later, carried, j)
<1>1. j.remote # NoManifest => TombsTold(more, j.remote)
  BY TombsGrow DEF JobTold, Job, MaybeManifest
<1>2. EntriesTold(more[d] \cup Trashed(own, j), later, j.planned)
  BY DEF JobTold, EntriesTold, Found, ToldMore
<1>3. TodoTold(own, more[d], later, j)
  <2>1. \A op \in j.todo : op.path \in Path
    BY DEF Job, Op
  <2> QED
    BY <2>1 DEF JobTold, TodoTold, Found, ToldMore
<1>4. j.phase = "pull" => PullTold(more[d], later, carried, j)
  BY DEF JobTold, PullTold, Found, ToldMore
<1>5. ASSUME j.phase \in {"ready", "published"}
      PROVE  /\ TombsTold(more, j.next)
             /\ \A p \in j.changed : Found(more[d], later, j.next.files[p], p)
  <2>1. j.next \in Manifest /\ j.changed \in SUBSET Path
    BY <1>5 DEF Fits, Job
  <2>2. TombsTold(told, j.next) /\ \A p \in j.changed : Found(told[d], mine, j.next.files[p], p)
    BY <1>5 DEF JobTold
  <2>3. TombsTold(more, j.next)
    BY <2>1, <2>2, TombsGrow
  <2> QED
    BY <2>1, <2>2, <2>3 DEF Found, ToldMore
<1> QED
  BY <1>1, <1>2, <1>3, <1>4, <1>5 DEF JobTold

\* And so is a device.
LEMMA DeviceToldGrows ==
    ASSUME NEW own \in BOOLEAN, NEW told, NEW more, ToldMore(told, more), NEW d \in Device,
           NEW mine, NEW later, \A p \in Path : Found(more[d], later, mine[p], p),
           NEW carried \in SUBSET Path, NEW b, NEW s, NEW j \in Job, Fits(j),
           DeviceTold(own, told, d, mine, carried, b, s, j)
    PROVE  DeviceTold(own, more, d, later, carried, b, s, j)
<1>1. JobTold(own, more, d, later, carried, j)
  BY JobToldGrows DEF DeviceTold
<1>2. BasesTold(more[d] \cup Trashed(own, j), later, b, s)
  BY DEF DeviceTold, BasesTold, EntriesTold, Found, ToldMore
<1> QED
  BY <1>1, <1>2 DEF DeviceTold

\* No job and no base vouch for anything.
LEMMA NothingTold ==
    ASSUME NEW own, NEW told, NEW gone, NEW d, NEW mine, NEW carried
    PROVE  /\ EntriesTold(gone, mine, NoManifest)
           /\ JobTold(own, told, d, mine, carried, IdleJob)
           /\ Trashed(own, IdleJob) = {}
<1>1. \A p \in Path : FilesOf(NoManifest)[p] = Absent
  BY DEF FilesOf, OnTopOf, Blank
<1>2. Trashed(own, IdleJob) = {}
  BY DEF Trashed, IdleJob
<1> QED
  BY <1>1, <1>2 DEF JobTold, EntriesTold, Found, TodoTold, IdleJob

---------------------------------------------------------------------------
(* What a plan deletes, some user has deleted.                             *)

\* Of the entries a base vouches for, the planner sees those not forgotten.
LEMMA PlannedTold ==
    ASSUME TypeInv, NEW d \in Device, NEW gone, NEW mine, EntriesTold(gone, mine, base[d])
    PROVE  EntriesTold(gone, mine, Planned(d))
<1> DEFINE b == base[d]
           top == Top(store)
           new == [p \in Path |-> IF b.gen < top.markers[p] /\ top.files[p] # b.files[p]
                                  THEN Absent ELSE b.files[p]]
<1>1. CASE Planned(d) = NoManifest
  BY <1>1, NothingTold
<1>2. CASE Planned(d) = b
  BY <1>2
<1>3. CASE Planned(d) # NoManifest /\ Planned(d) # b
  <2>1. b # NoManifest /\ Planned(d) = WithoutForgotten(b, top)
    BY <1>3 DEF Planned, BaseFor
  <2>2. b \in Manifest
    BY <2>1 DEF TypeInv, TypeOK, MaybeManifest
  <2>3. Planned(d) = [b EXCEPT !.files = new]
    BY <2>1 DEF WithoutForgotten
  <2>4. new \in [Path -> Hash \cup {Absent}]
    BY <2>2 DEF Manifest
  <2>5. FilesOf(Planned(d)) = new
    BY <2>2, <2>3, <2>4, ReplacedFiles
  <2>6. FilesOf(b) = b.files
    BY <2>1 DEF FilesOf, OnTopOf
  <2> QED
    BY <2>5, <2>6 DEF EntriesTold, Found
<1> QED
  BY <1>1, <1>2, <1>3

\* A file goes to the trash only for a tombstone.
LEMMA TrashedForTombstone ==
    ASSUME NEW l \in LocalSide, NEW b \in ManifestSide, NEW r \in ManifestSide,
           ThreeWay(l, b, r) = "deleteLocal"
    PROVE  r = Tombstoned
<1>1. ~Live(r) /\ r # Absent
  BY DEF ThreeWay
<1> QED
  BY <1>1, LiveSides

\* There is one operation for a path.
LEMMA PlanOnce ==
    ASSUME NEW d \in Device, NEW U, NEW op \in PlanFor(d, U), NEW o \in PlanFor(d, U),
           o.path = op.path
    PROVE  o = op
<1>1. \A x \in PlanFor(d, U) : x = Operation(Scan(d, U), Planned(d), Top(store), x.path)
  BY DEF PlanFor, PlanOps, Operations, Operation
<1>2. /\ o = Operation(Scan(d, U), Planned(d), Top(store), o.path)
      /\ op = Operation(Scan(d, U), Planned(d), Top(store), op.path)
  BY <1>1
<1> QED
  BY <1>2

(***************************************************************************)
(* The deletions of a plan: published for a file the base vouches for and  *)
(* the scan did not find, carried out for a tombstone in the storage.      *)
(***************************************************************************)
LEMMA PlanDeletes ==
    ASSUME TypeInv, NEW d \in Device, NEW U \in SUBSET Path, NEW op \in PlanFor(d, U)
    PROVE  /\ op.path \in Path \ U /\ op.local = vault[d][op.path]
           /\ op.kind = "deleteRemote" => /\ vault[d][op.path] = Absent
                                          /\ FilesOf(Planned(d))[op.path] # Absent
           /\ op.kind = "deleteLocal" => /\ op.local # Absent
                                         /\ FilesOf(Top(store))[op.path] = Absent
                                         /\ SideOf(Top(store), op.path) = Tombstoned
<1> DEFINE p == op.path
           l == Scan(d, U)[p]
           b == SideOf(Planned(d), p)
           r == SideOf(Top(store), p)
<1>1. /\ p \in Path /\ op.local = l /\ p \in profile[d] \ U
      /\ op.kind # "conflict" => op.kind = Decision(d, U, p)
      /\ l = vault[d][p]
  BY PlanDecides, PlanReads DEF Scan
<1>2. /\ l \in LocalSide /\ b \in ManifestSide /\ r \in ManifestSide
      /\ Decision(d, U, p) = ThreeWay(l, b, r)
  BY <1>1, PlanSides DEF Decision
<1>3. /\ Live(b) => b = FilesOf(Planned(d))[p]
      /\ ~Live(r) => FilesOf(Top(store))[p] = Absent
      /\ Live(l) <=> l # Absent
  BY <1>1, <1>2, PlannedType, SideFiles, LiveSides
<1> HIDE DEF p, l, b, r
<1>4. ThreeWay(l, b, r) = "deleteRemote" => l = Absent /\ Live(b)
  <2>1. ThreeWay(l, b, r) = "deleteRemote" => l = Absent /\ Live(r) /\ b = r
    BY <1>2, MergeTakes
  <2> QED
    BY <2>1
<1>5. ThreeWay(l, b, r) = "deleteLocal" => Live(l) /\ ~Live(r) /\ r = Tombstoned
  <2>1. ThreeWay(l, b, r) = "deleteLocal" => Live(l) /\ ~Live(r)
    BY <1>2, MergeTakes
  <2> QED
    BY <1>2, <2>1, TrashedForTombstone
<1>6. Live(b) => b # Absent
  BY <1>2, LiveSides
<1>7. /\ p \in Path \ U /\ op.local = vault[d][p]
      /\ op.kind = "deleteRemote" => /\ vault[d][p] = Absent
                                     /\ FilesOf(Planned(d))[p] # Absent
      /\ op.kind = "deleteLocal" => /\ op.local # Absent
                                    /\ FilesOf(Top(store))[p] = Absent
                                    /\ r = Tombstoned
  BY <1>1, <1>2, <1>3, <1>4, <1>5, <1>6
<1> QED
  BY <1>7 DEF p, r

\* A path that could be read is fetched, is there, or its absence is told.
LEMMA PlanMissesNothing ==
    ASSUME TypeInv, NEW d \in Device, NEW U \in SUBSET Path, NEW gone,
           EntriesTold(gone, vault[d], Planned(d)), NEW p \in profile[d] \ U
    PROVE  \/ Found(gone, vault[d], FilesOf(Top(store))[p], p)
           \/ \E op \in PlanFor(d, U) : op.path = p /\ op.kind \in {"download", "conflict"}
<1> DEFINE l == Scan(d, U)[p]
           b == SideOf(Planned(d), p)
           r == SideOf(Top(store), p)
<1>1. p \in Path
  BY DEF TypeInv, TypeOK
<1>2. l = vault[d][p]
  BY <1>1 DEF Scan
<1>3. /\ l \in LocalSide /\ b \in ManifestSide /\ r \in ManifestSide
      /\ Decision(d, U, p) = ThreeWay(l, b, r)
  BY <1>1, PlanSides DEF Decision
<1>4. /\ Live(r) => r = FilesOf(Top(store))[p]
      /\ ~Live(r) => FilesOf(Top(store))[p] = Absent
      /\ Live(b) => b = FilesOf(Planned(d))[p]
  BY <1>1, PlannedType, SideFiles
<1>5. CASE Decision(d, U, p) \in {"download", "conflict"}
  <2>1. PICK op \in PlanFor(d, U) : op.path = p
    BY <1>5, PlanCovers
  <2> QED
    BY <1>5, <2>1, PlanDecides
<1>6. CASE Decision(d, U, p) \notin {"download", "conflict"}
  <2>1. ~Live(r) \/ l = r \/ b = r
    BY <1>3, <1>6, MergeTakes
  <2>2. CASE ~Live(r)
    BY <1>4, <2>2 DEF Found
  <2>3. CASE Live(r) /\ l = r
    BY <1>2, <1>4, <2>3 DEF Found
  <2>4. CASE Live(r) /\ b = r
    <3>1. FilesOf(Planned(d))[p] = FilesOf(Top(store))[p]
      BY <1>4, <2>4
    <3> QED
      BY <1>1, <3>1 DEF EntriesTold
  <2> QED
    BY <2>1, <2>2, <2>3, <2>4
<1> QED
  BY <1>5, <1>6

\* So a pull that has just planned will have what is missing.
LEMMA PullPlannedTold ==
    ASSUME TypeInv, NEW d \in Device, NEW U \in SUBSET Path, NEW gone,
           EntriesTold(gone, vault[d], Planned(d)), NEW full, NEW phase,
           NEW todo \in SUBSET PlanFor(d, U), OpsOf(PlanFor(d, U), PullKinds) \subseteq todo
    PROVE  PullTold(gone, vault[d], profile[d], Planning(d, U, phase, full, todo))
<1> DEFINE j == Planning(d, U, phase, full, todo)
<1>1. j.held = U /\ j.todo = todo /\ j.remote = Top(store)
  BY DEF Planning
<1> HIDE DEF j
<1>2. ASSUME NEW p \in profile[d] \ U
      PROVE  \/ Found(gone, vault[d], FilesOf(Top(store))[p], p)
             \/ \E op \in todo : op.path = p /\ op.kind \in {"download", "conflict"}
  <2>1. ASSUME NEW op \in PlanFor(d, U), op.path = p, op.kind \in {"download", "conflict"}
        PROVE  op \in todo
    BY <2>1 DEF OpsOf, PullKinds
  <2>2. \/ Found(gone, vault[d], FilesOf(Top(store))[p], p)
        \/ \E op \in PlanFor(d, U) : op.path = p /\ op.kind \in {"download", "conflict"}
    BY <1>2, PlanMissesNothing
  <2> QED
    BY <2>1, <2>2
<1> QED
  BY <1>1, <1>2 DEF j, PullTold

\* So a job that has just planned deletes what was deleted.
LEMMA PlanningTold ==
    ASSUME TypeInv, NEW own \in BOOLEAN, NEW told, NEW d \in Device, NEW U \in SUBSET Path,
           ~own => \A e, f \in Device : told[e] = told[f],
           EntriesTold(told[d], vault[d], Planned(d)),
           Top(store) # NoManifest => TombsTold(told, Top(store)),
           NEW phase \in {"pull", "push"}, NEW full, NEW todo \in SUBSET PlanFor(d, U),
           phase = "pull" => OpsOf(PlanFor(d, U), PullKinds) \subseteq todo
    PROVE  JobTold(own, told, d, vault[d], profile[d], Planning(d, U, phase, full, todo))
<1> DEFINE j == Planning(d, U, phase, full, todo)
<1>1. /\ j.planned = Planned(d) /\ j.phase = phase /\ j.held = U /\ j.todo = todo
      /\ j.remote = Top(store)
  BY DEF Planning
<1>2. ASSUME NEW op \in todo
      PROVE  /\ op.path \notin U
             /\ \A o \in todo : o.path = op.path => o = op
             /\ Found(told[d], vault[d], op.local, op.path)
             /\ op.kind = "deleteRemote" => op.path \in told[d]
             /\ op.kind = "deleteLocal" => /\ op.local # Absent
                                           /\ FilesOf(Top(store))[op.path] = Absent
                                           /\ own \/ op.path \in told[d]
  <2>1. /\ op.path \in Path \ U /\ op.local = vault[d][op.path]
        /\ op.kind = "deleteRemote" => /\ vault[d][op.path] = Absent
                                       /\ FilesOf(Planned(d))[op.path] # Absent
        /\ op.kind = "deleteLocal" => /\ op.local # Absent
                                      /\ FilesOf(Top(store))[op.path] = Absent
                                      /\ SideOf(Top(store), op.path) = Tombstoned
    BY PlanDeletes
  <2>2. \A o \in todo : o.path = op.path => o = op
    BY PlanOnce
  <2>3. op.kind = "deleteRemote" => op.path \in told[d]
    BY <2>1 DEF EntriesTold, Found
  <2>4. ASSUME op.kind = "deleteLocal", ~own
        PROVE  op.path \in told[d]
    <3> DEFINE m == Top(store)
    <3>1. m # NoManifest /\ m.tombs[op.path] # Absent
      BY <2>1, <2>4, MarkAssumption, PlannedType DEF SideOf, MaybeManifest, Manifest
    <3>2. m.tombs[op.path].dev \in Device
      BY <2>1, <3>1, PlannedType DEF MaybeManifest, Manifest, Tombstone
    <3>3. op.path \in told[m.tombs[op.path].dev]
      BY <2>1, <3>1 DEF TombsTold
    <3>4. told[m.tombs[op.path].dev] = told[d]
      BY <2>4, <3>2
    <3> QED
      BY <3>3, <3>4
  <2>5. Found(told[d], vault[d], op.local, op.path)
    BY <2>1 DEF Found
  <2> QED
    BY <2>1, <2>2, <2>3, <2>4, <2>5
<1>3. phase = "pull" => PullTold(told[d], vault[d], profile[d], j)
  BY PullPlannedTold
<1>4. EntriesTold(told[d] \cup Trashed(own, j), vault[d], Planned(d))
  BY DEF EntriesTold, Found
<1> HIDE DEF j
<1>5. TodoTold(own, told[d], vault[d], j)
  BY <1>1, <1>2 DEF TodoTold
<1>6. JobTold(own, told, d, vault[d], profile[d], j)
  BY <1>1, <1>3, <1>4, <1>5 DEF JobTold
<1> QED
  BY <1>6 DEF j

---------------------------------------------------------------------------
(* The steps.                                                              *)

\* What a device may publish only grows.
LEMMA ToldGrows ==
    ASSUME NEW own \in BOOLEAN, deletions \subseteq deletions'
    PROVE  ToldMore(Told(own), Told(own)')
  BY DEF ToldMore, Told

(***************************************************************************)
(* A step of one device that loses no deletion, and leaves its bases and   *)
(* its job accounting for what they name, keeps AllTold.                   *)
(***************************************************************************)
LEMMA ToldStep ==
    ASSUME TypeInv, NEW own \in BOOLEAN, AllTold(own), NEW d \in Device, OthersStand(d),
           deletions \subseteq deletions',
           \A m \in store' : m \in store \/ TombsTold(Told(own)', m),
           DeviceTold(own, Told(own)', d, vault'[d], profile'[d], base'[d], saved'[d],
                      job'[d])
    PROVE  AllTold(own)'
<1>1. PICK told : told = Told(own)
  OBVIOUS
<1>2. PICK more : more = Told(own)'
  OBVIOUS
<1>3. ToldMore(told, more)
  BY <1>1, <1>2, ToldGrows
<1>4. ASSUME NEW m \in store'
      PROVE  TombsTold(more, m)
  <2>1. CASE m \in store
    <3>1. TombsTold(told, m) /\ m \in Manifest
      BY <1>1, <2>1 DEF AllTold, TypeInv, TypeOK
    <3> QED
      BY <1>3, <3>1, TombsGrow
  <2>2. CASE TombsTold(Told(own)', m)
    BY <1>2, <2>2
  <2> QED
    BY <2>1, <2>2
<1>5. ASSUME NEW e \in Device
      PROVE  DeviceTold(own, more, e, vault'[e], profile'[e], base'[e], saved'[e], job'[e])
  <2>1. CASE e = d
    BY <1>2, <2>1
  <2>2. CASE e # d
    <3>1. DeviceTold(own, told, e, vault[e], profile[e], base[e], saved[e], job[e])
      BY <1>1 DEF AllTold
    <3>2. /\ vault'[e] = vault[e] /\ profile'[e] = profile[e]
          /\ base'[e] = base[e] /\ saved'[e] = saved[e] /\ job'[e] = job[e]
      BY <2>2 DEF OthersStand
    <3>3. /\ profile[e] \in SUBSET Path /\ job[e] \in Job /\ Fits(job[e])
          /\ \A p \in Path : Found(more[e], vault[e], vault[e][p], p)
      BY DEF TypeInv, TypeOK, Found
    <3>4. PICK mine, b, s : mine = vault[e] /\ b = base[e] /\ s = saved[e]
      OBVIOUS
    <3>5. /\ DeviceTold(own, told, e, mine, profile[e], b, s, job[e])
          /\ \A p \in Path : Found(more[e], mine, mine[p], p)
      BY <3>1, <3>3, <3>4
    <3>6. DeviceTold(own, more, e, mine, profile[e], b, s, job[e])
      BY <1>3, <3>3, <3>5, DeviceToldGrows
    <3> QED
      BY <3>2, <3>4, <3>6, Zenon
  <2> QED
    BY <2>1, <2>2
<1> QED
  BY <1>2, <1>4, <1>5 DEF AllTold

\* Of a step that touches no file, the device's bases and job are all to look at.
LEMMA ToldQuietStep ==
    ASSUME TypeInv, NEW own \in BOOLEAN, AllTold(own), NEW d \in Device, OthersStand(d),
           UNCHANGED <<vault, deletions>>,
           \A m \in store' : m \in store \/ TombsTold(Told(own), m),
           DeviceTold(own, Told(own), d, vault[d], profile'[d], base'[d], saved'[d], job'[d])
    PROVE  AllTold(own)'
<1>1. PICK told : told = Told(own)
  OBVIOUS
<1>2. told = Told(own)'
  BY <1>1 DEF Told
<1>3. \A m \in store' : m \in store \/ TombsTold(told, m)
  BY <1>1
<1>4. DeviceTold(own, told, d, vault[d], profile'[d], base'[d], saved'[d], job'[d])
  BY <1>1
<1>5. DeviceTold(own, Told(own)', d, vault'[d], profile'[d], base'[d], saved'[d], job'[d])
  BY <1>2, <1>4, Zenon
<1>6. \A m \in store' : m \in store \/ TombsTold(Told(own)', m)
  BY <1>2, <1>3, Zenon
<1> QED
  BY <1>5, <1>6, ToldStep

\* Of one that moves the job only, the job and what it trashes.
LEMMA ToldJobStep ==
    ASSUME TypeInv, NEW own \in BOOLEAN, AllTold(own), NEW d \in Device, OthersStand(d),
           UNCHANGED <<vault, deletions, base, saved, profile>>,
           \A m \in store' : m \in store \/ TombsTold(Told(own), m),
           Trashed(own, job[d]) \subseteq Trashed(own, job'[d]),
           JobTold(own, Told(own), d, vault[d], profile[d], job'[d])
    PROVE  AllTold(own)'
<1>1. DeviceTold(own, Told(own), d, vault[d], profile[d], base[d], saved[d], job[d])
  BY DEF AllTold
<1>2. BasesTold(Told(own)[d] \cup Trashed(own, job'[d]), vault[d], base[d], saved[d])
  BY <1>1 DEF DeviceTold, BasesTold, EntriesTold, Found
<1>3. DeviceTold(own, Told(own), d, vault[d], profile'[d], base'[d], saved'[d], job'[d])
  BY <1>2 DEF DeviceTold
<1> QED
  BY <1>3, ToldQuietStep

\* Of one that replaces the base, saved or not, the new base and the job.
LEMMA ToldBaseStep ==
    ASSUME TypeInv, NEW own \in BOOLEAN, AllTold(own), NEW d \in Device, OthersStand(d),
           UNCHANGED <<vault, deletions, store, profile>>,
           NEW b, EntriesTold(Told(own)[d], vault[d], b), base' = [base EXCEPT ![d] = b],
           \/ saved' = [saved EXCEPT ![d] = b]
           \/ UNCHANGED saved /\ Trashed(own, job[d]) = {},
           JobTold(own, Told(own), d, vault[d], profile[d], job'[d])
    PROVE  AllTold(own)'
<1>1. DeviceTold(own, Told(own), d, vault[d], profile[d], base[d], saved[d], job[d])
  BY DEF AllTold
<1>2. base'[d] = b
  BY DEF TypeInv, TypeOK
<1>3. EntriesTold(Told(own)[d], vault[d], saved'[d])
  <2>1. CASE saved' = [saved EXCEPT ![d] = b]
    BY <2>1 DEF TypeInv, TypeOK
  <2>2. CASE UNCHANGED saved /\ Trashed(own, job[d]) = {}
    BY <1>1, <2>2 DEF DeviceTold, BasesTold, EntriesTold, Found
  <2> QED
    BY <2>1, <2>2
<1>4. BasesTold(Told(own)[d] \cup Trashed(own, job'[d]), vault[d], base'[d], saved'[d])
  BY <1>2, <1>3 DEF BasesTold, EntriesTold, Found
<1>5. DeviceTold(own, Told(own), d, vault[d], profile'[d], base'[d], saved'[d], job'[d])
  BY <1>4 DEF DeviceTold
<1> QED
  BY <1>5, ToldQuietStep

\* A user's deletion is told; an edit or a restore leaves a file.
LEMMA ToldUser ==
    ASSUME TypeInv, NEW own \in BOOLEAN, AllTold(own), NEW d \in Device, User(d)
    PROVE  AllTold(own)'
<1>1. /\ vault \in [Device -> [Path -> Side]] /\ profile[d] \in SUBSET Path
      /\ job[d] \in Job /\ Fits(job[d]) /\ OthersStand(d) /\ deletions \subseteq deletions'
      /\ DeviceTold(own, Told(own), d, vault[d], profile[d], base[d], saved[d], job[d])
  BY UserAlone DEF TypeInv, TypeOK, AllTold, User, UserEdit, UserDelete, UserRestore,
     ChangeProfile, ghosts
<1>2. ASSUME NEW p \in Path, UserEdit(d, p) \/ UserDelete(d, p) \/ UserRestore(d, p)
      PROVE  AllTold(own)'
  <2>1. PICK h : /\ vault' = [vault EXCEPT ![d][p] = h]
                 /\ h = Absent => <<d, p>> \in deletions'
    <3>1. CASE UserEdit(d, p) \/ UserRestore(d, p)
      <4>1. PICK h \in Hash : vault' = [vault EXCEPT ![d][p] = h]
        <5>1. CASE UserEdit(d, p)
          BY <5>1 DEF UserEdit
        <5>2. CASE UserRestore(d, p)
          BY <5>2 DEF UserRestore, TypeInv, TypeOK
        <5> QED
          BY <3>1, <5>1, <5>2
      <4>2. h # Absent
        BY MarkAssumption
      <4> QED
        BY <4>1, <4>2
    <3>2. CASE UserDelete(d, p)
      BY <3>2 DEF UserDelete
    <3> QED
      BY <1>2, <3>1, <3>2
  <2>2. UNCHANGED <<profile, base, saved, job, store>>
    BY <1>2 DEF UserEdit, UserDelete, UserRestore, state
  <2>3. vault'[d][p] = h /\ \A q \in Path \ {p} : vault'[d][q] = vault[d][q]
    BY <1>1, <2>1
  <2>4. PICK told : told = Told(own)
    OBVIOUS
  <2>5. PICK more : more = Told(own)'
    OBVIOUS
  <2>6. h = Absent => p \in more[d]
    BY <2>1, <2>5 DEF Told
  <2>7. \A q \in Path : Found(more[d], vault'[d], vault[d][q], q)
    BY <2>3, <2>6 DEF Found
  <2>8. ToldMore(told, more)
    BY <1>1, <2>4, <2>5, ToldGrows
  <2>9. PICK mine, b, s : mine = vault[d] /\ b = base[d] /\ s = saved[d]
    OBVIOUS
  <2>10. PICK later : later = vault'[d]
    OBVIOUS
  <2>11. /\ DeviceTold(own, told, d, mine, profile[d], b, s, job[d])
         /\ \A q \in Path : Found(more[d], later, mine[q], q)
    BY <1>1, <2>4, <2>7, <2>9, <2>10
  <2>12. DeviceTold(own, more, d, later, profile[d], b, s, job[d])
    BY <1>1, <2>8, <2>11, DeviceToldGrows
  <2>13. DeviceTold(own, Told(own)', d, vault'[d], profile'[d], base'[d], saved'[d], job'[d])
    BY <2>2, <2>5, <2>9, <2>10, <2>12, Zenon
  <2> QED
    BY <1>1, <2>2, <2>13, ToldStep
<1>3. CASE ChangeProfile(d)
  <2>1. /\ job[d].phase = "idle" /\ job'[d] = job[d]
        /\ UNCHANGED <<vault, deletions, store, base, saved>>
    BY <1>3 DEF ChangeProfile, Idle, files, state, ghosts
  <2>2. PICK told, mine, carried, b, s, j :
          /\ told = Told(own) /\ mine = vault[d] /\ carried = profile[d]
          /\ b = base[d] /\ s = saved[d] /\ j = job[d]
    OBVIOUS
  <2>3. DeviceTold(own, told, d, mine, carried, b, s, j) /\ j.phase = "idle"
    BY <1>1, <2>1, <2>2
  <2>4. \A more : DeviceTold(own, told, d, mine, more, b, s, j)
    BY <2>3 DEF DeviceTold, JobTold
  <2>5. DeviceTold(own, Told(own), d, vault[d], profile'[d], base'[d], saved'[d], job'[d])
    BY <2>1, <2>2, <2>4
  <2> QED
    BY <1>1, <2>1, <2>5, ToldQuietStep
<1> QED
  BY <1>2, <1>3 DEF User

(***************************************************************************)
(* An operation of a pull that is done leaves a file at its path, unless   *)
(* it was a deletion: then the path is trashed, or its deletion is told.   *)
(***************************************************************************)
LEMMA DoneTold ==
    ASSUME NEW own \in BOOLEAN, NEW told, NEW d, NEW mine, NEW later,
           NEW carried \in SUBSET Path, NEW j \in Job,
           JobTold(own, told, d, mine, carried, j), j.phase = "pull", NEW op \in j.todo,
           \A q \in Path \ {op.path} : later[q] = mine[q],
           \/ op.kind = "deleteLocal"
           \/ /\ Found(told[d], later, mine[op.path], op.path)
              /\ Found(told[d], later, FilesOf(j.remote)[op.path], op.path),
           NEW k, k.planned = j.planned, k.phase = "pull", k.remote = j.remote,
           k.todo = j.todo \ {op}, k.held = j.held
    PROVE  /\ Trashed(own, k) = Trashed(own, j)
           /\ \A q \in Path : Found(told[d] \cup Trashed(own, j), later, mine[q], q)
           /\ JobTold(own, told, d, later, carried, k)
<1>1. /\ k.planned = j.planned /\ k.phase = "pull" /\ k.remote = j.remote
      /\ k.todo = j.todo \ {op} /\ k.held = j.held
  OBVIOUS
<1>2. \A o \in j.todo : o.path \in Path
  BY DEF Job, Op
<1>3. Trashed(own, k) = Trashed(own, j)
  BY <1>1 DEF Trashed
<1>4. TodoTold(own, told[d], mine, j) /\ PullTold(told[d], mine, carried, j)
  BY DEF JobTold
<1>5. /\ op.path \notin j.held /\ \A o \in j.todo : o.path = op.path => o = op
      /\ op.kind = "deleteLocal" => /\ FilesOf(j.remote)[op.path] = Absent
                                    /\ own \/ op.path \in told[d]
  BY <1>4 DEF TodoTold
<1>6. op.kind = "deleteLocal" => op.path \in told[d] \cup Trashed(own, j)
  <2>1. CASE own
    BY <1>2, <1>5, <2>1 DEF Trashed
  <2>2. CASE ~own
    BY <1>5, <2>2
  <2> QED
    BY <2>1, <2>2
<1>7. ASSUME NEW q \in Path
      PROVE  Found(told[d] \cup Trashed(own, j), later, mine[q], q)
  <2>1. CASE q = op.path
    BY <1>6, <2>1 DEF Found
  <2>2. CASE q # op.path
    BY <2>2 DEF Found
  <2> QED
    BY <2>1, <2>2
<1>8. EntriesTold(told[d] \cup Trashed(own, k), later, k.planned)
  BY <1>1, <1>3, <1>7 DEF JobTold, EntriesTold, Found
<1>9. TodoTold(own, told[d], later, k)
  <2>1. \A o \in k.todo : o.path \in Path \ {op.path} /\ later[o.path] = mine[o.path]
    BY <1>1, <1>2, <1>5
  <2> QED
    BY <1>1, <1>4, <2>1 DEF TodoTold, Found
<1>10. PullTold(told[d], later, carried, k)
  <2>1. ASSUME NEW p \in carried \ j.held
        PROVE  \/ Found(told[d], later, FilesOf(j.remote)[p], p)
               \/ \E o \in k.todo : o.path = p /\ o.kind \in {"download", "conflict"}
    <3>1. CASE p = op.path
      BY <1>5, <3>1 DEF Found
    <3>2. CASE p # op.path
      <4>1. later[p] = mine[p]
        BY <3>2
      <4>2. \/ Found(told[d], mine, FilesOf(j.remote)[p], p)
            \/ \E o \in j.todo : o.path = p /\ o.kind \in {"download", "conflict"}
        BY <1>4, <2>1 DEF PullTold
      <4>3. \A o \in j.todo : o.path = p => o \in k.todo
        BY <1>1, <3>2
      <4> QED
        BY <4>1, <4>2, <4>3 DEF Found
    <3> QED
      BY <3>1, <3>2
  <2> QED
    BY <1>1, <2>1 DEF PullTold
<1>11. JobTold(own, told, d, later, carried, k)
  BY <1>1, <1>8, <1>9, <1>10 DEF JobTold
<1> QED
  BY <1>3, <1>7, <1>11

\* One that is held out instead has trashed nothing: its path has a file.
LEMMA HeldTold ==
    ASSUME NEW own \in BOOLEAN, NEW told, NEW d, NEW mine,
           NEW carried \in SUBSET Path, NEW j \in Job,
           JobTold(own, told, d, mine, carried, j), j.phase = "pull", NEW op \in j.todo,
           FilesOf(j.remote)[op.path] # Absent \/ mine[op.path] # Absent,
           NEW k, k.planned = j.planned, k.phase = "pull", k.remote = j.remote,
           k.todo = j.todo \ {op}, k.held = j.held \cup {op.path}
    PROVE  /\ \A b : EntriesTold(told[d] \cup Trashed(own, j), mine, b)
                       => EntriesTold(told[d] \cup Trashed(own, k), mine, b)
           /\ JobTold(own, told, d, mine, carried, k)
<1>1. /\ k.planned = j.planned /\ k.phase = "pull" /\ k.remote = j.remote
      /\ k.todo = j.todo \ {op} /\ k.held = j.held \cup {op.path}
  OBVIOUS
<1>2. TodoTold(own, told[d], mine, j) /\ PullTold(told[d], mine, carried, j)
  BY DEF JobTold
<1>3. ASSUME NEW b, EntriesTold(told[d] \cup Trashed(own, j), mine, b)
      PROVE  EntriesTold(told[d] \cup Trashed(own, k), mine, b)
  <2>1. ASSUME NEW q \in Path, q \in Trashed(own, j)
        PROVE  q \in Trashed(own, k) \/ mine[q] # Absent
    BY <1>1, <2>1 DEF Trashed
  <2> QED
    BY <1>3, <2>1 DEF EntriesTold, Found
<1>4. EntriesTold(told[d] \cup Trashed(own, k), mine, k.planned)
  BY <1>1, <1>3 DEF JobTold
<1>5. TodoTold(own, told[d], mine, k)
  BY <1>1, <1>2 DEF TodoTold
<1>6. PullTold(told[d], mine, carried, k)
  BY <1>1, <1>2 DEF PullTold
<1>7. JobTold(own, told, d, mine, carried, k)
  BY <1>1, <1>4, <1>5, <1>6 DEF JobTold
<1> QED
  BY <1>3, <1>7

(***************************************************************************)
(* The operations of a pull take files away only for a tombstone; one that *)
(* could not be carried out sits the run out with its file in place.       *)
(***************************************************************************)
LEMMA ToldApply ==
    ASSUME TypeInv, PathsTold, NEW own \in BOOLEAN, AllTold(own), NEW d \in Device,
           ApplyDownload(d) \/ ApplyDeleteLocal(d) \/ ApplyConflict(d)
    PROVE  AllTold(own)'
<1> DEFINE Left(op) ==
             \/ op.kind = "deleteLocal"
             \/ /\ vault[d][op.path] # Absent => vault'[d][op.path] # Absent
                /\ \/ vault'[d][op.path] # Absent
                   \/ op.local # Absent /\ vault'[d][op.path] = vault[d][op.path]
                   \/ FilesOf(job[d].remote)[op.path] = Absent
<1>1. /\ vault \in [Device -> [Path -> Side]] /\ profile[d] \in SUBSET Path
      /\ job \in [Device -> Job] /\ job[d] \in Job /\ OthersStand(d)
      /\ \A op \in job[d].todo : op.path \in Path
      /\ \A op \in job[d].todo : At(d, op.path) = op.path
      /\ \A op \in job[d].todo : FileAt(d, op.path) = vault[d][op.path]
      /\ DeviceTold(own, Told(own), d, vault[d], profile[d], base[d], saved[d], job[d])
  BY PullAlone, AtItself DEF TypeInv, TypeOK, AllTold, Pull, Job, Op, FileAt
<1>2. /\ job[d].phase = "pull" /\ job[d].remote \in Manifest
      /\ FilesOf(job[d].remote) = job[d].remote.files
      /\ \A op \in job[d].todo : op.kind = "download"
                                   => FilesOf(job[d].remote)[op.path] # Absent
      /\ \A op \in job[d].todo : op.kind = "deleteLocal" => op.local # Absent
  <2>1. job[d].phase = "pull" /\ Fits(job[d])
    BY DEF ApplyDownload, ApplyDeleteLocal, ApplyConflict, NextPullOp, TypeInv
  <2>2. TodoTold(own, Told(own)[d], vault[d], job[d])
    BY <1>1 DEF DeviceTold, JobTold
  <2> QED
    BY <2>1, <2>2, NoManifestAssumption, MarkAssumption DEF Fits, FilesOf, OnTopOf, TodoTold
<1>3. UNCHANGED <<profile, base, saved, store, deletions>>
  BY DEF ApplyDownload, ApplyDeleteLocal, ApplyConflict, ghosts, state
<1>4. PICK op \in job[d].todo :
        \/ /\ job' = Done(d, op)
           /\ \A q \in Path \ {op.path} : vault'[d][q] = vault[d][q]
           /\ Left(op)
        \/ /\ job' = DoneHeld(d, op) /\ UNCHANGED vault
           /\ FilesOf(job[d].remote)[op.path] # Absent \/ vault[d][op.path] # Absent
  <2>1. CASE ApplyDownload(d)
    <3>1. PICK op \in job[d].todo :
            /\ op.kind = "download"
            /\ \/ /\ WriteFile(d, op.path, job[d].remote.files[op.path])
                  /\ job' = Done(d, op)
               \/ /\ ~StillAsScanned(d, op) /\ op.local = Absent
                  /\ UNCHANGED vault /\ job' = Done(d, op)
               \/ job' = DoneHeld(d, op) /\ UNCHANGED vault
      BY <2>1 DEF ApplyDownload, WriteCopy, files
    <3>2. CASE /\ WriteFile(d, op.path, job[d].remote.files[op.path])
               /\ job' = Done(d, op)
      <4>1. vault' = [vault EXCEPT ![d][op.path] = job[d].remote.files[op.path]]
        BY <1>1, <3>2 DEF WriteFile
      <4>2. /\ vault'[d][op.path] = FilesOf(job[d].remote)[op.path]
            /\ \A q \in Path \ {op.path} : vault'[d][q] = vault[d][q]
        BY <1>1, <1>2, <4>1
      <4> QED
        BY <1>2, <3>1, <3>2, <4>2
    <3>3. CASE /\ ~StillAsScanned(d, op) /\ op.local = Absent
               /\ UNCHANGED vault /\ job' = Done(d, op)
      <4>1. vault[d][op.path] # Absent
        BY <1>1, <3>3 DEF StillAsScanned
      <4> QED
        BY <3>1, <3>3, <4>1
    <3>4. CASE job' = DoneHeld(d, op) /\ UNCHANGED vault
      BY <1>2, <3>1, <3>4
    <3> QED
      BY <3>1, <3>2, <3>3, <3>4
  <2>2. CASE ApplyConflict(d)
    <3>1. PICK op \in job[d].todo :
            /\ job' = Done(d, op)
            /\ \/ /\ job[d].remote.files[op.path] # Absent
                  /\ WriteFile(d, op.path, job[d].remote.files[op.path])
               \/ /\ op.local # Absent \/ FileAt(d, op.path) # Absent
                  /\ UNCHANGED vault
               \/ job[d].remote.files[op.path] = Absent /\ UNCHANGED vault
      BY <2>2 DEF ApplyConflict, WriteCopy, files
    <3>2. CASE /\ job[d].remote.files[op.path] # Absent
               /\ WriteFile(d, op.path, job[d].remote.files[op.path])
      <4>1. vault' = [vault EXCEPT ![d][op.path] = job[d].remote.files[op.path]]
        BY <1>1, <3>2 DEF WriteFile
      <4>2. /\ vault'[d][op.path] # Absent
            /\ \A q \in Path \ {op.path} : vault'[d][q] = vault[d][q]
        BY <1>1, <3>2, <4>1
      <4> QED
        BY <3>1, <4>2
    <3>3. CASE /\ op.local # Absent \/ FileAt(d, op.path) # Absent
               /\ UNCHANGED vault
      BY <1>1, <3>1, <3>3
    <3>4. CASE job[d].remote.files[op.path] = Absent /\ UNCHANGED vault
      BY <1>2, <3>1, <3>4
    <3> QED
      BY <3>1, <3>2, <3>3, <3>4
  <2>3. CASE ApplyDeleteLocal(d)
    <3>1. PICK op \in job[d].todo :
            /\ op.kind = "deleteLocal"
            /\ \/ /\ vault' = [vault EXCEPT ![d][At(d, op.path)] = Absent]
                  /\ job' = Done(d, op)
               \/ /\ FileAt(d, op.path) # Absent \/ FileAt(d, op.path) = op.local
                  /\ job' = DoneHeld(d, op) /\ UNCHANGED vault
      BY <2>3 DEF ApplyDeleteLocal
    <3>2. CASE /\ vault' = [vault EXCEPT ![d][At(d, op.path)] = Absent]
               /\ job' = Done(d, op)
      <4>1. \A q \in Path \ {op.path} : vault'[d][q] = vault[d][q]
        BY <1>1, <3>2
      <4> QED
        BY <3>1, <3>2, <4>1
    <3>3. CASE /\ FileAt(d, op.path) # Absent \/ FileAt(d, op.path) = op.local
               /\ job' = DoneHeld(d, op) /\ UNCHANGED vault
      BY <1>1, <1>2, <3>1, <3>3
    <3> QED
      BY <3>1, <3>2, <3>3
  <2> QED
    BY <2>1, <2>2, <2>3
<1>5. PICK told, mine, later, carried, b, s, j, k :
        /\ told = Told(own) /\ mine = vault[d] /\ later = vault'[d] /\ carried = profile[d]
        /\ b = base[d] /\ s = saved[d] /\ j = job[d] /\ k = job'[d]
  OBVIOUS
<1>6. /\ BasesTold(told[d] \cup Trashed(own, j), mine, b, s)
      /\ JobTold(own, told, d, mine, carried, j)
      /\ carried \in SUBSET Path /\ j \in Job /\ j.phase = "pull"
  BY <1>1, <1>2, <1>5 DEF DeviceTold
<1>7. op \in j.todo
  BY <1>5
<1>8. DeviceTold(own, told, d, later, carried, b, s, k)
  <2>1. CASE job' = Done(d, op) /\ Left(op)
    <3>1. /\ k.planned = j.planned /\ k.phase = "pull" /\ k.remote = j.remote
          /\ k.todo = j.todo \ {op} /\ k.held = j.held
          /\ \A q \in Path \ {op.path} : later[q] = mine[q]
      <4>1. k = [j EXCEPT !.todo = @ \ {op}]
        BY <1>1, <1>5, <2>1 DEF Done
      <4>2. \A q \in Path \ {op.path} : later[q] = mine[q]
        BY <1>4, <1>5
      <4> QED
        BY <1>6, <4>1, <4>2 DEF Job
    <3>2. \/ op.kind = "deleteLocal"
          \/ /\ Found(told[d], later, mine[op.path], op.path)
             /\ Found(told[d], later, FilesOf(j.remote)[op.path], op.path)
      <4>1. Found(told[d], mine, op.local, op.path)
        BY <1>5, <1>6 DEF JobTold, TodoTold
      <4> QED
        BY <1>5, <2>1, <4>1 DEF Found
    <3>3. /\ Trashed(own, k) = Trashed(own, j)
          /\ \A q \in Path : Found(told[d] \cup Trashed(own, j), later, mine[q], q)
          /\ JobTold(own, told, d, later, carried, k)
      BY <1>6, <1>7, <3>1, <3>2, DoneTold
    <3>4. BasesTold(told[d] \cup Trashed(own, k), later, b, s)
      BY <1>6, <3>3 DEF BasesTold, EntriesTold, Found
    <3> QED
      BY <3>3, <3>4 DEF DeviceTold
  <2>2. CASE /\ job' = DoneHeld(d, op) /\ UNCHANGED vault
             /\ FilesOf(job[d].remote)[op.path] # Absent \/ vault[d][op.path] # Absent
    <3>1. /\ k.planned = j.planned /\ k.phase = "pull" /\ k.remote = j.remote
          /\ k.todo = j.todo \ {op} /\ k.held = j.held \cup {op.path}
          /\ later = mine
      <4>1. k = [j EXCEPT !.todo = @ \ {op}, !.held = @ \cup {op.path}] /\ later = mine
        BY <1>1, <1>5, <2>2 DEF DoneHeld
      <4> QED
        BY <1>6, <4>1 DEF Job
    <3>2. /\ \A x : EntriesTold(told[d] \cup Trashed(own, j), mine, x)
                      => EntriesTold(told[d] \cup Trashed(own, k), mine, x)
          /\ JobTold(own, told, d, mine, carried, k)
      <4>1. FilesOf(j.remote)[op.path] # Absent \/ mine[op.path] # Absent
        BY <1>5, <2>2
      <4> QED
        BY <1>6, <1>7, <3>1, <4>1, HeldTold
    <3> QED
      BY <1>6, <3>1, <3>2 DEF DeviceTold, BasesTold
  <2> QED
    BY <1>4, <2>1, <2>2
<1>9. told = Told(own)'
  BY <1>3, <1>5 DEF Told
<1>10. DeviceTold(own, Told(own)', d, vault'[d], profile'[d], base'[d], saved'[d], job'[d])
  BY <1>3, <1>5, <1>8, <1>9, Zenon
<1> QED
  BY <1>1, <1>3, <1>10, ToldStep

(***************************************************************************)
(* The base a pull ends with accounts for what it names without the paths  *)
(* trashed; of a base that was not saved the state file knows nothing.     *)
(***************************************************************************)
LEMMA ToldFinishPull ==
    ASSUME TypeInv, NEW own \in BOOLEAN, AllTold(own), NEW d \in Device, FinishPull(d),
           own => saved'[d] = base'[d]
    PROVE  AllTold(own)'
<1> DEFINE new == [p \in Path |-> IF p \notin profile[d] THEN Absent
                                  ELSE IF p \in job[d].held THEN FilesOf(job[d].planned)[p]
                                  ELSE job[d].remote.files[p]]
           b == AdoptPulled(job[d].remote, job[d].planned, job[d].held, profile[d])
           push == [job[d] EXCEPT !.phase = "push", !.planned = b]
<1>1. PICK told, mine, carried, j :
        told = Told(own) /\ mine = vault[d] /\ carried = profile[d] /\ j = job[d]
  OBVIOUS
<1>2. /\ j \in Job /\ j.phase = "pull" /\ j.remote \in Manifest /\ OthersStand(d)
      /\ JobTold(own, told, d, mine, carried, j)
      /\ \A op \in j.todo : op.kind \notin PullKinds
  BY <1>1, PullAlone DEF FinishPull, PullApplied, OpsOf, TypeInv, TypeOK, Fits, AllTold,
     DeviceTold, Pull
<1>3. j.planned \in MaybeManifest /\ FilesOf(j.remote) = j.remote.files
  BY <1>2, NoManifestAssumption DEF Job, FilesOf, OnTopOf
<1>4. new \in [Path -> Hash \cup {Absent}]
  BY <1>1, <1>2, <1>3, OnTopOfType DEF FilesOf, Manifest
<1>5. b = [j.remote EXCEPT !.files = new]
  BY <1>1 DEF AdoptPulled
<1>6. \A p \in Path : \/ new[p] = Absent
                      \/ p \in j.held /\ new[p] = FilesOf(j.planned)[p]
                      \/ p \in carried \ j.held /\ new[p] = FilesOf(j.remote)[p]
  BY <1>1, <1>3
<1>7. /\ push.planned = b /\ push.phase = "push" /\ push.remote = j.remote
      /\ push.todo = j.todo /\ push.held = j.held
  BY <1>1, <1>2 DEF Job
<1>8. /\ base' = [base EXCEPT ![d] = b]
      /\ saved' = [saved EXCEPT ![d] = b] \/ UNCHANGED saved
      /\ job'[d] \in {push, IdleJob}
      /\ UNCHANGED <<vault, deletions, store, profile>>
  BY DEF FinishPull, Adopt, ghosts, files, TypeInv, TypeOK
<1> HIDE DEF new, b, push
<1>9. FilesOf(b) = new
  BY <1>2, <1>4, <1>5, ReplacedFiles
<1>10. EntriesTold(told[d], mine, b)
  <2>1. ASSUME NEW p \in Path
        PROVE  Found(told[d], mine, new[p], p)
    <3>1. CASE new[p] = Absent
      BY <3>1 DEF Found
    <3>2. CASE p \in j.held /\ new[p] = FilesOf(j.planned)[p]
      <4>1. p \notin Trashed(own, j)
        BY <3>2 DEF Trashed
      <4>2. EntriesTold(told[d] \cup Trashed(own, j), mine, j.planned)
        BY <1>2 DEF JobTold
      <4> QED
        BY <3>2, <4>1, <4>2 DEF EntriesTold, Found
    <3>3. CASE p \in carried \ j.held /\ new[p] = FilesOf(j.remote)[p]
      <4>1. PullTold(told[d], mine, carried, j)
        BY <1>2 DEF JobTold
      <4>2. Found(told[d], mine, FilesOf(j.remote)[p], p)
        BY <1>2, <3>3, <4>1 DEF PullTold, PullKinds
      <4> QED
        BY <3>3, <4>2
    <3> QED
      BY <1>6, <3>1, <3>2, <3>3
  <2> QED
    BY <1>9, <2>1 DEF EntriesTold
<1>11. JobTold(own, told, d, mine, carried, push)
  <2>1. EntriesTold(told[d] \cup Trashed(own, push), mine, push.planned)
    BY <1>7, <1>10 DEF EntriesTold, Found
  <2>2. TodoTold(own, told[d], mine, push)
    BY <1>2, <1>7 DEF JobTold, TodoTold
  <2> QED
    BY <1>2, <1>7, <2>1, <2>2 DEF JobTold
<1>12. JobTold(own, told, d, mine, carried, job'[d])
  <2>1. JobTold(own, told, d, mine, carried, IdleJob)
    BY NothingTold
  <2> QED
    BY <1>8, <1>11, <2>1
<1>13. \/ saved' = [saved EXCEPT ![d] = b]
       \/ UNCHANGED saved /\ Trashed(own, job[d]) = {}
  <2>1. CASE own
    <3>1. saved'[d] = b /\ saved \in [Device -> MaybeManifest]
      BY <1>8, <2>1 DEF TypeInv, TypeOK
    <3> QED
      BY <1>8, <3>1
  <2>2. CASE ~own
    BY <1>8, <2>2 DEF Trashed
  <2> QED
    BY <2>1, <2>2
<1>14. /\ EntriesTold(Told(own)[d], vault[d], b)
       /\ JobTold(own, Told(own), d, vault[d], profile[d], job'[d])
  BY <1>1, <1>10, <1>12
<1> QED
  BY <1>2, <1>8, <1>13, <1>14, ToldBaseStep

\* What buildNextManifest makes of its parent's tombstones.
LEMMA BuildNextTombs ==
    ASSUME NEW parent, NEW gen, NEW dev, NEW uploaded, NEW tombstoned, NEW keep, NEW time,
           NEW grace, NEW p \in Path
    PROVE  LET next == BuildNext(parent, gen, dev, uploaded, tombstoned, keep, time, grace)
           IN  \/ next.tombs[p] \in {Absent, OnTopOf(parent).tombs[p]}
               \/ p \in tombstoned /\ next.tombs[p] = [at |-> time, dev |-> dev]
  BY DEF BuildNext, NextTombs

\* A publication's tombstones are its body's.
LEMMA StampedTombs ==
    ASSUME NEW told, NEW parent \in MaybeManifest, parent # NoManifest => TombsTold(told, parent),
           NEW body, NEW d,
           \A p \in Path : \/ body.tombs[p] \in {Absent, OnTopOf(parent).tombs[p]}
                           \/ p \in told[d] /\ body.tombs[p].dev = d
    PROVE  TombsTold(told, Stamped(body, parent))
<1>1. Stamped(body, parent).tombs = body.tombs
  BY DEF Stamped
<1>2. ASSUME NEW p \in Path, body.tombs[p] # Absent
      PROVE  p \in told[body.tombs[p].dev]
  <2>1. CASE p \in told[d] /\ body.tombs[p].dev = d
    BY <2>1
  <2>2. CASE body.tombs[p] = OnTopOf(parent).tombs[p]
    <3>1. parent # NoManifest
      BY <1>2, <2>2 DEF OnTopOf, Blank
    <3> QED
      BY <1>2, <2>2, <3>1 DEF OnTopOf, TombsTold
  <2> QED
    BY <1>2, <2>1, <2>2
<1> QED
  BY <1>1, <1>2 DEF TombsTold

\* A push publishes tombstones for the deletions it has planned.
LEMMA ToldPushFiles ==
    ASSUME TypeInv, PathsTold, NEW own \in BOOLEAN, AllTold(own), NEW d \in Device,
           PushFiles(d)
    PROVE  AllTold(own)'
<1> DEFINE uploads(L) == {o.path : o \in OpsOf(job[d].todo, {"upload"})} \ L
           uploaded(L) == [p \in Path |-> IF p \in uploads(L) THEN FileAt(d, p) ELSE Absent]
           tombstoned == {o.path : o \in OpsOf(job[d].todo, {"deleteRemote"})}
           changed(L) == {p \in Path : uploaded(L)[p] # Absent} \cup tombstoned
           body(L) == BuildNext(job[d].remote, GenOf(job[d].remote) + 1, d,
                                uploaded(L), tombstoned, Keep[d], now, Grace)
           next(L) == Stamped(body(L), job[d].remote)
           k(L) == [job[d] EXCEPT !.phase = "ready", !.todo = {},
                      !.next = next(L), !.changed = changed(L)]
<1>1. PICK told, mine, carried, j :
        told = Told(own) /\ mine = vault[d] /\ carried = profile[d] /\ j = job[d]
  OBVIOUS
<1>2. /\ job \in [Device -> Job] /\ j \in Job /\ j.remote \in MaybeManifest
      /\ j.phase = "push" /\ OthersStand(d)
      /\ JobTold(own, told, d, mine, carried, j)
  BY <1>1, EngineAlone DEF TypeInv, TypeOK, Job, AllTold, DeviceTold, Engine, PushSteps,
     PushFiles
<1>3. PICK locked : job' = [job EXCEPT ![d] = IF changed(locked) = {} THEN IdleJob
                                              ELSE k(locked)]
  BY Zenon DEF PushFiles
<1>4. \A p \in Path : uploaded(locked)[p] \in {Absent, mine[p]}
  BY <1>1, AtItself DEF FileAt
<1>5. tombstoned \subseteq told[d]
  <2>1. TodoTold(own, told[d], mine, j)
    BY <1>2 DEF JobTold
  <2> QED
    BY <1>1, <2>1 DEF TodoTold, OpsOf
<1>6. \A p \in changed(locked) : p \in tombstoned \/ (p \in Path /\ uploaded(locked)[p] # Absent)
  OBVIOUS
<1>7. /\ k(locked).next = next(locked) /\ k(locked).changed = changed(locked)
      /\ k(locked).phase = "ready" /\ k(locked).planned = j.planned
      /\ k(locked).remote = j.remote /\ k(locked).todo = {}
  BY <1>1, <1>2 DEF Job
<1>8. \A p \in Path : /\ \/ body(locked).tombs[p] \in {Absent, OnTopOf(j.remote).tombs[p]}
                         \/ p \in tombstoned /\ body(locked).tombs[p].dev = d
                      /\ body(locked).files[p] = IF p \in tombstoned THEN Absent
                                                 ELSE IF uploaded(locked)[p] # Absent
                                                      THEN uploaded(locked)[p]
                                                      ELSE FilesOf(j.remote)[p]
  <2> HIDE DEF uploaded, tombstoned
  <2>1. ASSUME NEW p \in Path
        PROVE  \/ body(locked).tombs[p] \in {Absent, OnTopOf(j.remote).tombs[p]}
               \/ p \in tombstoned /\ body(locked).tombs[p].dev = d
    <3>1. \/ body(locked).tombs[p] \in {Absent, OnTopOf(j.remote).tombs[p]}
          \/ p \in tombstoned /\ body(locked).tombs[p] = [at |-> now, dev |-> d]
      BY <1>1, BuildNextTombs
    <3> HIDE DEF body
    <3> QED
      BY <3>1
  <2>2. \A p \in Path : body(locked).files[p] = IF p \in tombstoned THEN Absent
                                                ELSE IF uploaded(locked)[p] # Absent
                                                     THEN uploaded(locked)[p]
                                                     ELSE FilesOf(j.remote)[p]
    BY <1>1, BuildNextEntries
  <2> QED
    BY <2>1, <2>2
<1>9. next(locked).files = body(locked).files /\ next(locked) = Stamped(body(locked), j.remote)
  BY <1>1 DEF Stamped
<1> HIDE DEF uploads, uploaded, tombstoned, changed, body, next, k
<1>10. TombsTold(told, next(locked))
  <2>1. j.remote # NoManifest => TombsTold(told, j.remote)
    BY <1>2 DEF JobTold
  <2>2. \A p \in Path : \/ body(locked).tombs[p] \in {Absent, OnTopOf(j.remote).tombs[p]}
                        \/ p \in told[d] /\ body(locked).tombs[p].dev = d
    BY <1>5, <1>8
  <2> QED
    BY <1>2, <1>9, <2>1, <2>2, StampedTombs
<1>11. \A p \in changed(locked) : Found(told[d], mine, next(locked).files[p], p)
  <2>1. ASSUME NEW p \in changed(locked)
        PROVE  Found(told[d], mine, next(locked).files[p], p)
    <3>1. CASE p \in tombstoned
      BY <1>5, <3>1 DEF Found
    <3>2. CASE p \notin tombstoned /\ p \in Path /\ uploaded(locked)[p] # Absent
      <4>1. uploaded(locked)[p] = mine[p]
        BY <1>4, <3>2
      <4> QED
        BY <3>2, <4>1 DEF Found
    <3> QED
      BY <1>6, <3>1, <3>2
  <2> QED
    BY <2>1
<1>12. Trashed(own, j) = {} /\ Trashed(own, k(locked)) = {}
  BY <1>2, <1>7 DEF Trashed
<1>13. JobTold(own, told, d, mine, carried, k(locked))
  <2>1. EntriesTold(told[d] \cup Trashed(own, k(locked)), mine, k(locked).planned)
    BY <1>2, <1>7, <1>12 DEF JobTold
  <2>2. TodoTold(own, told[d], mine, k(locked))
    BY <1>7 DEF TodoTold
  <2>3. j.remote # NoManifest => TombsTold(told, j.remote)
    BY <1>2 DEF JobTold
  <2> QED
    BY <1>7, <1>10, <1>11, <2>1, <2>2, <2>3 DEF JobTold
<1>14. JobTold(own, told, d, mine, carried, job'[d])
  <2>1. job'[d] = IdleJob \/ job'[d] = k(locked)
    BY <1>2, <1>3
  <2>2. JobTold(own, told, d, mine, carried, IdleJob)
    BY NothingTold
  <2> QED
    BY <1>13, <2>1, <2>2
<1>15. /\ JobTold(own, Told(own), d, vault[d], profile[d], job'[d])
       /\ Trashed(own, job[d]) \subseteq Trashed(own, job'[d])
       /\ UNCHANGED <<vault, deletions, base, saved, profile, store>>
  BY <1>1, <1>12, <1>14 DEF PushFiles, files, state, ghosts
<1> QED
  BY <1>2, <1>15, ToldJobStep

\* The put adds the tombstones that were told; the re-LIST adopts what changed.
LEMMA ToldPublished ==
    ASSUME TypeInv, NEW own \in BOOLEAN, AllTold(own), NEW d \in Device,
           Publish(d) \/ Relist(d)
    PROVE  AllTold(own)'
<1>1. PICK told, mine, carried, j :
        told = Told(own) /\ mine = vault[d] /\ carried = profile[d] /\ j = job[d]
  OBVIOUS
<1>2. /\ job \in [Device -> Job] /\ j \in Job /\ OthersStand(d)
      /\ j.phase \in {"ready", "published"} /\ j.next \in Manifest
      /\ JobTold(own, told, d, mine, carried, j)
  BY <1>1, EngineAlone DEF TypeInv, TypeOK, Fits, AllTold, DeviceTold, Engine, PushSteps,
     Publish, Relist
<1>3. /\ TombsTold(told, j.next)
      /\ \A p \in j.changed : Found(told[d], mine, j.next.files[p], p)
  BY <1>2 DEF JobTold
<1>4. Trashed(own, j) = {} /\ Trashed(own, IdleJob) = {}
  BY <1>2 DEF Trashed, IdleJob
<1>5. JobTold(own, told, d, mine, carried, IdleJob)
  BY NothingTold
<1>6. CASE Publish(d)
  <2> DEFINE k == [j EXCEPT !.phase = "published"]
  <2>1. job'[d] \in {IdleJob, k}
    BY <1>1, <1>2, <1>6 DEF Publish
  <2>2. /\ k.phase = "published" /\ k.next = j.next /\ k.changed = j.changed
        /\ k.planned = j.planned /\ k.remote = j.remote /\ k.todo = j.todo
        /\ k.held = j.held
    BY <1>2 DEF Job
  <2> HIDE DEF k
  <2>3. Trashed(own, k) = {}
    BY <2>2 DEF Trashed
  <2>4. JobTold(own, told, d, mine, carried, k)
    <3>1. EntriesTold(told[d] \cup Trashed(own, k), mine, k.planned)
      BY <1>2, <1>4, <2>2, <2>3 DEF JobTold
    <3>2. TodoTold(own, told[d], mine, k)
      BY <1>2, <2>2 DEF JobTold, TodoTold
    <3> QED
      BY <1>2, <1>3, <2>2, <3>1, <3>2 DEF JobTold
  <2>5. /\ JobTold(own, Told(own), d, vault[d], profile[d], job'[d])
        /\ Trashed(own, job[d]) \subseteq Trashed(own, job'[d])
    BY <1>1, <1>4, <1>5, <2>1, <2>4
  <2>6. \A m \in store' : m \in store \/ TombsTold(Told(own), m)
    BY <1>1, <1>3, <1>6 DEF Publish, Put
  <2>7. UNCHANGED <<vault, deletions, base, saved, profile>>
    BY <1>6 DEF Publish, files, state, ghosts
  <2> QED
    BY <1>2, <2>5, <2>6, <2>7, ToldJobStep
<1>7. CASE Relist(d)
  <2> DEFINE new == [p \in Path |-> IF p \notin j.changed THEN FilesOf(j.planned)[p]
                                    ELSE IF p \in profile[d] THEN j.next.files[p]
                                    ELSE Absent]
             b == AdoptPublished(j.next, j.planned, j.changed, profile[d])
  <2>1. j.planned \in MaybeManifest
    BY <1>2 DEF Job
  <2>2. \A p \in Path : \/ new[p] = Absent
                        \/ p \notin j.changed /\ new[p] = FilesOf(j.planned)[p]
                        \/ p \in j.changed /\ new[p] = j.next.files[p]
    OBVIOUS
  <2>3. new \in [Path -> Hash \cup {Absent}]
    BY <1>2, <2>1, OnTopOfType DEF FilesOf, Manifest
  <2>4. b = [j.next EXCEPT !.files = new]
    BY DEF AdoptPublished
  <2>5. \/ /\ base' = [base EXCEPT ![d] = b]
           /\ saved' = [saved EXCEPT ![d] = b] \/ UNCHANGED saved
        \/ UNCHANGED <<base, saved>>
    BY <1>1, <1>7 DEF Relist, Adopt, state
  <2> HIDE DEF new, b
  <2>6. FilesOf(b) = new
    BY <1>2, <2>3, <2>4, ReplacedFiles
  <2>7. EntriesTold(told[d], mine, b)
    <3>1. EntriesTold(told[d], mine, j.planned)
      BY <1>2, <1>4 DEF JobTold
    <3> QED
      BY <1>3, <2>2, <2>6, <3>1 DEF EntriesTold, Found
  <2>8. /\ job'[d] = IdleJob
        /\ UNCHANGED <<vault, deletions, store, profile>>
    BY <1>2, <1>7 DEF Relist, files, ghosts
  <2>9. /\ JobTold(own, Told(own), d, vault[d], profile[d], job'[d])
        /\ Trashed(own, job[d]) = {}
        /\ Trashed(own, job[d]) \subseteq Trashed(own, job'[d])
        /\ EntriesTold(Told(own)[d], vault[d], b)
    BY <1>1, <1>4, <1>5, <2>7, <2>8
  <2>10. CASE UNCHANGED <<base, saved>>
    BY <1>2, <2>8, <2>9, <2>10, ToldJobStep
  <2>11. CASE /\ base' = [base EXCEPT ![d] = b]
              /\ saved' = [saved EXCEPT ![d] = b] \/ UNCHANGED saved
    BY <1>2, <2>8, <2>9, <2>11, ToldBaseStep
  <2> QED
    BY <2>5, <2>10, <2>11
<1> QED
  BY <1>6, <1>7

\* What an operation publishes without a push: no tombstone of its own.
LEMMA PublishingTold ==
    ASSUME TypeInv, NEW own \in BOOLEAN, NEW told, NEW d \in Device, NEW mine, NEW carried,
           store # {}, TombsTold(told, Top(store)), EntriesTold(told[d], mine, Planned(d)),
           NEW body, body.tombs = Top(store).tombs,
           NEW changed, \A p \in changed : body.files[p] = Absent
    PROVE  JobTold(own, told, d, mine, carried, Publishing(d, body, changed))
<1> DEFINE next == Stamped(body, Top(store))
           j == Publishing(d, body, changed)
<1>1. next.files = body.files /\ next.tombs = body.tombs
  BY DEF Stamped
<1>2. /\ j.phase = "ready" /\ j.remote = Top(store) /\ j.planned = Planned(d) /\ j.todo = {}
      /\ j.next = next /\ j.changed = changed
  BY DEF Publishing
<1> HIDE DEF next, j
<1>3. TombsTold(told, next)
  BY <1>1 DEF TombsTold
<1>4. EntriesTold(told[d] \cup Trashed(own, j), mine, j.planned)
  BY <1>2 DEF EntriesTold, Found
<1>5. \A p \in changed : Found(told[d], mine, next.files[p], p)
  BY <1>1 DEF Found
<1>6. TodoTold(own, told[d], mine, j)
  BY <1>2 DEF TodoTold
<1>7. JobTold(own, told, d, mine, carried, j)
  BY <1>2, <1>3, <1>4, <1>5, <1>6 DEF JobTold
<1> QED
  BY <1>7 DEF j

\* The jobs that begin, all of them with a fresh plan or a body to publish.
LEMMA ToldBegin ==
    ASSUME TypeInv, NEW own \in BOOLEAN, AllTold(own), NEW d \in Device,
           \/ PullBegin(d) \/ PushBegin(d) \/ ConfirmBegin(d)
           \/ ForgetBegin(d) \/ ReleaseBegin(d)
    PROVE  AllTold(own)'
<1>1. PICK told : told = Told(own)
  OBVIOUS
<1>2. /\ job \in [Device -> Job] /\ OthersStand(d) /\ job[d].phase = "idle"
      /\ DeviceTold(own, told, d, vault[d], profile[d], base[d], saved[d], job[d])
  BY <1>1, EngineAlone DEF TypeInv, TypeOK, AllTold, Engine, Pull, PullBegin, PushBegin,
     ConfirmBegin, ForgetBegin, ReleaseBegin, Idle
<1>3. UNCHANGED <<vault, deletions, base, saved, profile, store>>
  BY DEF PullBegin, PushBegin, ConfirmBegin, ForgetBegin, ReleaseBegin, files, state, ghosts
<1>4. Top(store) # NoManifest => TombsTold(told, Top(store))
  BY <1>1, TopType DEF AllTold
<1>5. Trashed(own, job[d]) = {}
  BY <1>2 DEF Trashed
<1>6. EntriesTold(told[d], vault[d], Planned(d))
  <2>1. PICK gone, mine : gone = told[d] /\ mine = vault[d]
    OBVIOUS
  <2>2. EntriesTold(gone, mine, base[d])
    BY <1>2, <1>5, <2>1 DEF DeviceTold, BasesTold
  <2>3. EntriesTold(gone, mine, Planned(d))
    BY <2>2, PlannedTold, Zenon
  <2> QED
    BY <2>1, <2>3, Zenon
<1>7. ~own => \A e, f \in Device : told[e] = told[f]
  BY <1>1 DEF Told
<1>8. SUFFICES JobTold(own, told, d, vault[d], profile[d], job'[d])
  BY <1>1, <1>2, <1>3, <1>5, ToldJobStep
<1>9. CASE PullBegin(d) \/ PushBegin(d) \/ ConfirmBegin(d)
  <2>1. PICK U \in Unreadable(d), phase \in {"pull", "push"}, full \in BOOLEAN :
          \E todo \in SUBSET PlanFor(d, U) :
            /\ job' = [job EXCEPT ![d] = Planning(d, U, phase, full, todo)]
            /\ phase = "pull" => OpsOf(PlanFor(d, U), PullKinds) \subseteq todo
    BY <1>9, BeginsWithPlan
  <2>2. PICK todo \in SUBSET PlanFor(d, U) :
          /\ job' = [job EXCEPT ![d] = Planning(d, U, phase, full, todo)]
          /\ phase = "pull" => OpsOf(PlanFor(d, U), PullKinds) \subseteq todo
    BY <2>1
  <2>3. U \in SUBSET Path
    BY UnreadableType
  <2>4. JobTold(own, told, d, vault[d], profile[d], Planning(d, U, phase, full, todo))
    BY <1>4, <1>6, <1>7, <2>2, <2>3, PlanningTold, Zenon
  <2>5. job'[d] = Planning(d, U, phase, full, todo)
    BY <1>2, <2>2
  <2> QED
    BY <2>4, <2>5
<1>10. CASE ForgetBegin(d) \/ ReleaseBegin(d)
  <2>1. store # {} /\ TombsTold(told, Top(store))
    BY <1>4, <1>10, TopType, NoManifestAssumption DEF ForgetBegin, ReleaseBegin
  <2>2. PICK body, changed :
          /\ job' = [job EXCEPT ![d] = Publishing(d, body, changed)]
          /\ body.tombs = Top(store).tombs
          /\ \A p \in changed : body.files[p] = Absent
    <3>1. CASE ForgetBegin(d)
      <4>1. PICK gone \in SUBSET {p \in Path : Top(store).files[p] # Absent} :
              job' = [job EXCEPT ![d] =
                        Publishing(d, ForgetNext(Top(store), GenOf(Top(store)) + 1, d, gone),
                                   gone)]
        BY <3>1 DEF ForgetBegin
      <4> DEFINE body == ForgetNext(Top(store), GenOf(Top(store)) + 1, d, gone)
      <4>2. body.tombs = Top(store).tombs /\ \A p \in gone : body.files[p] = Absent
        BY DEF ForgetNext
      <4> HIDE DEF body
      <4> QED
        BY <4>1, <4>2 DEF body
    <3>2. CASE ReleaseBegin(d)
      <4> DEFINE body == ReleaseNext(Top(store), GenOf(Top(store)) + 1, d)
                 none == {}
      <4>1. job' = [job EXCEPT ![d] = Publishing(d, body, none)]
        BY <3>2 DEF ReleaseBegin
      <4>2. body.tombs = Top(store).tombs /\ \A p \in none : body.files[p] = Absent
        BY DEF ReleaseNext
      <4> HIDE DEF body, none
      <4> QED
        BY <4>1, <4>2
    <3> QED
      BY <1>10, <3>1, <3>2
  <2>3. JobTold(own, told, d, vault[d], profile[d], Publishing(d, body, changed))
    BY <1>6, <2>1, <2>2, PublishingTold, Zenon
  <2>4. job'[d] = Publishing(d, body, changed)
    BY <1>2, <2>2
  <2> QED
    BY <2>3, <2>4
<1> QED
  BY <1>9, <1>10

(***************************************************************************)
(* No operation of the engine invents a deletion; where only the user of   *)
(* this device counts, if a pull that trashed files ends and its base is   *)
(* saved.                                                                  *)
(***************************************************************************)
LEMMA ToldEngine ==
    ASSUME TypeInv, PathsTold, NEW own \in BOOLEAN, AllTold(own), own => Undisturbed,
           NEW d \in Device, Engine(d) \/ Abandon(d) \/ Crash(d)
    PROVE  AllTold(own)'
<1>1. PICK told, mine : told = Told(own) /\ mine = vault[d]
  OBVIOUS
<1>2. /\ OthersStand(d) /\ job \in [Device -> Job]
      /\ base \in [Device -> MaybeManifest] /\ saved \in [Device -> MaybeManifest]
      /\ BasesTold(told[d] \cup Trashed(own, job[d]), mine, base[d], saved[d])
      /\ JobTold(own, told, d, mine, profile[d], job[d])
  BY <1>1, EngineAlone DEF TypeInv, TypeOK, AllTold, DeviceTold
<1>3. CASE Preview(d) \/ Dismiss(d)
  <2>1. /\ UNCHANGED <<vault, deletions, base, saved, profile, store>>
        /\ job'[d] = job[d]
    BY <1>3 DEF Preview, Dismiss, files, state, ghosts
  <2>2. /\ JobTold(own, Told(own), d, vault[d], profile[d], job'[d])
        /\ Trashed(own, job[d]) \subseteq Trashed(own, job'[d])
    BY <1>1, <1>2, <2>1
  <2> QED
    BY <1>2, <2>1, <2>2, ToldJobStep
<1>4. CASE ForgetBase(d) \/ AcceptRolledBack(d)
  <2>1. /\ base' = [base EXCEPT ![d] = NoManifest] /\ saved' = [saved EXCEPT ![d] = NoManifest]
        /\ UNCHANGED <<vault, deletions, store, profile, job>>
    BY <1>4 DEF ForgetBase, AcceptRolledBack, DropBase, files, ghosts
  <2>2. /\ EntriesTold(Told(own)[d], vault[d], NoManifest)
        /\ JobTold(own, Told(own), d, vault[d], profile[d], job'[d])
    BY <1>1, <1>2, <2>1, NothingTold
  <2> QED
    BY <1>2, <2>1, <2>2, ToldBaseStep
<1>5. CASE Abandon(d) \/ Crash(d)
  <2>1. Trashed(own, job[d]) = {}
    BY <1>5 DEF Trashed, Undisturbed
  <2>2. /\ job'[d] = IdleJob
        /\ UNCHANGED <<vault, deletions, saved, profile, store>>
    BY <1>2, <1>5 DEF Abandon, Crash, files, state, ghosts
  <2>3. JobTold(own, Told(own), d, vault[d], profile[d], job'[d])
    BY <2>2, NothingTold
  <2>4. CASE Abandon(d)
    <3>1. UNCHANGED base
      BY <2>4 DEF Abandon, state
    <3> QED
      BY <1>2, <2>1, <2>2, <2>3, <3>1, ToldJobStep
  <2>5. CASE Crash(d)
    <3> DEFINE m == saved[d]
               new == [p \in Path |-> IF p \in profile[d] THEN m.files[p] ELSE Absent]
               b == Loaded(m, profile[d])
    <3>1. EntriesTold(told[d], mine, b)
      <4>1. CASE m = NoManifest \/ ~Parses(m)
        BY <4>1, NothingTold DEF Loaded
      <4>2. CASE m # NoManifest /\ Parses(m)
        <5>1. m \in Manifest
          BY <1>2, <4>2 DEF MaybeManifest
        <5>2. b = [m EXCEPT !.files = new] /\ new \in [Path -> Hash \cup {Absent}]
          BY <4>2, <5>1 DEF Loaded, Manifest
        <5>3. FilesOf(b) = new
          BY <5>1, <5>2, ReplacedFiles
        <5>4. \A p \in Path : Found(told[d], mine, m.files[p], p)
          BY <1>2, <2>1, <4>2 DEF BasesTold, EntriesTold, FilesOf, OnTopOf, Found
        <5> QED
          BY <5>3, <5>4 DEF EntriesTold, Found
      <4> QED
        BY <4>1, <4>2
    <3>2. base' = [base EXCEPT ![d] = b]
      BY <2>5 DEF Crash
    <3> HIDE DEF b
    <3>3. EntriesTold(Told(own)[d], vault[d], b)
      BY <1>1, <3>1
    <3> QED
      BY <1>2, <2>1, <2>2, <2>3, <3>2, <3>3, ToldBaseStep
  <2> QED
    BY <1>5, <2>4, <2>5
<1>6. CASE FinishPull(d)
  BY <1>6, ToldFinishPull DEF Undisturbed
<1> QED
  BY <1>3, <1>4, <1>5, <1>6, ToldBegin, ToldApply, ToldPushFiles, ToldPublished
  DEF Engine, Pull, PushSteps

\* Nor does any other step.
LEMMA ToldNext ==
    ASSUME TypeInv, PathsTold, NEW own \in BOOLEAN, AllTold(own), own => Undisturbed,
           [Next]_vars
    PROVE  AllTold(own)'
<1>1. ASSUME store' \subseteq store,
             UNCHANGED <<vault, profile, base, saved, job, deletions>>
      PROVE  AllTold(own)'
  <2>1. PICK told : told = Told(own)
    OBVIOUS
  <2>2. told = Told(own)'
    BY <1>1, <2>1 DEF Told
  <2>3. /\ \A m \in store' : TombsTold(told, m)
        /\ \A d \in Device :
             DeviceTold(own, told, d, vault'[d], profile'[d], base'[d], saved'[d], job'[d])
    BY <1>1, <2>1 DEF AllTold
  <2> QED
    BY <2>2, <2>3, Zenon DEF AllTold
<1>2. CASE Tick \/ StorageRollback \/ UNCHANGED vars
  BY <1>1, <1>2 DEF Tick, StorageRollback, vars, files, state, ghosts
<1> QED
  BY <1>2, ToldUser, ToldEngine DEF Next

\* An empty storage has no tombstones.
LEMMA ToldInit ==
    ASSUME Init, NEW own \in BOOLEAN
    PROVE  AllTold(own)
<1>1. ASSUME NEW d \in Device
      PROVE  DeviceTold(own, Told(own), d, vault[d], profile[d], base[d], saved[d], job[d])
  <2>1. base[d] = NoManifest /\ saved[d] = NoManifest /\ job[d] = IdleJob
    BY DEF Init
  <2> QED
    BY <2>1, NothingTold DEF DeviceTold, BasesTold
<1> QED
  BY <1>1 DEF Init, AllTold

\* What the invariants say of the storage.
LEMMA ToldMeansDeleted ==
    ASSUME TypeInv
    PROVE  /\ AllTold(FALSE) => TombstonesHaveDeletions
           /\ AllTold(TRUE) => TombstonesAreDeletions
<1>1. ASSUME NEW own \in BOOLEAN, AllTold(own), NEW m \in store, NEW p \in Path,
             m.tombs[p] # Absent
      PROVE  m.tombs[p].dev \in Device /\ p \in Told(own)[m.tombs[p].dev]
  <2>1. m.tombs[p].dev \in Device
    BY <1>1 DEF TypeInv, TypeOK, Manifest, Tombstone
  <2> QED
    BY <1>1, <2>1 DEF AllTold, TombsTold
<1>2. AllTold(FALSE) => TombstonesHaveDeletions
  BY <1>1 DEF TombstonesHaveDeletions, Told
<1>3. AllTold(TRUE) => TombstonesAreDeletions
  BY <1>1 DEF TombstonesAreDeletions, Told
<1> QED
  BY <1>2, <1>3

(***************************************************************************)
(* No deletion is invented: whatever is aborted, lost, restored, held out  *)
(* or moved out of a profile, there is a tombstone for a path only if some *)
(* user has deleted that path (plan.ts: classify; engine/apply.ts:         *)
(* applyPushOps, buildNextManifest).  Where a filesystem confuses paths, a *)
(* change of case can publish a tombstone nobody asked for.                *)
(***************************************************************************)
THEOREM TombstonesHaveReasons ==
    ASSUME PathsTold
    PROVE  Spec => []TombstonesHaveDeletions
<1>1. TypeInv /\ AllTold(FALSE) /\ [Next]_vars => AllTold(FALSE)'
  BY ToldNext
<1>2. Init => AllTold(FALSE)
  BY ToldInit
<1>3. TypeInv /\ AllTold(FALSE) => TombstonesHaveDeletions
  BY ToldMeansDeleted
<1>4. Spec => []TypeInv
  BY TypeInvariant
<1> QED
  BY <1>1, <1>2, <1>3, <1>4, PTL DEF Spec

(***************************************************************************)
(* A tombstone in the storage says that the user of its device deleted     *)
(* that path, as long as every pull that began ends and its base is saved. *)
(* What an interrupted pull has trashed, its device may take for deleted   *)
(* by its own user, and publish so (engine.ts: doPull, applyFull).         *)
(***************************************************************************)
THEOREM TombstonesAreTheDevices ==
    ASSUME PathsTold
    PROVE  Spec /\ [][Undisturbed]_vars => []TombstonesAreDeletions
<1>1. TypeInv /\ AllTold(TRUE) /\ [Next]_vars /\ [Undisturbed]_vars => AllTold(TRUE)'
  <2>1. CASE UNCHANGED vars
    <3>1. ASSUME TypeInv, AllTold(TRUE)
          PROVE  AllTold(TRUE)'
      BY <2>1, <3>1 DEF vars, AllTold, Told, DeviceTold, BasesTold, JobTold
    <3> QED
      BY <3>1
  <2>2. CASE Undisturbed
    BY <2>2, ToldNext
  <2> QED
    BY <2>1, <2>2
<1>2. Init => AllTold(TRUE)
  BY ToldInit
<1>3. TypeInv /\ AllTold(TRUE) => TombstonesAreDeletions
  BY ToldMeansDeleted
<1>4. Spec => []TypeInv
  BY TypeInvariant
<1> QED
  BY <1>1, <1>2, <1>3, <1>4, PTL DEF Spec
=============================================================================

----------------------------- MODULE Manifests -----------------------------
(***************************************************************************)
(* The coordination document of a vault and the pure operations on it:     *)
(* packages/core/src/types.ts, manifest.ts, engine/apply.ts                *)
(* (buildNextManifest), engine/remote.ts (winners, lineage) and the        *)
(* manifest-shaped parts of engine/engine.ts (forgetPaths,                 *)
(* releaseForgotten, adoptBase, baseFor).                                  *)
(*                                                                         *)
(* A content hash stands for the bytes it digests and for the object key   *)
(* derived from it (HMAC of the hash): equal bytes, equal hash, equal key. *)
(* sizes, mtimes, updatedAt and writer carry no decision and are left out. *)
(***************************************************************************)
EXTENDS Integers, Sequences, FiniteSets

CONSTANTS
    Path,          \* canonical vault paths; numbers, in the order they sort
    Hash,          \* content hashes
    Device,        \* device ids; numbers, because a fork is won by the smallest
    Absent,        \* no file, no tombstone, no entry
    Tombstoned,    \* the side of a path that a manifest records as deleted
    NoManifest,    \* null: nothing published, or no base
    LineageDepth   \* LINEAGE_DEPTH (256 in the code)

ASSUME DeviceAssumption == Device \subseteq Nat
ASSUME PathAssumption == Path \subseteq Nat
ASSUME MarkAssumption ==
    /\ {Absent, Tombstoned} \cap Hash = {}
    /\ Absent # Tombstoned
ASSUME LineageAssumption == LineageDepth \in Nat \ {0}

Tombstone == [at : Nat, dev : Device]

(***************************************************************************)
(* The published content.  history keeps prior versions, newest first;     *)
(* markers[p] is the generation that forgot p, 0 when none did.            *)
(***************************************************************************)
Body == [gen       : Nat,
         dev       : Device,
         files     : [Path -> Hash \cup {Absent}],
         tombs     : [Path -> Tombstone \cup {Absent}],
         history   : [Path -> Seq(Hash)],
         forgotten : SUBSET Hash,
         markers   : [Path -> Nat]]

(***************************************************************************)
(* A manifest's id digests its body, lineage fields excluded.  The digest  *)
(* is collision free, so it is modelled by the body itself: two manifests  *)
(* have one id exactly when their bodies are equal.                        *)
(***************************************************************************)
Manifest == [gen       : Nat,
             dev       : Device,
             files     : [Path -> Hash \cup {Absent}],
             tombs     : [Path -> Tombstone \cup {Absent}],
             history   : [Path -> Seq(Hash)],
             forgotten : SUBSET Hash,
             markers   : [Path -> Nat],
             id        : Body,
             anc       : Seq(Body)]

MaybeManifest == Manifest \cup {NoManifest}

ASSUME NoManifestAssumption == NoManifest \notin Manifest

BodyOf(m) == [gen |-> m.gen, dev |-> m.dev, files |-> m.files,
              tombs |-> m.tombs, history |-> m.history,
              forgotten |-> m.forgotten, markers |-> m.markers]

\* stampLineage: the id, and the parent's line with the parent in front.
Stamped(b, parent) ==
    LET line == IF parent = NoManifest THEN <<>>
                ELSE <<parent.id>> \o parent.anc
    IN  [gen |-> b.gen, dev |-> b.dev, files |-> b.files, tombs |-> b.tombs,
         history |-> b.history, forgotten |-> b.forgotten,
         markers |-> b.markers, id |-> b,
         anc |-> SubSeq(line, 1, IF Len(line) < LineageDepth
                                 THEN Len(line) ELSE LineageDepth)]

\* A manifest with nothing in it, the one a first push builds on.
Blank == [files     |-> [p \in Path |-> Absent],
          tombs     |-> [p \in Path |-> Absent],
          history   |-> [p \in Path |-> <<>>],
          forgotten |-> {},
          markers   |-> [p \in Path |-> 0]]

OnTopOf(m) == IF m = NoManifest THEN Blank
              ELSE [files |-> m.files, tombs |-> m.tombs, history |-> m.history,
                    forgotten |-> m.forgotten, markers |-> m.markers]

GenOf(m) == IF m = NoManifest THEN 0 ELSE m.gen

FilesOf(m) == OnTopOf(m).files

---------------------------------------------------------------------------
(* Storage: the manifests under manifests/, one per (generation, device).  *)

Gens(store) == {m.gen : m \in store}

Rivals(store, g) == {m \in store : m.gen = g}

\* listWinners: the smallest device id owns a generation.
IsWinner(store, m) == \A n \in Rivals(store, m.gen) : m.dev <= n.dev

\* readRemote: the winner of the highest generation, or null.
Top(store) ==
    IF store = {} THEN NoManifest
    ELSE CHOOSE m \in store : /\ \A g \in Gens(store) : g <= m.gen
                              /\ IsWinner(store, m)

\* The put of a manifest replaces whatever is at its key.
Put(store, m) == {n \in store : n.gen # m.gen \/ n.dev # m.dev} \cup {m}

KeyTaken(store, m) == \E n \in store : n.gen = m.gen /\ n.dev = m.dev

---------------------------------------------------------------------------
(* What an operation publishes.                                            *)

\* Mutations of Retain: a new file rotates "nothing" into its history; this
\* device's setting shortens a history another device keeps.
RetainNothing(history, prior, keep) ==
    SubSeq(<<prior>> \o history, 1,
           IF keep < Len(history) + 1 THEN keep ELSE Len(history) + 1)

RetainMine(history, prior, keep) ==
    LET longer == <<prior>> \o history
    IN  IF prior = Absent THEN history
        ELSE SubSeq(longer, 1, IF keep < Len(longer) THEN keep ELSE Len(longer))

\* retain: a push rotates a path's history and never shortens it.
Retain(history, prior, keep) ==
    LET depth == IF keep > Len(history) THEN keep ELSE Len(history)
        longer == <<prior>> \o history
    IN  IF prior = Absent \/ depth = 0 THEN history
        ELSE SubSeq(longer, 1, IF depth < Len(longer) THEN depth ELSE Len(longer))

\* Mutation of NextTombs: an upload does not clear its path's tombstone.
TombsKept(old, dev, uploaded, tombstoned, now) ==
    [p \in Path |-> IF p \in tombstoned THEN [at |-> now, dev |-> dev]
                   ELSE old.tombs[p]]

\* A deletion leaves a tombstone, an upload clears its path's.
NextTombs(old, dev, uploaded, tombstoned, now) ==
    [p \in Path |-> IF p \in tombstoned THEN [at |-> now, dev |-> dev]
                   ELSE IF uploaded[p] # Absent THEN Absent
                   ELSE old.tombs[p]]

(***************************************************************************)
(* buildNextManifest: the parent plus this push's uploads and tombstones,  *)
(* then the tombstones older than the grace window expire and take their   *)
(* path's history along.  grace = 0 disables the expiry.                   *)
(***************************************************************************)
BuildNext(parent, gen, dev, uploaded, tombstoned, keep, now, grace) ==
    LET old == OnTopOf(parent)
        up(p) == uploaded[p] # Absent
        replaced(p) == \/ p \in tombstoned
                       \/ up(p) /\ old.files[p] # uploaded[p]
        tombs == NextTombs(old, dev, uploaded, tombstoned, now)
        expired(p) == /\ grace > 0
                      /\ tombs[p] # Absent
                      /\ tombs[p].at < now - grace
    IN  [gen |-> gen, dev |-> dev,
         files |-> [p \in Path |->
                       IF p \in tombstoned THEN Absent
                       ELSE IF up(p) THEN uploaded[p] ELSE old.files[p]],
         tombs |-> [p \in Path |-> IF expired(p) THEN Absent ELSE tombs[p]],
         history |-> [p \in Path |->
                         IF expired(p) THEN <<>>
                         ELSE IF replaced(p)
                              THEN Retain(old.history[p], old.files[p], keep)
                              ELSE old.history[p]],
         forgotten |-> old.forgotten,
         markers |-> old.markers]

\* Mutation of ForgetNext: the retained versions are not kept.
ForgetFilesOnly(parent, gen, dev, gone) ==
    [gen |-> gen, dev |-> dev,
     files |-> [p \in Path |-> IF p \in gone THEN Absent ELSE parent.files[p]],
     tombs |-> parent.tombs,
     history |-> [p \in Path |-> IF p \in gone THEN <<>> ELSE parent.history[p]],
     forgotten |-> parent.forgotten \cup {parent.files[p] : p \in gone},
     markers |-> [p \in Path |-> IF p \in gone THEN gen ELSE parent.markers[p]]]

\* forgetPaths: entries and their retained versions become kept objects.
ForgetNext(parent, gen, dev, gone) ==
    LET versions(p) == {parent.history[p][i] : i \in DOMAIN parent.history[p]}
    IN  [gen |-> gen, dev |-> dev,
         files |-> [p \in Path |-> IF p \in gone THEN Absent ELSE parent.files[p]],
         tombs |-> parent.tombs,
         history |-> [p \in Path |-> IF p \in gone THEN <<>> ELSE parent.history[p]],
         forgotten |-> parent.forgotten
                         \cup {parent.files[p] : p \in gone}
                         \cup UNION {versions(p) : p \in gone},
         markers |-> [p \in Path |-> IF p \in gone THEN gen ELSE parent.markers[p]]]

\* releaseForgotten: the kept objects are let go; the markers stay.
ReleaseNext(parent, gen, dev) ==
    [gen |-> gen, dev |-> dev, files |-> parent.files, tombs |-> parent.tombs,
     history |-> parent.history, forgotten |-> {}, markers |-> parent.markers]

---------------------------------------------------------------------------
(* A device's base.                                                        *)

\* withoutForgotten: entries forgotten after this base, unless re-added as is.
WithoutForgotten(b, remote) ==
    LET stale(p) == /\ b.gen < remote.markers[p]
                    /\ remote.files[p] # b.files[p]
    IN  [b EXCEPT !.files = [p \in Path |-> IF stale(p) THEN Absent ELSE b.files[p]]]

\* Mutation of BaseFor: whoever owns the generation now, the base stands.
BaseByGeneration(b, store) ==
    IF b = NoManifest \/ Top(store) = NoManifest THEN b
    ELSE WithoutForgotten(b, Top(store))

(***************************************************************************)
(* baseFor: the base to plan against.  Decided by the lineage of the top   *)
(* manifest while it reaches the base's generation, and by who owns that   *)
(* generation beyond it.                                                   *)
(***************************************************************************)
BaseFor(b, store) ==
    LET remote == Top(store)
        line == <<remote.id>> \o remote.anc
        depth == remote.gen - b.gen
        reaches == depth >= 0 /\ depth + 1 <= Len(line)
        onLine == line[depth + 1] = b.id
        overruled == \E m \in Rivals(store, b.gen) :
                        IsWinner(store, m) /\ m.dev # b.dev
    IN  IF b = NoManifest \/ remote = NoManifest THEN b
        ELSE IF (IF reaches THEN onLine ELSE ~overruled)
             THEN WithoutForgotten(b, remote)
             ELSE NoManifest

\* Mutations of RolledBack: never asked; an off-by-one.
NeverRolledBack(b, store) == FALSE

RolledBackOrSame(b, store) == b # NoManifest /\ GenOf(Top(store)) <= b.gen

\* rolledBack: the storage's top is older than what this device synced.
RolledBack(b, store) == b # NoManifest /\ GenOf(Top(store)) < b.gen

\* Mutation of AdoptPulled: paths outside the profile are adopted too.
AdoptUncarried(remote, planned, held, carried) ==
    [remote EXCEPT !.files =
        [p \in Path |-> IF p \in held THEN FilesOf(planned)[p] ELSE remote.files[p]]]

\* adoptBase after a pull: held paths keep the entry they were planned with.
AdoptPulled(remote, planned, held, carried) ==
    [remote EXCEPT !.files =
        [p \in Path |-> IF p \notin carried THEN Absent
                        ELSE IF p \in held THEN FilesOf(planned)[p]
                        ELSE remote.files[p]]]

\* adoptBase after a publish: the base moves by the changed paths only.
AdoptPublished(next, planned, changed, carried) ==
    [next EXCEPT !.files =
        [p \in Path |-> IF p \notin changed THEN FilesOf(planned)[p]
                        ELSE IF p \in carried THEN next.files[p]
                        ELSE Absent]]

\* parseManifest refuses a path that is both live and tombstoned.
Parses(m) == \A p \in Path : m.files[p] = Absent \/ m.tombs[p] = Absent

\* loadStateOnce: unreadable state is discarded, a readable base is filtered.
Loaded(m, carried) ==
    IF m = NoManifest THEN NoManifest
    ELSE IF Parses(m)
         THEN [m EXCEPT !.files =
                 [p \in Path |-> IF p \in carried THEN m.files[p] ELSE Absent]]
         ELSE NoManifest
=============================================================================

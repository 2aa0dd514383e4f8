----------------------------- MODULE SyncProofs -----------------------------
(***************************************************************************)
(* Invariants of SyncEngine, for every number of devices, paths, contents, *)
(* every tuning and every budget of rare events: its types, that what is   *)
(* published can be read again, and that no base goes back by itself.      *)
(***************************************************************************)
EXTENDS SyncEngine, PlannerProofs, FiniteSetTheorems

(***************************************************************************)
(* What a job carries from one step to the next: a pull has a manifest to  *)
(* pull and every download has an entry in it, a push has a generation     *)
(* left to publish, a publication has a manifest to publish.               *)
(***************************************************************************)
Fits(j) ==
    /\ j.phase = "pull" =>
         /\ j.remote \in Manifest
         /\ \A op \in j.todo : op.kind = "download" => j.remote.files[op.path] \in Hash
    /\ j.phase = "push" \/ (j.phase = "pull" /\ j.full) => GenOf(j.remote) < MaxGen
    /\ j.phase \in {"ready", "published"} => j.next \in Manifest /\ j.next.gen <= MaxGen

TypeInv ==
    /\ TypeOK
    /\ \A d \in Device : Fits(job[d])
    /\ \A m \in store : m.gen <= MaxGen

---------------------------------------------------------------------------
(* What every job starts from.                                             *)

(***************************************************************************)
(* readRemote returns a manifest of the storage, or null for an empty one. *)
(***************************************************************************)
LEMMA TopType ==
    ASSUME TypeInv
    PROVE  /\ store = {} => Top(store) = NoManifest
           /\ store # {} => /\ Top(store) \in store
                            /\ Top(store) \in Manifest
                            /\ GenOf(Top(store)) <= MaxGen
           /\ Top(store) \in MaybeManifest
           /\ GenOf(Top(store)) \in Nat
<1>1. CASE store = {}
  BY <1>1 DEF Top, MaybeManifest, GenOf
<1>2. CASE store # {}
  <2>1. \A m \in store : /\ m \in Manifest
                         /\ m.gen \in Nat /\ m.gen <= MaxGen /\ m.dev \in Device
    BY DEF TypeInv, TypeOK, Manifest
  <2>2. Top(store) \in store
    BY <1>2, <2>1, TopIsWinner, ParameterAssumption
  <2> QED
    BY <1>2, <2>1, <2>2, ParameterAssumption DEF MaybeManifest, GenOf
<1> QED
  BY <1>1, <1>2

(***************************************************************************)
(* The files a scan may fail to read are paths, no more than the budget    *)
(* allows, and charging them leaves a budget.                              *)
(***************************************************************************)
LEMMA UnreadableType ==
    ASSUME TypeInv, NEW d \in Device, NEW U \in Unreadable(d)
    PROVE  /\ U \in SUBSET Path
           /\ Charge(U) => left' \in [Fault -> Nat]
<1>1. U \in SUBSET Path /\ Cardinality(U) <= left["unreadable"]
  BY DEF Unreadable, TypeInv, TypeOK
<1>2. Cardinality(U) \in Nat
  BY <1>1, ParameterAssumption, FS_Subset, FS_CardinalityType
<1>3. left["unreadable"] - Cardinality(U) \in Nat
  BY <1>1, <1>2 DEF TypeInv, TypeOK, Fault
<1> QED
  BY <1>1, <1>3 DEF Charge, TypeInv, TypeOK

\* A rare event that is spent leaves a budget.
LEMMA SpendType ==
    ASSUME TypeInv, NEW f \in Fault, Spend(f)
    PROVE  left' \in [Fault -> Nat]
  BY DEF Spend, TypeInv, TypeOK

(***************************************************************************)
(* A plan's operations, and the entry every download of it will fetch.     *)
(***************************************************************************)
LEMMA PlanForType ==
    ASSUME TypeInv, NEW d \in Device, NEW U \in SUBSET Path
    PROVE  /\ PlanFor(d, U) \in SUBSET Op
           /\ \A op \in PlanFor(d, U) :
                op.kind = "download" => /\ store # {}
                                        /\ Top(store).files[op.path] \in Hash
<1> DEFINE local == Scan(d, U)
           remote == Top(store)
<1>1. /\ local \in [Path -> LocalSide]
      /\ Planned(d) \in MaybeManifest
      /\ remote \in MaybeManifest
  <2>1. local \in [Path -> LocalSide]
    BY DEF TypeInv, TypeOK, Scan, LocalSide, Side
  <2> QED
    BY <2>1, TopType, BaseForType DEF Planned, TypeInv, TypeOK
<1>2. PlanFor(d, U) \in SUBSET Op
  <2> SUFFICES ASSUME NEW op \in PlanFor(d, U)
               PROVE  op \in Op
    OBVIOUS
  <2> QED
    BY <1>1, PlanOpsType DEF PlanFor, Op, Side, LocalSide
<1>3. ASSUME NEW op \in PlanFor(d, U), op.kind = "download"
      PROVE  store # {} /\ Top(store).files[op.path] \in Hash
  <2>1. PICK p \in Path : op = Operation(local, Planned(d), remote, p)
    BY DEF PlanFor, PlanOps, Operations
  <2>2. Classify(local[p], SideOf(Planned(d), p), SideOf(remote, p)) = "download"
    BY <1>3, <2>1 DEF Operation
  <2>3. Live(SideOf(remote, p))
    <3>1. ThreeWay(local[p], SideOf(Planned(d), p), SideOf(remote, p)) = "download"
      BY <1>1, <2>2, SideOfType, ClassifyIsThreeWay
    <3> QED
      BY <3>1 DEF ThreeWay
  <2>4. remote # NoManifest /\ remote.files[p] \in Hash
    BY <2>3, MarkAssumption DEF Live, SideOf
  <2>5. op.path = p
    BY <2>1 DEF Operation
  <2> QED
    BY <2>4, <2>5, TopType
<1> QED
  BY <1>2, <1>3

(***************************************************************************)
(* What a job reads, scans and plans is of the types a job keeps.          *)
(***************************************************************************)
LEMMA PlannedType ==
    ASSUME TypeInv, NEW d \in Device, NEW U \in SUBSET Path
    PROVE  /\ Top(store) \in MaybeManifest
           /\ Planned(d) \in MaybeManifest
           /\ NoManifest \in MaybeManifest
           /\ PlanFor(d, U) \in SUBSET Op
  BY TopType, BaseForType, PlanForType DEF TypeInv, TypeOK, Planned, MaybeManifest

\* A device with nothing to do has a job that fits.
LEMMA IdleJobType == IdleJob \in Job /\ Fits(IdleJob)
  BY DEF IdleJob, Job, Phase, MaybeManifest, Fits

(***************************************************************************)
(* A step that gives one device a job that fits keeps every job fitting.   *)
(***************************************************************************)
LEMMA JobUpdate ==
    ASSUME TypeInv, NEW d \in Device, NEW j \in Job, Fits(j),
           job' = [job EXCEPT ![d] = j]
    PROVE  /\ job' \in [Device -> Job]
           /\ \A e \in Device : Fits(job'[e])
<1>1. job \in [Device -> Job]
  BY DEF TypeInv, TypeOK
<1>2. job' \in [Device -> Job]
  BY <1>1
<1>3. ASSUME NEW e \in Device
      PROVE  Fits(job'[e])
  <2>1. job'[e] = IF e = d THEN j ELSE job[e]
    BY <1>1
  <2>2. Fits(job[e])
    BY DEF TypeInv
  <2>3. CASE e = d
    BY <2>1, <2>3, Zenon
  <2>4. CASE e # d
    BY <2>1, <2>2, <2>4, Zenon
  <2> QED
    BY <2>3, <2>4
<1> QED
  BY <1>2, <1>3

---------------------------------------------------------------------------
(* The users' steps.                                                       *)

(***************************************************************************)
(* The file a path resolves to is a path of the vault.                     *)
(***************************************************************************)
LEMMA AtType ==
    ASSUME NEW d \in Device, NEW p \in Path
    PROVE  At(d, p) \in Path
<1>1. CASE d \in CaseBlind /\ \E q \in Path : Fold[q] = Fold[p] /\ vault[d][q] # Absent
  <2>1. (CHOOSE q \in Path : Fold[q] = Fold[p] /\ vault[d][q] # Absent) \in Path
    BY <1>1
  <2> QED
    BY <1>1, <2>1 DEF At
<1>2. CASE ~(d \in CaseBlind /\ \E q \in Path : Fold[q] = Fold[p] /\ vault[d][q] # Absent)
  BY <1>2 DEF At
<1> QED
  BY <1>1, <1>2

(***************************************************************************)
(* One file of one device changes.                                         *)
(***************************************************************************)
LEMMA VaultUpdate ==
    ASSUME TypeOK, NEW d \in Device, NEW p \in Path, NEW h \in Side,
           vault' = [vault EXCEPT ![d][p] = h]
    PROVE  vault' \in [Device -> [Path -> Side]]
  BY DEF TypeOK

\* Content a device now holds is content.
LEMMA SeenUpdate ==
    ASSUME TypeOK, NEW d \in Device, NEW h \in Hash,
           seen' = [seen EXCEPT ![d] = @ \cup {h}]
    PROVE  seen' \in [Device -> SUBSET Hash]
  BY DEF TypeOK

\* Every step of a user keeps the types.
LEMMA UserType ==
    ASSUME TypeInv, NEW d \in Device, User(d)
    PROVE  TypeInv'
<1>1. ASSUME NEW p \in Path, UserEdit(d, p)
      PROVE  TypeInv'
  <2>1. PICK h \in Hash \ authored :
          /\ vault' = [vault EXCEPT ![d][p] = h]
          /\ authored' = authored \cup {h}
          /\ seen' = [seen EXCEPT ![d] = @ \cup {h}]
    BY <1>1 DEF UserEdit
  <2>2. vault' \in [Device -> [Path -> Side]] /\ seen' \in [Device -> SUBSET Hash]
    BY <2>1, VaultUpdate, SeenUpdate DEF TypeInv, Side
  <2>3. authored' \in SUBSET Hash /\ superseded' \in SUBSET Hash
    BY <1>1, <2>1 DEF UserEdit, TypeInv, TypeOK
  <2> QED
    BY <1>1, <2>2, <2>3 DEF UserEdit, TypeInv, TypeOK, state
<1>2. ASSUME NEW p \in Path, UserDelete(d, p)
      PROVE  TypeInv'
  <2>1. vault' \in [Device -> [Path -> Side]]
    BY <1>2, VaultUpdate DEF UserDelete, TypeInv, Side
  <2>2. left' \in [Fault -> Nat]
    BY <1>2, SpendType DEF UserDelete, Fault
  <2>3. superseded' \in SUBSET Hash /\ deletions' \in SUBSET (Device \X Path)
    BY <1>2 DEF UserDelete, TypeInv, TypeOK, Side
  <2> QED
    BY <1>2, <2>1, <2>2, <2>3 DEF UserDelete, TypeInv, TypeOK, state
<1>3. ASSUME NEW p \in Path, UserRestore(d, p)
      PROVE  TypeInv'
  <2>1. PICK h \in authored \ {vault[d][p]} :
          /\ vault' = [vault EXCEPT ![d][p] = h]
          /\ seen' = [seen EXCEPT ![d] = @ \cup {h}]
          /\ superseded' = superseded \cup ({vault[d][p]} \cap Hash)
    BY <1>3 DEF UserRestore
  <2>2. h \in Hash
    BY DEF TypeInv, TypeOK
  <2>3. vault' \in [Device -> [Path -> Side]] /\ seen' \in [Device -> SUBSET Hash]
    BY <2>1, <2>2, VaultUpdate, SeenUpdate DEF TypeInv, Side
  <2>4. left' \in [Fault -> Nat] /\ superseded' \in SUBSET Hash
    BY <1>3, <2>1, SpendType DEF UserRestore, Fault, TypeInv, TypeOK
  <2> QED
    BY <1>3, <2>3, <2>4 DEF UserRestore, TypeInv, TypeOK, state
<1>4. ASSUME ChangeProfile(d)
      PROVE  TypeInv'
  <2>1. left' \in [Fault -> Nat]
    BY <1>4, SpendType DEF ChangeProfile, Fault
  <2>2. profile' \in [Device -> SUBSET Path]
    BY <1>4, ParameterAssumption DEF ChangeProfile, TypeInv, TypeOK
  <2> QED
    BY <1>4, <2>1, <2>2 DEF ChangeProfile, TypeInv, TypeOK, files, state, ghosts
<1> QED
  BY <1>1, <1>2, <1>3, <1>4 DEF User

---------------------------------------------------------------------------
(* The steps of a pull.                                                    *)

\* doPull, up to the first operation.
LEMMA PullBeginType ==
    ASSUME TypeInv, NEW d \in Device, PullBegin(d)
    PROVE  TypeInv'
<1>1. PICK U \in Unreadable(d) :
        /\ job' = [job EXCEPT ![d] =
                    Planning(d, U, "pull", FALSE, OpsOf(PlanFor(d, U), PullKinds))]
        /\ Charge(U)
  BY DEF PullBegin
<1> DEFINE todo == OpsOf(PlanFor(d, U), PullKinds)
           j == Planning(d, U, "pull", FALSE, todo)
<1>2. U \in SUBSET Path /\ left' \in [Fault -> Nat]
  BY <1>1, UnreadableType
<1>3. todo \in SUBSET PlanFor(d, U)
  BY DEF OpsOf
<1>4. job' = [job EXCEPT ![d] = j]
  BY <1>1
<1> HIDE DEF todo
<1>5. /\ j \in Job
      /\ j.phase = "pull" /\ j.full = FALSE
      /\ j.remote = Top(store) /\ j.todo = todo
  BY <1>2, <1>3, PlannedType DEF Planning, Job, Phase
<1> HIDE DEF j
<1>6. j.remote \in Manifest
  BY <1>5, TopType DEF PullBegin
<1>7. ASSUME NEW op \in j.todo, op.kind = "download"
      PROVE  j.remote.files[op.path] \in Hash
  BY <1>2, <1>3, <1>5, <1>7, PlanForType
<1>8. Fits(j)
  BY <1>5, <1>6, <1>7 DEF Fits
<1>9. job' \in [Device -> Job] /\ \A e \in Device : Fits(job'[e])
  BY <1>4, <1>5, <1>8, JobUpdate
<1> QED
  BY <1>2, <1>9 DEF PullBegin, TypeInv, TypeOK, files, state, ghosts

(***************************************************************************)
(* A pull that has applied or held an operation is the pull it was.        *)
(***************************************************************************)
LEMMA DoneType ==
    ASSUME TypeInv, NEW d \in Device, NEW op \in job[d].todo,
           job[d].phase = "pull",
           job' = Done(d, op) \/ job' = DoneHeld(d, op)
    PROVE  /\ job' \in [Device -> Job]
           /\ \A e \in Device : Fits(job'[e])
<1>1. job[d] \in Job /\ job \in [Device -> Job] /\ Fits(job[d])
  BY DEF TypeInv, TypeOK
<1>2. op \in Op /\ op.path \in Path
  BY <1>1 DEF Job, Op
<1>3. CASE job' = Done(d, op)
  <2> DEFINE j == [job[d] EXCEPT !.todo = @ \ {op}]
  <2>1. job' = [job EXCEPT ![d] = j]
    BY <1>1, <1>3 DEF Done
  <2>2. j \in Job
    BY <1>1 DEF Job
  <2>3. Fits(j)
    BY <1>1 DEF Fits, Job
  <2> HIDE DEF j
  <2> QED
    BY <2>1, <2>2, <2>3, JobUpdate
<1>4. CASE job' = DoneHeld(d, op)
  <2> DEFINE j == [job[d] EXCEPT !.todo = @ \ {op}, !.held = @ \cup {op.path}]
  <2>1. job' = [job EXCEPT ![d] = j]
    BY <1>1, <1>4 DEF DoneHeld
  <2>2. j \in Job
    BY <1>1, <1>2 DEF Job
  <2>3. Fits(j)
    BY <1>1 DEF Fits, Job
  <2> HIDE DEF j
  <2> QED
    BY <2>1, <2>2, <2>3, JobUpdate
<1> QED
  BY <1>3, <1>4

(***************************************************************************)
(* Writing a content, at a path or beside it, leaves files of contents.    *)
(***************************************************************************)
LEMMA WriteType ==
    ASSUME TypeInv, NEW d \in Device, NEW p \in Path, NEW h \in Hash,
           WriteFile(d, p, h) \/ WriteCopy(d, h)
    PROVE  /\ vault' \in [Device -> [Path -> Side]]
           /\ copies' \in [Device -> SUBSET Hash]
           /\ seen' \in [Device -> SUBSET Hash]
<1>1. h \in Side /\ At(d, p) \in Path
  BY AtType DEF Side
<1>2. CASE WriteFile(d, p, h)
  BY <1>1, <1>2, VaultUpdate, SeenUpdate DEF WriteFile, TypeInv, TypeOK
<1>3. CASE WriteCopy(d, h)
  BY <1>3, SeenUpdate DEF WriteCopy, TypeInv, TypeOK
<1> QED
  BY <1>2, <1>3

\* A download writes content the manifest names.
LEMMA ApplyDownloadType ==
    ASSUME TypeInv, NEW d \in Device, ApplyDownload(d)
    PROVE  TypeInv'
<1> DEFINE fetched(op) == job[d].remote.files[op.path]
<1>1. PICK op \in job[d].todo :
        /\ NextPullOp(d, op)
        /\ op.kind = "download"
        /\ \/ WriteFile(d, op.path, fetched(op)) /\ job' = Done(d, op)
           \/ WriteCopy(d, fetched(op)) /\ job' = Done(d, op)
           \/ job' = DoneHeld(d, op) /\ UNCHANGED <<files, seen>>
  BY DEF ApplyDownload
<1>2. job[d].phase = "pull"
  BY <1>1 DEF NextPullOp
<1>3. fetched(op) \in Hash /\ op.path \in Path
  BY <1>1, <1>2 DEF TypeInv, TypeOK, Fits, Job, Op
<1>4. job' \in [Device -> Job] /\ \A e \in Device : Fits(job'[e])
  BY <1>1, <1>2, DoneType
<1>5. /\ vault' \in [Device -> [Path -> Side]]
      /\ copies' \in [Device -> SUBSET Hash]
      /\ seen' \in [Device -> SUBSET Hash]
  BY <1>1, <1>3, WriteType DEF files, TypeInv, TypeOK
<1> QED
  BY <1>4, <1>5 DEF ApplyDownload, TypeInv, TypeOK, state

\* A move to the trash leaves the path absent.
LEMMA ApplyDeleteLocalType ==
    ASSUME TypeInv, NEW d \in Device, ApplyDeleteLocal(d)
    PROVE  TypeInv'
<1>1. PICK op \in job[d].todo :
        /\ NextPullOp(d, op)
        /\ \/ /\ vault' = [vault EXCEPT ![d][At(d, op.path)] = Absent]
              /\ job' = Done(d, op) /\ UNCHANGED left
           \/ job' = DoneHeld(d, op) /\ UNCHANGED <<vault, left>>
           \/ Spend("locked") /\ job' = DoneHeld(d, op) /\ UNCHANGED vault
  BY DEF ApplyDeleteLocal
<1>2. job[d].phase = "pull" /\ At(d, op.path) \in Path
  BY <1>1, AtType DEF NextPullOp, TypeInv, TypeOK, Job, Op
<1>3. job' \in [Device -> Job] /\ \A e \in Device : Fits(job'[e])
  BY <1>1, <1>2, DoneType
<1>4. vault' \in [Device -> [Path -> Side]]
  BY <1>1, <1>2, VaultUpdate DEF Side, TypeInv, TypeOK
<1>5. left' \in [Fault -> Nat]
  BY <1>1, SpendType DEF Fault, TypeInv, TypeOK
<1> QED
  BY <1>3, <1>4, <1>5 DEF ApplyDeleteLocal, TypeInv, TypeOK, state, ghosts

\* A conflict writes what is there, at the path or beside it.
LEMMA ApplyConflictType ==
    ASSUME TypeInv, NEW d \in Device, ApplyConflict(d)
    PROVE  TypeInv'
<1> DEFINE theirs(op) == job[d].remote.files[op.path]
<1>1. PICK op \in job[d].todo :
        /\ NextPullOp(d, op)
        /\ job' = Done(d, op)
        /\ \/ theirs(op) # Absent /\ WriteFile(d, op.path, theirs(op))
           \/ theirs(op) # Absent /\ WriteCopy(d, theirs(op))
           \/ UNCHANGED <<files, seen>>
  BY DEF ApplyConflict
<1>2. job[d].phase = "pull" /\ op.path \in Path
  BY <1>1 DEF NextPullOp, TypeInv, TypeOK, Job, Op
<1>3. theirs(op) # Absent => theirs(op) \in Hash
  BY <1>2 DEF TypeInv, Fits, Manifest
<1>4. job' \in [Device -> Job] /\ \A e \in Device : Fits(job'[e])
  BY <1>1, <1>2, DoneType
<1>5. /\ vault' \in [Device -> [Path -> Side]]
      /\ copies' \in [Device -> SUBSET Hash]
      /\ seen' \in [Device -> SUBSET Hash]
  BY <1>1, <1>2, <1>3, WriteType DEF files, TypeInv, TypeOK
<1> QED
  BY <1>4, <1>5 DEF ApplyConflict, TypeInv, TypeOK, state

(***************************************************************************)
(* Adopting a base, saved or not, leaves a base.                           *)
(***************************************************************************)
LEMMA AdoptType ==
    ASSUME TypeInv, NEW d \in Device, NEW b \in MaybeManifest, Adopt(d, b)
    PROVE  /\ base' \in [Device -> MaybeManifest]
           /\ saved' \in [Device -> MaybeManifest]
           /\ left' \in [Fault -> Nat]
<1>1. left' \in [Fault -> Nat]
  BY SpendType DEF Adopt, Fault, TypeInv, TypeOK
<1> QED
  BY <1>1 DEF Adopt, TypeInv, TypeOK

\* The end of a pull, and the push half it may go on with.
LEMMA FinishPullType ==
    ASSUME TypeInv, NEW d \in Device, FinishPull(d)
    PROVE  TypeInv'
<1> DEFINE b == AdoptPulled(job[d].remote, job[d].planned, job[d].held, profile[d])
           j == [job[d] EXCEPT !.phase = "push", !.planned = b]
<1>1. /\ job[d].phase = "pull"
      /\ Adopt(d, b)
      /\ job' = [job EXCEPT ![d] =
                   IF saved'[d] = b /\ job[d].full /\ job[d].todo # {}
                   THEN j ELSE IdleJob]
  BY DEF FinishPull
<1>2. job[d] \in Job /\ Fits(job[d]) /\ job[d].remote \in Manifest
  BY <1>1 DEF TypeInv, TypeOK, Fits
<1>3. b \in Manifest
  BY <1>2, AdoptPulledType DEF Job, TypeInv, TypeOK
<1>4. /\ base' \in [Device -> MaybeManifest]
      /\ saved' \in [Device -> MaybeManifest]
      /\ left' \in [Fault -> Nat]
  BY <1>1, <1>3, AdoptType DEF MaybeManifest
<1>5. j \in Job /\ j.phase = "push" /\ j.remote = job[d].remote
  BY <1>2, <1>3 DEF Job, Phase, MaybeManifest
<1>6. job[d].full => Fits(j)
  BY <1>1, <1>2, <1>5 DEF Fits
<1> HIDE DEF b, j
<1>7. CASE saved'[d] = b /\ job[d].full /\ job[d].todo # {}
  <2>1. job' = [job EXCEPT ![d] = j]
    BY <1>1, <1>7
  <2>2. job' \in [Device -> Job] /\ \A e \in Device : Fits(job'[e])
    BY <1>5, <1>6, <1>7, <2>1, JobUpdate
  <2> QED
    BY <1>4, <2>2 DEF FinishPull, TypeInv, TypeOK, files, ghosts
<1>8. CASE ~(saved'[d] = b /\ job[d].full /\ job[d].todo # {})
  <2>1. job' = [job EXCEPT ![d] = IdleJob]
    BY <1>1, <1>8
  <2>2. job' \in [Device -> Job] /\ \A e \in Device : Fits(job'[e])
    BY <2>1, IdleJobType, JobUpdate
  <2> QED
    BY <1>4, <2>2 DEF FinishPull, TypeInv, TypeOK, files, ghosts
<1> QED
  BY <1>7, <1>8

---------------------------------------------------------------------------
(* The steps of a push.                                                    *)

\* doPush, up to the first upload.
LEMMA PushBeginType ==
    ASSUME TypeInv, NEW d \in Device, PushBegin(d)
    PROVE  TypeInv'
<1>1. PICK U \in Unreadable(d) :
        /\ job' = [job EXCEPT ![d] =
                    Planning(d, U, "push", FALSE, OpsOf(PlanFor(d, U), PushKinds))]
        /\ Charge(U)
  BY DEF PushBegin
<1> DEFINE todo == OpsOf(PlanFor(d, U), PushKinds)
           j == Planning(d, U, "push", FALSE, todo)
<1>2. U \in SUBSET Path /\ left' \in [Fault -> Nat]
  BY <1>1, UnreadableType
<1>3. todo \in SUBSET PlanFor(d, U)
  BY DEF OpsOf
<1>4. job' = [job EXCEPT ![d] = j]
  BY <1>1
<1> HIDE DEF todo
<1>5. j \in Job /\ j.phase = "push" /\ j.remote = Top(store)
  BY <1>2, <1>3, PlannedType DEF Planning, Job, Phase
<1> HIDE DEF j
<1>6. Fits(j)
  BY <1>5 DEF Fits, PushBegin
<1>7. job' \in [Device -> Job] /\ \A e \in Device : Fits(job'[e])
  BY <1>4, <1>5, <1>6, JobUpdate
<1> QED
  BY <1>2, <1>7 DEF PushBegin, TypeInv, TypeOK, files, state, ghosts

(***************************************************************************)
(* What an operation publishes on top of what it read is a manifest of the *)
(* next generation.                                                        *)
(***************************************************************************)
LEMMA StampedFits ==
    ASSUME TypeInv, NEW body \in Body, NEW parent \in MaybeManifest,
           body.gen = GenOf(parent) + 1, GenOf(parent) < MaxGen
    PROVE  /\ Stamped(body, parent) \in Manifest
           /\ Stamped(body, parent) \in MaybeManifest
           /\ Stamped(body, parent).gen <= MaxGen
<1>1. GenOf(parent) + 1 <= MaxGen
  BY OnTopOfType, ParameterAssumption
<1>2. Stamped(body, parent).gen = body.gen
  BY DEF Stamped
<1> QED
  BY <1>1, <1>2, StampedType DEF MaybeManifest

\* Whatever is still there to upload, what is built on it is a manifest.
LEMMA PushFilesType ==
    ASSUME TypeInv, NEW d \in Device, PushFiles(d)
    PROVE  TypeInv'
<1> DEFINE uploads(locked) == {o.path : o \in OpsOf(job[d].todo, {"upload"})} \ locked
           uploaded(locked) == [p \in Path |-> IF p \in uploads(locked)
                                               THEN FileAt(d, p) ELSE Absent]
           tombstoned == {o.path : o \in OpsOf(job[d].todo, {"deleteRemote"})}
           changed(locked) == {p \in Path : uploaded(locked)[p] # Absent} \cup tombstoned
           body(locked) == BuildNext(job[d].remote, GenOf(job[d].remote) + 1, d,
                                     uploaded(locked), tombstoned, Keep[d], now, Grace)
           j(locked) == [job[d] EXCEPT !.phase = "ready", !.todo = {},
                           !.next = Stamped(body(locked), job[d].remote),
                           !.changed = changed(locked)]
<1>1. PICK locked \in {L \in SUBSET {o.path : o \in OpsOf(job[d].todo, {"upload"})} :
                         Cardinality(L) <= left["locked"]} :
        /\ job' = [job EXCEPT ![d] =
                    IF changed(locked) = {} THEN IdleJob ELSE j(locked)]
        /\ left' = [left EXCEPT !["locked"] = @ - Cardinality(locked)]
  BY DEF PushFiles
<1>2. /\ job[d] \in Job /\ job[d].phase = "push" /\ GenOf(job[d].remote) < MaxGen
      /\ job[d].remote \in MaybeManifest
  BY DEF PushFiles, TypeInv, TypeOK, Fits, Job
<1>3. \A o \in job[d].todo : o.path \in Path
  BY <1>2 DEF Job, Op
<1>4. locked \in SUBSET Path /\ tombstoned \in SUBSET Path /\ changed(locked) \in SUBSET Path
  BY <1>1, <1>3 DEF OpsOf
<1>5. left' \in [Fault -> Nat]
  <2>1. Cardinality(locked) \in Nat
    BY <1>4, ParameterAssumption, FS_Subset, FS_CardinalityType
  <2>2. left["locked"] - Cardinality(locked) \in Nat
    BY <1>1, <2>1 DEF TypeInv, TypeOK, Fault
  <2> QED
    BY <1>1, <2>2 DEF TypeInv, TypeOK
<1>6. uploaded(locked) \in [Path -> Hash \cup {Absent}]
  <2>1. \A p \in Path : FileAt(d, p) \in Hash \cup {Absent}
    BY AtType DEF FileAt, TypeInv, TypeOK, Side
  <2> QED
    BY <2>1
<1>7. /\ GenOf(job[d].remote) + 1 \in Nat
      /\ Keep[d] \in Nat /\ now \in Nat /\ Grace \in Nat
  BY <1>2, OnTopOfType, ParameterAssumption DEF TypeInv, TypeOK
<1>8. body(locked) \in Body
  <2> HIDE DEF uploaded, tombstoned
  <2> QED
    BY <1>2, <1>4, <1>6, <1>7, BuildNextType
<1>9. body(locked).gen = GenOf(job[d].remote) + 1
  BY DEF BuildNext
<1> HIDE DEF body, changed, uploads, uploaded, tombstoned
<1>10. /\ Stamped(body(locked), job[d].remote) \in Manifest
       /\ Stamped(body(locked), job[d].remote) \in MaybeManifest
       /\ Stamped(body(locked), job[d].remote).gen <= MaxGen
  BY <1>2, <1>8, <1>9, StampedFits
<1>11. /\ j(locked) \in Job
       /\ j(locked).phase = "ready"
       /\ j(locked).next = Stamped(body(locked), job[d].remote)
  BY <1>2, <1>4, <1>10 DEF Job, Phase
<1> HIDE DEF j
<1>12. Fits(j(locked))
  BY <1>10, <1>11 DEF Fits
<1>13. job' \in [Device -> Job] /\ \A e \in Device : Fits(job'[e])
  <2>1. CASE changed(locked) = {}
    BY <1>1, <2>1, IdleJobType, JobUpdate
  <2>2. CASE changed(locked) # {}
    BY <1>1, <2>2, <1>11, <1>12, JobUpdate
  <2> QED
    BY <2>1, <2>2
<1> QED
  BY <1>5, <1>13 DEF PushFiles, TypeInv, TypeOK, files, state, ghosts

\* The put leaves manifests in the storage.
LEMMA PublishType ==
    ASSUME TypeInv, NEW d \in Device, Publish(d)
    PROVE  TypeInv'
<1>1. /\ job[d] \in Job /\ Fits(job[d])
      /\ job[d].next \in Manifest /\ job[d].next.gen <= MaxGen
  BY DEF Publish, TypeInv, TypeOK, Fits
<1> DEFINE j == [job[d] EXCEPT !.phase = "published"]
<1>2. j \in Job /\ j.phase = "published" /\ j.next = job[d].next
  BY <1>1 DEF Job, Phase
<1>3. Fits(j)
  BY <1>1, <1>2 DEF Fits
<1>4. \/ job' = [job EXCEPT ![d] = IdleJob]
      \/ job' = [job EXCEPT ![d] = j]
  BY DEF Publish, TypeInv, TypeOK
<1> HIDE DEF j
<1>5. job' \in [Device -> Job] /\ \A e \in Device : Fits(job'[e])
  BY <1>2, <1>3, <1>4, IdleJobType, JobUpdate
<1>6. store' = store \/ store' = Put(store, job[d].next)
  BY DEF Publish
<1>7. store' \in SUBSET Manifest /\ \A m \in store' : m.gen <= MaxGen
  BY <1>1, <1>6 DEF Put, TypeInv, TypeOK
<1> QED
  BY <1>5, <1>7 DEF Publish, TypeInv, TypeOK, files, state, ghosts

\* The re-LIST and the base adopted after it.
LEMMA RelistType ==
    ASSUME TypeInv, NEW d \in Device, Relist(d)
    PROVE  TypeInv'
<1>1. job[d] \in Job /\ job[d].next \in Manifest
  BY DEF Relist, TypeInv, TypeOK, Fits
<1>2. AdoptPublished(job[d].next, job[d].planned, job[d].changed, profile[d])
        \in MaybeManifest
  BY <1>1, AdoptPublishedType DEF Job, TypeInv, TypeOK, MaybeManifest
<1>3. /\ base' \in [Device -> MaybeManifest]
      /\ saved' \in [Device -> MaybeManifest]
      /\ left' \in [Fault -> Nat]
  BY <1>2, AdoptType DEF Relist, state, TypeInv, TypeOK
<1>4. job' \in [Device -> Job] /\ \A e \in Device : Fits(job'[e])
  BY IdleJobType, JobUpdate DEF Relist
<1> QED
  BY <1>3, <1>4 DEF Relist, TypeInv, TypeOK, files, ghosts

---------------------------------------------------------------------------
(* Confirmations, forgotten paths, bases dropped, and what can go wrong.   *)

\* What is offered for confirmation is a set of destructive keys.
LEMMA PreviewType ==
    ASSUME TypeInv, NEW d \in Device, Preview(d)
    PROVE  TypeInv'
<1>1. PlanFor(d, {}) \in SUBSET Op
  BY PlanForType
<1>2. DestructiveKeys(PlanFor(d, {})) \in SUBSET Keys
  BY <1>1 DEF DestructiveKeys, Op, Keys
<1>3. shown' \in [Device -> SUBSET Keys]
  BY <1>2 DEF Preview, TypeInv, TypeOK
<1>4. left' \in [Fault -> Nat]
  BY SpendType DEF Preview, Fault
<1> QED
  BY <1>3, <1>4 DEF Preview, TypeInv, TypeOK, files, state, ghosts

\* A confirmed plan has a generation left for its push half.
LEMMA ConfirmBeginType ==
    ASSUME TypeInv, NEW d \in Device, ConfirmBegin(d)
    PROVE  TypeInv'
<1> DEFINE phase == IF store = {} THEN "push" ELSE "pull"
           todo(U) == IF store = {} THEN OpsOf(PlanFor(d, U), PushKinds) ELSE PlanFor(d, U)
           j(U) == Planning(d, U, phase, TRUE, todo(U))
<1>1. PICK U \in Unreadable(d) :
        /\ job' = [job EXCEPT ![d] = j(U)]
        /\ Charge(U)
  BY DEF ConfirmBegin
<1>2. U \in SUBSET Path /\ left' \in [Fault -> Nat]
  BY <1>1, UnreadableType
<1>3. todo(U) \in SUBSET PlanFor(d, U)
  BY DEF OpsOf
<1>4. store # {} => todo(U) = PlanFor(d, U)
  OBVIOUS
<1> HIDE DEF todo
<1>5. j(U) \in Job /\ j(U).phase = phase /\ j(U).remote = Top(store) /\ j(U).todo = todo(U)
  BY <1>2, <1>3, PlannedType DEF Planning, Job, Phase
<1> HIDE DEF j
<1>6. phase = "pull" => store # {} /\ Top(store) \in Manifest
  BY TopType
<1>7. ASSUME phase = "pull", NEW op \in todo(U), op.kind = "download"
      PROVE  Top(store).files[op.path] \in Hash
  BY <1>2, <1>3, <1>7, PlanForType
<1>8. GenOf(Top(store)) < MaxGen
  BY DEF ConfirmBegin
<1>9. phase \in {"push", "pull"}
  OBVIOUS
<1> HIDE DEF phase
<1>10. Fits(j(U))
  BY <1>5, <1>6, <1>7, <1>8, <1>9 DEF Fits
<1>11. job' \in [Device -> Job] /\ \A e \in Device : Fits(job'[e])
  BY <1>1, <1>5, <1>10, JobUpdate
<1> QED
  BY <1>2, <1>11 DEF ConfirmBegin, TypeInv, TypeOK, files, state, ghosts

\* A dismissed preview offers nothing.
LEMMA DismissType ==
    ASSUME TypeInv, NEW d \in Device, Dismiss(d)
    PROVE  TypeInv'
<1>1. shown' \in [Device -> SUBSET Keys]
  BY DEF Dismiss, TypeInv, TypeOK
<1> QED
  BY <1>1 DEF Dismiss, TypeInv, TypeOK, files, state, ghosts

(***************************************************************************)
(* forgetPaths and releaseForgotten begin a publication that fits.         *)
(***************************************************************************)
LEMMA PublishingFits ==
    ASSUME TypeInv, NEW d \in Device, NEW body \in Body, NEW changed \in SUBSET Path,
           body.gen = GenOf(Top(store)) + 1, GenOf(Top(store)) < MaxGen
    PROVE  Publishing(d, body, changed) \in Job /\ Fits(Publishing(d, body, changed))
<1> DEFINE j == Publishing(d, body, changed)
<1>1. /\ Stamped(body, Top(store)) \in Manifest
      /\ Stamped(body, Top(store)) \in MaybeManifest
      /\ Stamped(body, Top(store)).gen <= MaxGen
  BY TopType, StampedFits
<1>2. Planned(d) \in MaybeManifest /\ Top(store) \in MaybeManifest
  BY PlannedType
<1>3. j \in Job /\ j.phase = "ready" /\ j.next = Stamped(body, Top(store))
  BY <1>1, <1>2 DEF Publishing, Job, Phase
<1> HIDE DEF j
<1>4. Fits(j)
  BY <1>1, <1>3 DEF Fits
<1> QED
  BY <1>3, <1>4 DEF j

\* forgetPaths, up to its publication.
LEMMA ForgetBeginType ==
    ASSUME TypeInv, NEW d \in Device, ForgetBegin(d)
    PROVE  TypeInv'
<1>1. PICK gone \in (SUBSET {p \in Path : Top(store).files[p] # Absent}) \ {{}} :
        job' = [job EXCEPT ![d] =
                  Publishing(d, ForgetNext(Top(store), GenOf(Top(store)) + 1, d, gone), gone)]
  BY DEF ForgetBegin
<1> DEFINE body == ForgetNext(Top(store), GenOf(Top(store)) + 1, d, gone)
<1>2. GenOf(Top(store)) + 1 \in Nat /\ Top(store) \in Manifest
  BY TopType DEF ForgetBegin
<1>3. body \in Body
  BY <1>2, ForgetNextType
<1>4. body.gen = GenOf(Top(store)) + 1 /\ GenOf(Top(store)) < MaxGen
  BY DEF ForgetNext, ForgetBegin
<1> HIDE DEF body
<1>5. Publishing(d, body, gone) \in Job /\ Fits(Publishing(d, body, gone))
  BY <1>3, <1>4, PublishingFits
<1>6. job' \in [Device -> Job] /\ \A e \in Device : Fits(job'[e])
  BY <1>1, <1>5, JobUpdate DEF body
<1>7. left' \in [Fault -> Nat]
  BY SpendType DEF ForgetBegin, Fault
<1> QED
  BY <1>6, <1>7 DEF ForgetBegin, TypeInv, TypeOK, files, state, ghosts

\* releaseForgotten, up to its publication.
LEMMA ReleaseBeginType ==
    ASSUME TypeInv, NEW d \in Device, ReleaseBegin(d)
    PROVE  TypeInv'
<1> DEFINE body == ReleaseNext(Top(store), GenOf(Top(store)) + 1, d)
<1>1. job' = [job EXCEPT ![d] = Publishing(d, body, {})]
  BY DEF ReleaseBegin
<1>2. GenOf(Top(store)) + 1 \in Nat /\ Top(store) \in Manifest
  BY TopType DEF ReleaseBegin
<1>3. body \in Body
  BY <1>2, ReleaseNextType
<1>4. body.gen = GenOf(Top(store)) + 1 /\ GenOf(Top(store)) < MaxGen
  BY DEF ReleaseNext, ReleaseBegin
<1> HIDE DEF body
<1>5. Publishing(d, body, {}) \in Job /\ Fits(Publishing(d, body, {}))
  BY <1>3, <1>4, PublishingFits
<1>6. job' \in [Device -> Job] /\ \A e \in Device : Fits(job'[e])
  BY <1>1, <1>5, JobUpdate
<1>7. left' \in [Fault -> Nat]
  BY SpendType DEF ReleaseBegin, Fault
<1> QED
  BY <1>6, <1>7 DEF ReleaseBegin, TypeInv, TypeOK, files, state, ghosts

\* No base is a base.
LEMMA DropBaseType ==
    ASSUME TypeInv, NEW d \in Device, DropBase(d)
    PROVE  /\ base' \in [Device -> MaybeManifest]
           /\ saved' \in [Device -> MaybeManifest]
  BY DEF DropBase, TypeInv, TypeOK, MaybeManifest

\* forgetBase and acceptRolledBack.
LEMMA BaseDroppedType ==
    ASSUME TypeInv, NEW d \in Device, ForgetBase(d) \/ AcceptRolledBack(d)
    PROVE  TypeInv'
<1>1. DropBase(d)
  BY DEF ForgetBase, AcceptRolledBack
<1>2. left' \in [Fault -> Nat]
  BY SpendType DEF ForgetBase, AcceptRolledBack, Fault, TypeInv, TypeOK
<1> QED
  BY <1>1, <1>2, DropBaseType
     DEF ForgetBase, AcceptRolledBack, TypeInv, TypeOK, files, ghosts

\* A job may end between any two of its steps.
LEMMA AbandonType ==
    ASSUME TypeInv, NEW d \in Device, Abandon(d)
    PROVE  TypeInv'
<1>1. job' \in [Device -> Job] /\ \A e \in Device : Fits(job'[e])
  BY IdleJobType, JobUpdate DEF Abandon
<1>2. left' \in [Fault -> Nat]
  BY SpendType DEF Abandon, Fault
<1> QED
  BY <1>1, <1>2 DEF Abandon, TypeInv, TypeOK, files, state, ghosts

\* A restart loads a base and starts with nothing to do.
LEMMA CrashType ==
    ASSUME TypeInv, NEW d \in Device, Crash(d)
    PROVE  TypeInv'
<1>1. job' \in [Device -> Job] /\ \A e \in Device : Fits(job'[e])
  BY IdleJobType, JobUpdate DEF Crash
<1>2. left' \in [Fault -> Nat]
  BY SpendType DEF Crash, Fault
<1>3. Loaded(saved[d], profile[d]) \in MaybeManifest
  BY LoadedType DEF TypeInv, TypeOK
<1>4. base' \in [Device -> MaybeManifest]
  BY <1>3 DEF Crash, TypeInv, TypeOK
<1>5. shown' \in [Device -> SUBSET Keys]
  BY DEF Crash, TypeInv, TypeOK
<1> QED
  BY <1>1, <1>2, <1>4, <1>5 DEF Crash, TypeInv, TypeOK, files, ghosts

\* The clock is read, never stored beside a job.
LEMMA TickType ==
    ASSUME TypeInv, Tick
    PROVE  TypeInv'
  BY DEF Tick, TypeInv, TypeOK, files, state, ghosts

\* A storage that lost its newest generation still holds manifests.
LEMMA StorageRollbackType ==
    ASSUME TypeInv, StorageRollback
    PROVE  TypeInv'
<1>1. left' \in [Fault -> Nat]
  BY SpendType DEF StorageRollback, Fault
<1> QED
  BY <1>1 DEF StorageRollback, TypeInv, TypeOK, files, state, ghosts

---------------------------------------------------------------------------
(* Type correctness.                                                       *)

\* The types hold at the start.
LEMMA TypeInvInit == Init => TypeInv
<1> SUFFICES ASSUME Init
             PROVE  TypeInv
  OBVIOUS
<1>1. /\ base \in [Device -> MaybeManifest]
      /\ saved \in [Device -> MaybeManifest]
      /\ left \in [Fault -> Nat]
  BY ParameterAssumption DEF Init, MaybeManifest
<1>2. job \in [Device -> Job] /\ \A d \in Device : Fits(job[d])
  BY IdleJobType DEF Init
<1> QED
  BY <1>1, <1>2 DEF Init, TypeInv, TypeOK, Side

\* Every step keeps the types.
LEMMA TypeInvNext == TypeInv /\ [Next]_vars => TypeInv'
<1> SUFFICES ASSUME TypeInv, [Next]_vars
             PROVE  TypeInv'
  OBVIOUS
<1>1. CASE UNCHANGED vars
  BY <1>1 DEF vars, TypeInv, TypeOK
<1>2. ASSUME NEW d \in Device, User(d)
      PROVE  TypeInv'
  BY <1>2, UserType
<1>3. ASSUME NEW d \in Device, Pull(d)
      PROVE  TypeInv'
  BY <1>3, PullBeginType, ApplyDownloadType, ApplyDeleteLocalType, ApplyConflictType,
     FinishPullType DEF Pull
<1>4. ASSUME NEW d \in Device, PushBegin(d) \/ PushSteps(d)
      PROVE  TypeInv'
  BY <1>4, PushBeginType, PushFilesType, PublishType, RelistType DEF PushSteps
<1>5. ASSUME NEW d \in Device, Engine(d)
      PROVE  TypeInv'
  BY <1>3, <1>4, <1>5, PreviewType, ConfirmBeginType, DismissType, ForgetBeginType,
     ReleaseBeginType, BaseDroppedType DEF Engine
<1>6. CASE Next
  BY <1>2, <1>5, <1>6, AbandonType, CrashType, TickType, StorageRollbackType DEF Next
<1> QED
  BY <1>1, <1>6

(***************************************************************************)
(* Every variable keeps its type, no budget is overdrawn, no download is   *)
(* ever without an entry to fetch and no generation exceeds the bound,     *)
(* whatever the users, the storage and the restarts do.                    *)
(***************************************************************************)
THEOREM TypeCorrect == Spec => []TypeOK
<1>1. TypeInv => TypeOK
  BY DEF TypeInv
<1> QED
  BY <1>1, TypeInvInit, TypeInvNext, PTL DEF Spec

\* What TypeCorrect rests on: the inductive invariant itself holds.
THEOREM TypeInvariant == Spec => []TypeInv
  BY TypeInvInit, TypeInvNext, PTL DEF Spec

---------------------------------------------------------------------------
(* Safety: what is published can be read again, and a device's base never  *)
(* goes back by itself.                                                    *)

(***************************************************************************)
(* PublishedParses is not inductive alone: a manifest is built long before *)
(* it is put, from the one its job read.  Both have to be readable too.    *)
(***************************************************************************)
JobReadable(j) ==
    /\ j.remote = NoManifest \/ Parses(j.remote)
    /\ j.phase = "ready" => Parses(j.next)

Readable ==
    /\ PublishedParses
    /\ \A d \in Device : JobReadable(job[d])

---------------------------------------------------------------------------

\* The winner of the highest generation is readable.
LEMMA TopReadable ==
    ASSUME TypeInv, Readable
    PROVE  Top(store) = NoManifest \/ Parses(Top(store))
  BY TopType DEF Readable, PublishedParses

\* A device with nothing to do has nothing unreadable to publish.
LEMMA IdleReadable == JobReadable(IdleJob)
  BY DEF JobReadable, IdleJob

(***************************************************************************)
(* A step that gives one device a readable job and leaves the storage      *)
(* alone keeps everything readable.                                        *)
(***************************************************************************)
LEMMA ReadableJob ==
    ASSUME TypeInv, Readable, NEW d \in Device, NEW j, JobReadable(j),
           job' = [job EXCEPT ![d] = j], UNCHANGED store
    PROVE  Readable'
<1>1. ASSUME NEW e \in Device
      PROVE  JobReadable(job'[e])
  <2>1. job'[e] = IF e = d THEN j ELSE job[e]
    BY DEF TypeInv, TypeOK
  <2>2. JobReadable(job[e])
    BY DEF Readable
  <2>3. CASE e = d
    BY <2>1, <2>3, Zenon
  <2>4. CASE e # d
    BY <2>1, <2>2, <2>4, Zenon
  <2> QED
    BY <2>3, <2>4
<1> QED
  BY <1>1 DEF Readable, PublishedParses

\* No step of a pull puts anything.
LEMMA ReadablePull ==
    ASSUME TypeInv, Readable, NEW d \in Device, Pull(d)
    PROVE  Readable'
<1>1. job \in [Device -> Job] /\ JobReadable(job[d])
  BY DEF Readable, TypeInv, TypeOK
<1>2. CASE PullBegin(d)
  <2>1. PICK U \in Unreadable(d) :
          job' = [job EXCEPT ![d] =
                    Planning(d, U, "pull", FALSE, OpsOf(PlanFor(d, U), PullKinds))]
    BY <1>2 DEF PullBegin
  <2>2. JobReadable(Planning(d, U, "pull", FALSE, OpsOf(PlanFor(d, U), PullKinds)))
    BY TopReadable DEF JobReadable, Planning
  <2> QED
    BY <1>2, <2>1, <2>2, ReadableJob DEF PullBegin
<1>3. CASE ApplyDownload(d) \/ ApplyDeleteLocal(d) \/ ApplyConflict(d)
  <2>1. PICK op \in job[d].todo :
          NextPullOp(d, op) /\ (job' = Done(d, op) \/ job' = DoneHeld(d, op))
    BY <1>3 DEF ApplyDownload, ApplyDeleteLocal, ApplyConflict
  <2> DEFINE done == [job[d] EXCEPT !.todo = @ \ {op}]
             doneHeld == [job[d] EXCEPT !.todo = @ \ {op}, !.held = @ \cup {op.path}]
  <2>2. JobReadable(done) /\ JobReadable(doneHeld)
    BY <1>1 DEF JobReadable, Job
  <2>3. job' = [job EXCEPT ![d] = done] \/ job' = [job EXCEPT ![d] = doneHeld]
    BY <1>1, <2>1 DEF Done, DoneHeld
  <2>4. UNCHANGED store
    BY <1>3 DEF ApplyDownload, ApplyDeleteLocal, ApplyConflict
  <2> HIDE DEF done, doneHeld
  <2> QED
    BY <2>2, <2>3, <2>4, ReadableJob
<1>4. CASE FinishPull(d)
  <2> DEFINE b == AdoptPulled(job[d].remote, job[d].planned, job[d].held, profile[d])
             j == [job[d] EXCEPT !.phase = "push", !.planned = b]
  <2>1. job' = [job EXCEPT ![d] = j] \/ job' = [job EXCEPT ![d] = IdleJob]
    BY <1>4 DEF FinishPull
  <2>2. JobReadable(j)
    BY <1>1 DEF JobReadable, Job
  <2>3. UNCHANGED store
    BY <1>4 DEF FinishPull
  <2> HIDE DEF b, j
  <2> QED
    BY <2>1, <2>2, <2>3, IdleReadable, ReadableJob
<1> QED
  BY <1>2, <1>3, <1>4 DEF Pull

\* A push publishes what BuildNext made of a readable manifest.
LEMMA ReadablePush ==
    ASSUME TypeInv, Readable, NEW d \in Device, PushBegin(d) \/ PushSteps(d)
    PROVE  Readable'
<1>1. job \in [Device -> Job] /\ job[d] \in Job /\ JobReadable(job[d])
  BY DEF Readable, TypeInv, TypeOK
<1>2. CASE PushBegin(d)
  <2>1. PICK U \in Unreadable(d) :
          job' = [job EXCEPT ![d] =
                    Planning(d, U, "push", FALSE, OpsOf(PlanFor(d, U), PushKinds))]
    BY <1>2 DEF PushBegin
  <2>2. JobReadable(Planning(d, U, "push", FALSE, OpsOf(PlanFor(d, U), PushKinds)))
    BY TopReadable DEF JobReadable, Planning
  <2> QED
    BY <1>2, <2>1, <2>2, ReadableJob DEF PushBegin
<1>3. CASE PushFiles(d)
  <2> DEFINE uploads(L) == {o.path : o \in OpsOf(job[d].todo, {"upload"})} \ L
             uploaded(L) == [p \in Path |-> IF p \in uploads(L)
                                            THEN FileAt(d, p) ELSE Absent]
             tombstoned == {o.path : o \in OpsOf(job[d].todo, {"deleteRemote"})}
             changed(L) == {p \in Path : uploaded(L)[p] # Absent} \cup tombstoned
             body(L) == BuildNext(job[d].remote, GenOf(job[d].remote) + 1, d,
                                  uploaded(L), tombstoned, Keep[d], now, Grace)
             next(L) == Stamped(body(L), job[d].remote)
             j(L) == [job[d] EXCEPT !.phase = "ready", !.todo = {},
                        !.next = next(L), !.changed = changed(L)]
  <2>1. PICK locked \in SUBSET {o.path : o \in OpsOf(job[d].todo, {"upload"})} :
          job' = [job EXCEPT ![d] =
                    IF changed(locked) = {} THEN IdleJob ELSE j(locked)]
    BY <1>3 DEF PushFiles
  <2> HIDE DEF uploads, uploaded, tombstoned, changed
  <2>2. Parses(body(locked))
    BY <1>1, BuildNextParses DEF JobReadable
  <2> HIDE DEF body
  <2>3. Parses(next(locked))
    BY <2>2, StampedParses
  <2> HIDE DEF next
  <2>4. JobReadable(j(locked))
    BY <1>1, <2>3 DEF JobReadable, Job
  <2>5. UNCHANGED store
    BY <1>3 DEF PushFiles
  <2> HIDE DEF j
  <2> QED
    BY <2>1, <2>4, <2>5, IdleReadable, ReadableJob
<1>4. CASE Publish(d)
  <2> DEFINE j == [job[d] EXCEPT !.phase = "published"]
  <2>1. Parses(job[d].next)
    BY <1>1, <1>4 DEF JobReadable, Publish
  <2>2. \A m \in store' : Parses(m)
    BY <1>4, <2>1 DEF Publish, Put, Readable, PublishedParses
  <2>3. JobReadable(j)
    BY <1>1 DEF JobReadable, Job
  <2>4. job' = [job EXCEPT ![d] = j] \/ job' = [job EXCEPT ![d] = IdleJob]
    BY <1>1, <1>4 DEF Publish
  <2> HIDE DEF j
  <2>5. ASSUME NEW e \in Device
        PROVE  JobReadable(job'[e])
    <3>1. job'[e] \in {j, IdleJob, job[e]}
      BY <1>1, <2>4
    <3>2. JobReadable(job[e])
      BY DEF Readable
    <3> QED
      BY <2>3, <3>1, <3>2, IdleReadable
  <2> QED
    BY <2>2, <2>5 DEF Readable, PublishedParses
<1>5. CASE Relist(d)
  BY <1>5, IdleReadable, ReadableJob DEF Relist
<1> QED
  BY <1>2, <1>3, <1>4, <1>5 DEF PushSteps

\* Forgotten and released paths are published readable too.
LEMMA ReadableEngine ==
    ASSUME TypeInv, Readable, NEW d \in Device, Engine(d)
    PROVE  Readable'
<1>1. CASE ConfirmBegin(d)
  <2> DEFINE phase == IF store = {} THEN "push" ELSE "pull"
             todo(U) == IF store = {} THEN OpsOf(PlanFor(d, U), PushKinds)
                        ELSE PlanFor(d, U)
             j(U) == Planning(d, U, phase, TRUE, todo(U))
  <2>1. PICK U \in Unreadable(d) : job' = [job EXCEPT ![d] = j(U)]
    BY <1>1 DEF ConfirmBegin
  <2> HIDE DEF todo
  <2>2. JobReadable(j(U))
    BY TopReadable DEF JobReadable, Planning
  <2>3. UNCHANGED store
    BY <1>1 DEF ConfirmBegin
  <2> HIDE DEF j
  <2> QED
    BY <2>1, <2>2, <2>3, ReadableJob
<1>2. CASE ForgetBegin(d) \/ ReleaseBegin(d)
  <2>1. store # {} /\ Parses(Top(store))
    BY <1>2, TopType DEF ForgetBegin, ReleaseBegin, Readable, PublishedParses
  <2>2. PICK body, changed :
          /\ job' = [job EXCEPT ![d] = Publishing(d, body, changed)]
          /\ Parses(body)
    BY <1>2, <2>1, ForgetNextParses, ReleaseNextParses DEF ForgetBegin, ReleaseBegin
  <2>3. Parses(Stamped(body, Top(store)))
    BY <2>2, StampedParses
  <2>4. JobReadable(Publishing(d, body, changed))
    BY <2>1, <2>3 DEF JobReadable, Publishing
  <2> QED
    BY <1>2, <2>2, <2>4, ReadableJob DEF ForgetBegin, ReleaseBegin
<1>3. CASE Preview(d) \/ Dismiss(d) \/ ForgetBase(d) \/ AcceptRolledBack(d)
  BY <1>3 DEF Preview, Dismiss, ForgetBase, AcceptRolledBack, Readable, PublishedParses
<1> QED
  BY <1>1, <1>2, <1>3, ReadablePull, ReadablePush DEF Engine

\* Every step keeps everything readable.
LEMMA ReadableNext == TypeInv /\ Readable /\ [Next]_vars => Readable'
<1> SUFFICES ASSUME TypeInv, Readable, [Next]_vars
             PROVE  Readable'
  OBVIOUS
<1>1. CASE UNCHANGED vars
  BY <1>1 DEF vars, Readable, PublishedParses
<1>2. ASSUME NEW d \in Device, User(d)
      PROVE  Readable'
  BY <1>2 DEF User, UserEdit, UserDelete, UserRestore, ChangeProfile, Readable,
     PublishedParses
<1>3. ASSUME NEW d \in Device, Abandon(d) \/ Crash(d)
      PROVE  Readable'
  BY <1>3, IdleReadable, ReadableJob DEF Abandon, Crash
<1>4. CASE Tick
  BY <1>4 DEF Tick, Readable, PublishedParses
<1>5. CASE StorageRollback
  BY <1>5 DEF StorageRollback, Readable, PublishedParses
<1> QED
  BY <1>1, <1>2, <1>3, <1>4, <1>5, ReadableEngine DEF Next

\* Everything is readable at the start.
LEMMA ReadableInit == Init => Readable
  BY IdleReadable DEF Init, Readable, PublishedParses

(***************************************************************************)
(* No publication of any device, push, forget or release, fork or not, is  *)
(* one that parseManifest would refuse.                                    *)
(***************************************************************************)
THEOREM PublishedAlwaysParses == Spec => []PublishedParses
<1>1. Readable => PublishedParses
  BY DEF Readable
<1>2. Spec => []TypeInv
  BY TypeInvariant
<1> QED
  BY <1>1, <1>2, ReadableInit, ReadableNext, PTL DEF Spec

---------------------------------------------------------------------------
(* A device's base never goes back.                                        *)

(***************************************************************************)
(* rolledBack is asked when a job begins, the base moves when it ends: in  *)
(* between the job remembers a manifest no older than the base, and what   *)
(* it publishes is the generation after that manifest.                     *)
(***************************************************************************)
JobAhead(b, j) ==
    /\ j.phase # "idle" => GenOf(b) <= GenOf(j.remote)
    /\ j.phase \in {"ready", "published"} => j.next.gen = GenOf(j.remote) + 1

Ahead == \A d \in Device : JobAhead(base[d], job[d])

(***************************************************************************)
(* Generations are numbers, and a manifest's is its own.                   *)
(***************************************************************************)
LEMMA GenOfType ==
    /\ GenOf(NoManifest) = 0
    /\ \A m \in MaybeManifest : GenOf(m) \in Nat
    /\ \A m \in Manifest : GenOf(m) = m.gen
<1>1. \A m \in Manifest : m.gen \in Nat
  BY DEF Manifest
<1> QED
  BY <1>1, NoManifestAssumption DEF GenOf, MaybeManifest

(***************************************************************************)
(* A job that is not in the middle of anything is ahead of every base, and *)
(* a job that has just read the storage is ahead of a base the storage has *)
(* not fallen behind.                                                      *)
(***************************************************************************)
LEMMA IdleAhead == \A b : JobAhead(b, IdleJob)
  BY DEF JobAhead, IdleJob

\* A top that is not rolled back is no older than the base.
LEMMA FreshAhead ==
    ASSUME TypeInv, NEW d \in Device, ~RolledBack(base[d], store)
    PROVE  GenOf(base[d]) <= GenOf(Top(store))
<1>1. base[d] \in MaybeManifest /\ Top(store) \in MaybeManifest
  BY TopType DEF TypeInv, TypeOK
<1>2. CASE base[d] = NoManifest
  BY <1>1, <1>2, GenOfType
<1>3. CASE base[d] # NoManifest
  <2>1. base[d] \in Manifest /\ ~(GenOf(Top(store)) < base[d].gen)
    BY <1>1, <1>3 DEF RolledBack, MaybeManifest
  <2> QED
    BY <1>1, <2>1, GenOfType
<1> QED
  BY <1>2, <1>3

(***************************************************************************)
(* A step that gives one device a base and a job that is ahead of it keeps *)
(* every job ahead of its device's base.                                   *)
(***************************************************************************)
LEMMA AheadUpdate ==
    ASSUME TypeInv, Ahead, NEW d \in Device, NEW b, NEW j, JobAhead(b, j),
           job' = [job EXCEPT ![d] = j], base' = [base EXCEPT ![d] = b]
    PROVE  Ahead'
<1>1. ASSUME NEW e \in Device
      PROVE  JobAhead(base'[e], job'[e])
  <2>1. /\ job'[e] = IF e = d THEN j ELSE job[e]
        /\ base'[e] = IF e = d THEN b ELSE base[e]
    BY DEF TypeInv, TypeOK
  <2>2. JobAhead(base[e], job[e])
    BY DEF Ahead
  <2>3. CASE e = d
    BY <2>1, <2>3, Zenon
  <2>4. CASE e # d
    BY <2>1, <2>2, <2>4, Zenon
  <2> QED
    BY <2>3, <2>4
<1> QED
  BY <1>1 DEF Ahead

(***************************************************************************)
(* The same for a step that leaves the bases alone.                        *)
(***************************************************************************)
LEMMA AheadJob ==
    ASSUME TypeInv, Ahead, NEW d \in Device, NEW j, JobAhead(base[d], j),
           job' = [job EXCEPT ![d] = j], UNCHANGED base
    PROVE  Ahead'
<1>1. base' = [base EXCEPT ![d] = base[d]]
  BY DEF TypeInv, TypeOK
<1> QED
  BY <1>1, AheadUpdate

(***************************************************************************)
(* The jobs that begin: all of them ask rolledBack.                        *)
(***************************************************************************)
LEMMA AheadBegin ==
    ASSUME TypeInv, Ahead, NEW d \in Device,
           \/ PullBegin(d) \/ PushBegin(d) \/ ConfirmBegin(d)
           \/ ForgetBegin(d) \/ ReleaseBegin(d)
    PROVE  Ahead'
<1>1. /\ ~RolledBack(base[d], store)
      /\ UNCHANGED base
  BY DEF PullBegin, PushBegin, ConfirmBegin, ForgetBegin, ReleaseBegin, state
<1>2. GenOf(base[d]) <= GenOf(Top(store))
  BY <1>1, FreshAhead
<1>3. ASSUME NEW body, NEW changed, body.gen = GenOf(Top(store)) + 1
      PROVE  JobAhead(base[d], Publishing(d, body, changed))
  BY <1>2, <1>3 DEF JobAhead, Publishing, Stamped
<1>4. CASE PullBegin(d)
  <2>1. PICK U \in Unreadable(d) :
          job' = [job EXCEPT ![d] =
                    Planning(d, U, "pull", FALSE, OpsOf(PlanFor(d, U), PullKinds))]
    BY <1>4 DEF PullBegin
  <2>2. JobAhead(base[d], Planning(d, U, "pull", FALSE, OpsOf(PlanFor(d, U), PullKinds)))
    BY <1>2 DEF JobAhead, Planning
  <2> QED
    BY <1>1, <2>1, <2>2, AheadJob
<1>5. CASE PushBegin(d)
  <2>1. PICK U \in Unreadable(d) :
          job' = [job EXCEPT ![d] =
                    Planning(d, U, "push", FALSE, OpsOf(PlanFor(d, U), PushKinds))]
    BY <1>5 DEF PushBegin
  <2>2. JobAhead(base[d], Planning(d, U, "push", FALSE, OpsOf(PlanFor(d, U), PushKinds)))
    BY <1>2 DEF JobAhead, Planning
  <2> QED
    BY <1>1, <2>1, <2>2, AheadJob
<1>6. CASE ConfirmBegin(d)
  <2> DEFINE phase == IF store = {} THEN "push" ELSE "pull"
             todo(U) == IF store = {} THEN OpsOf(PlanFor(d, U), PushKinds)
                        ELSE PlanFor(d, U)
             j(U) == Planning(d, U, phase, TRUE, todo(U))
  <2>1. PICK U \in Unreadable(d) : job' = [job EXCEPT ![d] = j(U)]
    BY <1>6 DEF ConfirmBegin
  <2> HIDE DEF todo
  <2>2. JobAhead(base[d], j(U))
    BY <1>2 DEF JobAhead, Planning
  <2> HIDE DEF j
  <2> QED
    BY <1>1, <2>1, <2>2, AheadJob
<1>7. CASE ForgetBegin(d)
  <2>1. PICK gone :
          job' = [job EXCEPT ![d] =
                    Publishing(d, ForgetNext(Top(store), GenOf(Top(store)) + 1, d, gone), gone)]
    BY <1>7 DEF ForgetBegin
  <2>2. ForgetNext(Top(store), GenOf(Top(store)) + 1, d, gone).gen = GenOf(Top(store)) + 1
    BY DEF ForgetNext
  <2> QED
    BY <1>1, <1>3, <2>1, <2>2, AheadJob
<1>8. CASE ReleaseBegin(d)
  <2>1. job' = [job EXCEPT ![d] =
                  Publishing(d, ReleaseNext(Top(store), GenOf(Top(store)) + 1, d), {})]
    BY <1>8 DEF ReleaseBegin
  <2>2. ReleaseNext(Top(store), GenOf(Top(store)) + 1, d).gen = GenOf(Top(store)) + 1
    BY DEF ReleaseNext
  <2> QED
    BY <1>1, <1>3, <2>1, <2>2, AheadJob
<1> QED
  BY <1>4, <1>5, <1>6, <1>7, <1>8

(***************************************************************************)
(* The ends of a pull and of a publication adopt a base at the generation  *)
(* the job read or published.                                              *)
(***************************************************************************)
LEMMA FinishPullAdopts ==
    ASSUME TypeInv, Ahead, NEW d \in Device, FinishPull(d)
    PROVE  /\ Ahead'
           /\ \E b \in Manifest : /\ base' = [base EXCEPT ![d] = b]
                                 /\ GenOf(base[d]) <= GenOf(b)
<1> DEFINE b == AdoptPulled(job[d].remote, job[d].planned, job[d].held, profile[d])
           j == [job[d] EXCEPT !.phase = "push", !.planned = b]
<1>1. /\ job[d].phase = "pull"
      /\ base' = [base EXCEPT ![d] = b]
      /\ job' = [job EXCEPT ![d] = j] \/ job' = [job EXCEPT ![d] = IdleJob]
  BY DEF FinishPull, Adopt
<1>2. /\ job[d] \in Job /\ job[d].remote \in Manifest
      /\ GenOf(base[d]) <= GenOf(job[d].remote)
  BY <1>1 DEF TypeInv, TypeOK, Fits, Ahead, JobAhead
<1>3. b \in Manifest
  BY <1>2, AdoptPulledType DEF Job, TypeInv, TypeOK
<1>4. b.gen = job[d].remote.gen
  BY <1>2 DEF AdoptPulled, Manifest
<1>5. j.phase = "push" /\ j.remote = job[d].remote
  BY <1>2 DEF Job
<1> HIDE DEF b, j
<1>6. GenOf(b) = GenOf(job[d].remote) /\ GenOf(b) \in Nat
  BY <1>2, <1>3, <1>4, GenOfType DEF MaybeManifest
<1>7. JobAhead(b, j)
  BY <1>5, <1>6 DEF JobAhead
<1>8. Ahead'
  BY <1>1, <1>7, IdleAhead, AheadUpdate
<1> QED
  BY <1>1, <1>2, <1>3, <1>6, <1>8

\* What a publication adopts, when it stands.
LEMMA RelistAdopts ==
    ASSUME TypeInv, Ahead, NEW d \in Device, Relist(d)
    PROVE  /\ Ahead'
           /\ \/ UNCHANGED base
              \/ \E b \in Manifest : /\ base' = [base EXCEPT ![d] = b]
                                    /\ GenOf(base[d]) <= GenOf(b)
<1> DEFINE b == AdoptPublished(job[d].next, job[d].planned, job[d].changed, profile[d])
<1>1. /\ job[d].phase = "published"
      /\ base' = [base EXCEPT ![d] = b] \/ UNCHANGED base
      /\ job' = [job EXCEPT ![d] = IdleJob]
  BY DEF Relist, Adopt, state
<1>2. /\ job[d] \in Job /\ job[d].next \in Manifest
      /\ base[d] \in MaybeManifest /\ job[d].remote \in MaybeManifest
      /\ GenOf(base[d]) <= GenOf(job[d].remote)
      /\ job[d].next.gen = GenOf(job[d].remote) + 1
  BY <1>1 DEF TypeInv, TypeOK, Fits, Ahead, JobAhead, Job
<1>3. b \in Manifest
  BY <1>2, AdoptPublishedType DEF Job, TypeInv, TypeOK
<1>4. b.gen = job[d].next.gen
  BY <1>2 DEF AdoptPublished, Manifest
<1> HIDE DEF b
<1>5. GenOf(b) = GenOf(job[d].remote) + 1
  BY <1>2, <1>3, <1>4, GenOfType
<1>6. GenOf(base[d]) <= GenOf(b)
  BY <1>2, <1>5, GenOfType
<1>7. Ahead'
  BY <1>1, IdleAhead, AheadUpdate, AheadJob
<1> QED
  BY <1>1, <1>3, <1>6, <1>7

(***************************************************************************)
(* The steps in between leave the base and what the job read alone; the    *)
(* uploads end in a manifest of the generation after it.                   *)
(***************************************************************************)
LEMMA AheadApply ==
    ASSUME TypeInv, Ahead, NEW d \in Device,
           ApplyDownload(d) \/ ApplyDeleteLocal(d) \/ ApplyConflict(d)
    PROVE  Ahead'
<1>1. PICK op \in job[d].todo :
        NextPullOp(d, op) /\ (job' = Done(d, op) \/ job' = DoneHeld(d, op))
  BY DEF ApplyDownload, ApplyDeleteLocal, ApplyConflict
<1>2. job \in [Device -> Job] /\ job[d] \in Job /\ JobAhead(base[d], job[d])
  BY DEF Ahead, TypeInv, TypeOK
<1> DEFINE done == [job[d] EXCEPT !.todo = @ \ {op}]
           doneHeld == [job[d] EXCEPT !.todo = @ \ {op}, !.held = @ \cup {op.path}]
<1>3. JobAhead(base[d], done) /\ JobAhead(base[d], doneHeld)
  BY <1>2 DEF JobAhead, Job
<1>4. job' = [job EXCEPT ![d] = done] \/ job' = [job EXCEPT ![d] = doneHeld]
  BY <1>1, <1>2 DEF Done, DoneHeld
<1>5. UNCHANGED base
  BY DEF ApplyDownload, ApplyDeleteLocal, ApplyConflict, state
<1> HIDE DEF done, doneHeld
<1> QED
  BY <1>3, <1>4, <1>5, AheadJob

\* The uploads and the put.
LEMMA AheadPublishes ==
    ASSUME TypeInv, Ahead, NEW d \in Device, PushFiles(d) \/ Publish(d)
    PROVE  Ahead'
<1>1. job \in [Device -> Job] /\ job[d] \in Job /\ JobAhead(base[d], job[d])
  BY DEF Ahead, TypeInv, TypeOK
<1>2. UNCHANGED base
  BY DEF PushFiles, Publish, state
<1>3. CASE PushFiles(d)
  <2> DEFINE uploads(L) == {o.path : o \in OpsOf(job[d].todo, {"upload"})} \ L
             uploaded(L) == [p \in Path |-> IF p \in uploads(L)
                                            THEN FileAt(d, p) ELSE Absent]
             tombstoned == {o.path : o \in OpsOf(job[d].todo, {"deleteRemote"})}
             changed(L) == {p \in Path : uploaded(L)[p] # Absent} \cup tombstoned
             body(L) == BuildNext(job[d].remote, GenOf(job[d].remote) + 1, d,
                                  uploaded(L), tombstoned, Keep[d], now, Grace)
             next(L) == Stamped(body(L), job[d].remote)
             j(L) == [job[d] EXCEPT !.phase = "ready", !.todo = {},
                        !.next = next(L), !.changed = changed(L)]
  <2>1. PICK locked \in SUBSET {o.path : o \in OpsOf(job[d].todo, {"upload"})} :
          job' = [job EXCEPT ![d] =
                    IF changed(locked) = {} THEN IdleJob ELSE j(locked)]
    BY <1>3 DEF PushFiles
  <2> HIDE DEF uploads, uploaded, tombstoned, changed
  <2>2. body(locked).gen = GenOf(job[d].remote) + 1
    BY DEF BuildNext
  <2> HIDE DEF body
  <2>3. next(locked).gen = GenOf(job[d].remote) + 1
    BY <2>2 DEF Stamped
  <2> HIDE DEF next
  <2>4. job[d].phase = "push"
    BY <1>3 DEF PushFiles
  <2>5. JobAhead(base[d], j(locked))
    BY <1>1, <2>3, <2>4 DEF JobAhead, Job
  <2> HIDE DEF j
  <2> QED
    BY <1>2, <2>1, <2>5, IdleAhead, AheadJob
<1>4. CASE Publish(d)
  <2> DEFINE j == [job[d] EXCEPT !.phase = "published"]
  <2>1. JobAhead(base[d], j)
    BY <1>1, <1>4 DEF JobAhead, Job, Publish
  <2>2. job' = [job EXCEPT ![d] = j] \/ job' = [job EXCEPT ![d] = IdleJob]
    BY <1>1, <1>4 DEF Publish
  <2> HIDE DEF j
  <2> QED
    BY <1>2, <2>1, <2>2, IdleAhead, AheadJob
<1> QED
  BY <1>3, <1>4

(***************************************************************************)
(* A base that is dropped or loaded comes with an idle job.                *)
(***************************************************************************)
LEMMA AheadDrop ==
    ASSUME TypeInv, Ahead, NEW d \in Device, DropBase(d), UNCHANGED job
    PROVE  Ahead'
<1>1. ASSUME NEW e \in Device
      PROVE  JobAhead(base'[e], job'[e])
  <2>1. base'[e] = IF e = d THEN NoManifest ELSE base[e]
    BY DEF DropBase, TypeInv, TypeOK
  <2>2. JobAhead(base[e], job[e]) /\ base[e] \in MaybeManifest
        /\ job[e].remote \in MaybeManifest
    BY DEF Ahead, TypeInv, TypeOK, Job
  <2> QED
    BY <2>1, <2>2, GenOfType DEF JobAhead
<1> QED
  BY <1>1 DEF Ahead

\* Every step keeps every job ahead of its base.
LEMMA AheadNext == TypeInv /\ Ahead /\ [Next]_vars => Ahead'
<1> SUFFICES ASSUME TypeInv, Ahead, [Next]_vars
             PROVE  Ahead'
  OBVIOUS
<1>1. CASE UNCHANGED vars
  BY <1>1 DEF vars, state, Ahead
<1>2. ASSUME NEW d \in Device, User(d)
      PROVE  Ahead'
  BY <1>2 DEF User, UserEdit, UserDelete, UserRestore, ChangeProfile, state, Ahead
<1>3. ASSUME NEW d \in Device, Pull(d)
      PROVE  Ahead'
  BY <1>3, AheadBegin, AheadApply, FinishPullAdopts DEF Pull
<1>4. ASSUME NEW d \in Device, PushBegin(d) \/ PushSteps(d)
      PROVE  Ahead'
  BY <1>4, AheadBegin, AheadPublishes, RelistAdopts DEF PushSteps
<1>5. ASSUME NEW d \in Device, Preview(d) \/ Dismiss(d)
      PROVE  Ahead'
  BY <1>5 DEF Preview, Dismiss, state, Ahead
<1>6. ASSUME NEW d \in Device, ForgetBase(d) \/ AcceptRolledBack(d)
      PROVE  Ahead'
  BY <1>6, AheadDrop DEF ForgetBase, AcceptRolledBack
<1>7. ASSUME NEW d \in Device, Engine(d)
      PROVE  Ahead'
  BY <1>3, <1>4, <1>5, <1>6, <1>7, AheadBegin DEF Engine
<1>8. ASSUME NEW d \in Device, Abandon(d)
      PROVE  Ahead'
  BY <1>8, IdleAhead, AheadJob DEF Abandon, state
<1>9. ASSUME NEW d \in Device, Crash(d)
      PROVE  Ahead'
  BY <1>9, IdleAhead, AheadUpdate DEF Crash
<1>10. CASE Tick \/ StorageRollback
  BY <1>10 DEF Tick, StorageRollback, state, Ahead
<1> QED
  BY <1>1, <1>2, <1>7, <1>8, <1>9, <1>10 DEF Next

\* At the start there is no job.
LEMMA AheadInit == Init => Ahead
  BY IdleAhead DEF Init, Ahead

(***************************************************************************)
(* What one step may do to a device's base.                                *)
(***************************************************************************)
BaseStep(d) == GenOf(base'[d]) < GenOf(base[d])
                 => base'[d] \in {NoManifest, Loaded(saved[d], profile[d])}

\* A base that does not move does not go back.
LEMMA SameBase ==
    ASSUME TypeInv, UNCHANGED base, NEW e \in Device
    PROVE  BaseStep(e)
<1>1. GenOf(base[e]) \in Nat
  BY GenOfType DEF TypeInv, TypeOK
<1> QED
  BY <1>1 DEF BaseStep

\* Nor does one replaced by a manifest no older.
LEMMA LaterBase ==
    ASSUME TypeInv, NEW d \in Device, NEW b \in Manifest, NEW e \in Device,
           base' = [base EXCEPT ![d] = b], GenOf(base[d]) <= GenOf(b)
    PROVE  BaseStep(e)
<1>1. base'[e] = IF e = d THEN b ELSE base[e]
  BY DEF TypeInv, TypeOK
<1>2. GenOf(base[e]) \in Nat /\ GenOf(b) \in Nat
  BY GenOfType DEF TypeInv, TypeOK, MaybeManifest
<1> QED
  BY <1>1, <1>2 DEF BaseStep

\* Dropped or loaded is the other way a base may change.
LEMMA ReplacedBase ==
    ASSUME TypeInv, NEW d \in Device, NEW e \in Device,
           NEW b \in {NoManifest, Loaded(saved[d], profile[d])},
           base' = [base EXCEPT ![d] = b]
    PROVE  BaseStep(e)
<1>1. base'[e] = IF e = d THEN b ELSE base[e]
  BY DEF TypeInv, TypeOK
<1>2. GenOf(base[e]) \in Nat
  BY GenOfType DEF TypeInv, TypeOK
<1> QED
  BY <1>1, <1>2 DEF BaseStep

\* Every step is one of the three.
LEMMA BaseStepNext ==
    ASSUME TypeInv, Ahead, [Next]_vars, NEW e \in Device
    PROVE  BaseStep(e)
<1>1. CASE UNCHANGED vars
  BY <1>1, SameBase DEF vars, state
<1>2. ASSUME NEW d \in Device, User(d)
      PROVE  BaseStep(e)
  BY <1>2, SameBase DEF User, UserEdit, UserDelete, UserRestore, ChangeProfile, state
<1>3. ASSUME NEW d \in Device, Pull(d)
      PROVE  BaseStep(e)
  BY <1>3, FinishPullAdopts, LaterBase, SameBase
     DEF Pull, PullBegin, ApplyDownload, ApplyDeleteLocal, ApplyConflict, state
<1>4. ASSUME NEW d \in Device, PushBegin(d) \/ PushSteps(d)
      PROVE  BaseStep(e)
  BY <1>4, RelistAdopts, LaterBase, SameBase
     DEF PushBegin, PushSteps, PushFiles, Publish, state
<1>5. ASSUME NEW d \in Device, ForgetBase(d) \/ AcceptRolledBack(d)
      PROVE  BaseStep(e)
  BY <1>5, ReplacedBase DEF ForgetBase, AcceptRolledBack, DropBase
<1>6. ASSUME NEW d \in Device, Engine(d)
      PROVE  BaseStep(e)
  <2>1. CASE \/ Preview(d) \/ ConfirmBegin(d) \/ Dismiss(d)
             \/ ForgetBegin(d) \/ ReleaseBegin(d)
    BY <2>1, SameBase DEF Preview, ConfirmBegin, Dismiss, ForgetBegin, ReleaseBegin, state
  <2> QED
    BY <1>3, <1>4, <1>5, <1>6, <2>1 DEF Engine
<1>7. ASSUME NEW d \in Device, Abandon(d) \/ Crash(d)
      PROVE  BaseStep(e)
  BY <1>7, SameBase, ReplacedBase DEF Abandon, Crash, state
<1>8. CASE Tick \/ StorageRollback
  BY <1>8, SameBase DEF Tick, StorageRollback, state
<1> QED
  BY <1>1, <1>2, <1>6, <1>7, <1>8 DEF Next

(***************************************************************************)
(* A device never forgets, by itself, a generation it has synced: whatever *)
(* forks, rollbacks of the storage, aborted jobs and forgotten paths do,   *)
(* its base goes back only when it is dropped or loaded from the state     *)
(* file (engine.ts: rolledBack, adoptBase, loadStateOnce).                 *)
(***************************************************************************)
THEOREM BaseOnlyAdvances == Spec => BaseNeverGoesBack
<1>1. TypeInv /\ Ahead /\ [Next]_vars
        => [\A d \in Device : GenOf(base'[d]) < GenOf(base[d])
              => base'[d] \in {NoManifest, Loaded(saved[d], profile[d])}]_vars
  <2> SUFFICES ASSUME TypeInv, Ahead, [Next]_vars, NEW d \in Device
               PROVE  BaseStep(d)
    BY DEF BaseStep
  <2> QED
    BY BaseStepNext
<1>2. Spec => []TypeInv
  BY TypeInvariant
<1> QED
  BY <1>1, <1>2, AheadInit, AheadNext, PTL DEF Spec, BaseNeverGoesBack
=============================================================================

----------------------------- MODULE SessionProofs -----------------------------
(***************************************************************************)
(* Invariants of Session, for every number of unlock calls and every       *)
(* budget of rare events.                                                  *)
(***************************************************************************)
EXTENDS Session, TLAPS

Dialog == [open : BOOLEAN, call : Attempt \cup {Nobody},
           why : {"no", "create", "unchecked"}, right : BOOLEAN]

Types ==
    /\ shown \in Location /\ saving \in Location \cup {"none"} /\ unloaded \in BOOLEAN
    /\ vault \in [Location -> {"absent", "empty", "published"}]
    /\ shared \in Profile \cup {"none"}
    /\ net \in {"ok", "metered", "offline", "dead"}
    /\ dialog \in Dialog
    /\ call \in [Attempt -> Call]
    /\ engine \in Engine \cup {Nobody} /\ unverified \in BOOLEAN
    /\ job \in [Slot -> Job \cup {Nobody}]
    /\ dirty \in BOOLEAN
    /\ sched \in AutoSync
    /\ config \in Config
    /\ left \in [Rare -> Nat]

(***************************************************************************)
(* What runs belongs to the open session unless a lock has ended it; with  *)
(* no session open no trigger is armed.                                    *)
(***************************************************************************)
Owned == \A s \in Slot : job[s] # Nobody /\ ~job[s].ended => Unlocked

Quiet == ~Unlocked => ~sched.on /\ ~sched.timer /\ ~sched.periodic

(***************************************************************************)
(* Why OneEngine holds when an engine is taken: with no session open, an   *)
(* unlock about to take one that no lock has passed still waits for        *)
(* everything that is stopping.                                            *)
(***************************************************************************)
WaitsForAll ==
    \A a \in Attempt :
        call[a].phase = "rewaiting" /\ ~call[a].locked /\ ~Unlocked
            => Pending \subseteq call[a].waits

(***************************************************************************)
(* Why the passphrase of what is published was looked at: whatever is past *)
(* its check rests on a proof, and a session that needs no check has one.  *)
(***************************************************************************)
Checked(j) == j.phase \in {"reading", "asking", "hung", "writing"} => j.proof # "none"

ProofsHeld ==
    /\ Unlocked /\ ~unverified => engine.proof # "none"
    /\ \A s \in Slot : job[s] # Nobody => Checked(job[s])

SessionInv == /\ Types /\ Owned /\ Quiet /\ OneEngine /\ WaitsForAll
              /\ UnloadedStays /\ ProofsHeld

---------------------------------------------------------------------------
(* The values the operations make.                                         *)

\* The values a call and a dialog begin with.
LEMMA ConstantTypes ==
    /\ NoCall \in Call /\ ClosedDialog \in Dialog
    /\ "home" \in Location /\ "away" \in Location
    /\ "sync" \in Slot /\ "chore" \in Slot
  BY DEF NoCall, Call, ClosedDialog, Dialog, Location, Slot, Proof

\* Whatever is done to the scheduler leaves a scheduler.
LEMMA SchedulerTypes ==
    ASSUME NEW s \in AutoSync
    PROVE  /\ Disposed(s) \in AutoSync /\ Reconfigured(s) \in AutoSync
           /\ \A pulls \in BOOLEAN : Retimed(s, pulls) \in AutoSync
           /\ NoteChange(s) \in AutoSync /\ NoteSyncStarted(s) \in AutoSync
           /\ RetryLater(s) \in AutoSync /\ Fired(s) \in AutoSync
           /\ PeriodicFired(s) \in AutoSync /\ Passed(s) \in AutoSync
           /\ SetBack(s) \in AutoSync
  BY DEF AutoSync, Since, Disposed, Reconfigured, Retimed, ArmPeriodic, NoteChange,
     NoteSyncStarted, RetryLater, Fired, PeriodicFired, Passed, SetBack

\* Whatever is done to the shared profile leaves one.
LEMMA ConfigTypes ==
    ASSUME NEW c \in Config
    PROVE  /\ Publish(c) \in Config /\ Reconcile(c) \in Config
           /\ SyncStarts(c) \in Config /\ SessionOver(c) \in Config
           /\ \A file \in Profile \cup {"none"} : PullPlanned(c, file) \in Config
           /\ \A on \in BOOLEAN, looked \in BOOLEAN : PullCompleted(c, on, looked) \in Config
           /\ [c EXCEPT !.enabled = ~@] \in Config
           /\ Publish([c EXCEPT !.profile = "mine"]) \in Config
  BY DEF Config, Profile, Publish, Reconcile, SyncStarts, SessionOver, PullPlanned,
     PullCompleted

\* A call, whatever was flagged or set in it.
LEMMA CallTypes ==
    ASSUME NEW c \in Call
    PROVE  /\ SawLock(c) \in Call /\ SawEdit(c) \in Call /\ SawBoth(c) \in Call
           /\ [c EXCEPT !.abandoned = TRUE] \in Call
           /\ \A w \in SUBSET Slot : [c EXCEPT !.phase = "waiting", !.waits = w] \in Call
           /\ \A l \in Location : [c EXCEPT !.phase = "opening", !.loc = l] \in Call
           /\ [c EXCEPT !.phase = "verifying"] \in Call
           /\ \A pr \in Proof, w \in SUBSET Slot :
                [c EXCEPT !.phase = "rewaiting", !.proof = pr, !.waits = w] \in Call
           /\ [c EXCEPT !.phase = "preflight"] \in Call
           /\ \A s \in Slot : [c EXCEPT !.waits = @ \ {s}] \in Call
  BY DEF Call, SawLock, SawEdit, SawBoth

\* The calls, with what a lock or an edit flags in them.
LEMMA FlaggedTypes ==
    ASSUME Types
    PROVE  /\ CallsMoved(SawLock) \in [Attempt -> Call]
           /\ CallsMoved(SawEdit) \in [Attempt -> Call]
           /\ CallsMoved(SawBoth) \in [Attempt -> Call]
  BY CallTypes DEF CallsMoved, Types

\* A job, whatever was set in it.
LEMMA JobTypes ==
    ASSUME NEW j \in Job
    PROVE  /\ [j EXCEPT !.ended = TRUE] \in Job
           /\ \A f \in {"config", "failed"} :
                [j EXCEPT !.phase = f, !.carries = FALSE] \in Job
           /\ [j EXCEPT !.phase = "reading", !.proof = "checked"] \in Job
           /\ \A b, e \in BOOLEAN :
                [j EXCEPT !.phase = "writing", !.looked = b, !.carries = e] \in Job
           /\ [j EXCEPT !.phase = "asking"] \in Job
           /\ [j EXCEPT !.phase = "reading", !.round = @ + 1] \in Job
           /\ [j EXCEPT !.phase = "hung"] \in Job
<1>1. j.round + 1 \in Nat
  BY DEF Job
<1>2. \A n \in Nat : [j EXCEPT !.phase = "reading", !.round = n] \in Job
  BY DEF Job
<1>3. \A b, e \in BOOLEAN :
        [j EXCEPT !.phase = "writing", !.looked = b, !.carries = e] \in Job
  BY DEF Job
<1>4. [j EXCEPT !.phase = "reading", !.proof = "checked"] \in Job
  BY DEF Job, Proof
<1>5. /\ [j EXCEPT !.ended = TRUE] \in Job
      /\ \A f \in {"config", "failed"} : [j EXCEPT !.phase = f, !.carries = FALSE] \in Job
  BY DEF Job
<1>6. [j EXCEPT !.phase = "asking"] \in Job /\ [j EXCEPT !.phase = "hung"] \in Job
  BY DEF Job
<1> QED
  BY <1>1, <1>2, <1>3, <1>4, <1>5, <1>6

\* A rare event that is spent leaves a budget.
LEMMA SpendTypes == ASSUME Types, NEW r \in Rare, Spend(r) PROVE left' \in [Rare -> Nat]
  BY DEF Types, Spend

\* What a lock leaves of a session.
LEMMA EndTypes ==
    ASSUME Types, EndSession
    PROVE  /\ engine' \in Engine \cup {Nobody} /\ unverified' \in BOOLEAN
           /\ job' \in [Slot -> Job \cup {Nobody}]
           /\ sched' \in AutoSync /\ config' \in Config
  BY JobTypes, SchedulerTypes, ConfigTypes DEF Types, EndSession

\* What starts is a job of the open session.
LEMMA StartedTypes ==
    ASSUME Types, Unlocked, NEW kind \in {"sync", "push", "other", "accept"}
    PROVE  Started(kind) \in Job
  BY DEF Types, Unlocked, Started, Job, Engine, Config

\* A sync that starts.
LEMMA SyncStartTypes ==
    ASSUME Types, Unlocked, NEW kind \in {"sync", "push", "other", "accept"},
           NEW s \in AutoSync, SyncStart(kind, s)
    PROVE  /\ job' \in [Slot -> Job \cup {Nobody}]
           /\ sched' \in AutoSync /\ config' \in Config
<1>1. Started(kind) \in Job
  BY StartedTypes
<1> QED
  BY <1>1, SchedulerTypes, ConfigTypes DEF SyncStart, Types

---------------------------------------------------------------------------
(* Every step keeps the types.                                             *)

\* The ways a session ends, and the settings that say where the storage is.
LEMMA EndingTypes ==
    ASSUME Types, Lock \/ Unload \/ EditField \/ ImportTicket \/ TicketLost
    PROVE  Types'
<1> USE DEF settings, world, KeepSession
<1>1. CASE Lock
  BY <1>1, EndTypes, FlaggedTypes, SpendTypes DEF Lock, Types, Rare
<1>2. CASE Unload
  <2>1. call' \in [Attempt -> Call]
    BY <1>2, FlaggedTypes, CallTypes DEF Unload
  <2> QED
    BY <1>2, <2>1, EndTypes, ConstantTypes, SpendTypes DEF Unload, Types, Rare
<1>3. CASE EditField
  BY <1>3, EndTypes, FlaggedTypes, SpendTypes DEF EditField, Types, Location, Rare
<1>4. CASE ImportTicket
  BY <1>4, EndTypes, FlaggedTypes, SpendTypes DEF ImportTicket, Types, Rare
<1>5. CASE TicketLost
  BY <1>5, SpendTypes DEF TicketLost, Types, Rare
<1> QED
  BY <1>1, <1>2, <1>3, <1>4, <1>5

\* The passphrase dialog.
LEMMA DialogTypes ==
    ASSUME Types, Prompt \/ Mistype \/ CloseDialog \/ \E a \in Attempt : Submit(a) \/ TicketSaved(a)
    PROVE  Types'
<1> USE DEF settings, world
<1>1. CASE Prompt
  BY <1>1 DEF Prompt, PromptedDialog, ClosedDialog, Dialog, Types
<1>2. CASE Mistype
  BY <1>2 DEF Mistype, Dialog, Types
<1>3. CASE CloseDialog
  BY <1>3, CallTypes, ConstantTypes DEF CloseDialog, Types
<1>4. ASSUME NEW a \in Attempt, Submit(a)
      PROVE  Types'
  <2>1. PICK right \in BOOLEAN :
          IF Unlocked
          THEN dialog' = ClosedDialog /\ UNCHANGED call
          ELSE /\ dialog' = [dialog EXCEPT !.call = a, !.why = "no", !.right = right]
               /\ call' = [call EXCEPT ![a] =
                             [NoCall EXCEPT !.phase = "settling", !.right = right,
                                            !.create = dialog.why = "create",
                                            !.confirmed = dialog.why = "unchecked"]]
    BY <1>4 DEF Submit
  <2>2. dialog' \in Dialog
    <3>1. [dialog EXCEPT !.call = a, !.why = "no", !.right = right] \in Dialog
      BY DEF Dialog, Types
    <3> QED
      BY <2>1, <3>1, ConstantTypes DEF Types
  <2>3. [NoCall EXCEPT !.phase = "settling", !.right = right,
                       !.create = dialog.why = "create",
                       !.confirmed = dialog.why = "unchecked"] \in Call
    BY ConstantTypes DEF NoCall, Call, Proof
  <2>4. call' \in [Attempt -> Call]
    BY <2>1, <2>3 DEF Types
  <2> QED
    BY <1>4, <2>2, <2>4, SpendTypes DEF Submit, Types, Rare
<1>5. ASSUME NEW a \in Attempt, TicketSaved(a)
      PROVE  Types'
  <2>1. [NoCall EXCEPT !.phase = "settling", !.confirmed = TRUE] \in Call
    BY ConstantTypes DEF NoCall, Call, Proof
  <2>2. call' \in [Attempt -> Call]
    BY <1>5, <2>1, FlaggedTypes DEF TicketSaved, Types
  <2> QED
    BY <1>5, <2>2, EndTypes DEF TicketSaved, Types, KeepSession
<1> QED
  BY <1>1, <1>2, <1>3, <1>4, <1>5

\* The steps of an unlock.
LEMMA UnlockTypes ==
    ASSUME Types, NEW a \in Attempt, UnlockNext(a)
    PROVE  Types'
<1> USE DEF settings, world
<1>1. ASSUME Returned(a) \/ \E why \in {"no", "create", "unchecked"} : Threw(a, why)
      PROVE  call' \in [Attempt -> Call] /\ dialog' \in Dialog
  <2>1. \A why \in {"no", "create", "unchecked"} :
          [dialog EXCEPT !.call = Nobody, !.why = why] \in Dialog
    BY DEF Dialog, Types
  <2> QED
    BY <1>1, <2>1, ConstantTypes DEF Returned, Threw, Types
<1>2. ASSUME NEW c \in Call, Advance(a, c)
      PROVE  call' \in [Attempt -> Call] /\ dialog' \in Dialog
  BY <1>2 DEF Advance, Types
<1>3. call[a] \in Call /\ call[a].loc \in Location /\ call[a].proof \in Proof
      /\ call[a].right \in BOOLEAN
  BY DEF Types, Call
<1>4. CASE Settled(a)
  <2>1. call' \in [Attempt -> Call] /\ dialog' \in Dialog
    BY <1>2, <1>3, <1>4, CallTypes DEF Settled, Pending
  <2> QED
    BY <1>4, <2>1 DEF Settled, Types
<1>5. CASE WaitedTooLong(a)
  BY <1>1, <1>5 DEF WaitedTooLong, Types
<1>6. CASE OpenStorage(a)
  <2>1. call' \in [Attempt -> Call] /\ dialog' \in Dialog
    BY <1>2, <1>3, <1>6, CallTypes DEF OpenStorage, Types
  <2> QED
    BY <1>6, <2>1 DEF OpenStorage, Types
<1>7. CASE OpenVault(a)
  <2>1. call' \in [Attempt -> Call] /\ dialog' \in Dialog
    BY <1>1, <1>2, <1>3, <1>7, CallTypes DEF OpenVault
  <2> QED
    BY <1>7, <2>1 DEF OpenVault, Types
<1>8. CASE Verify(a)
  <2>1. ASSUME NEW pr \in Proof
        PROVE  [call[a] EXCEPT !.phase = "rewaiting", !.proof = pr,
                               !.waits = IF Unlocked THEN {} ELSE Pending] \in Call
    BY <1>3, CallTypes DEF Pending
  <2>2. Typed(call[a]) \in Proof /\ "checked" \in Proof /\ "twice" \in Proof
    BY DEF Typed, Proof
  <2>3. call' \in [Attempt -> Call] /\ dialog' \in Dialog
    BY <1>1, <1>2, <1>8, <2>1, <2>2 DEF Verify
  <2> QED
    BY <1>8, <2>3 DEF Verify, Types
<1>9. CASE TakeEngine(a)
  <2>1. call' \in [Attempt -> Call] /\ dialog' \in Dialog
    BY <1>1, <1>2, <1>3, <1>9, CallTypes DEF TakeEngine
  <2>2. engine' \in Engine \cup {Nobody} /\ unverified' \in BOOLEAN
    <3>1. [loc |-> call[a].loc, proof |-> call[a].proof, right |-> call[a].right] \in Engine
      BY <1>3 DEF Engine
    <3>2. engine' \in {engine, [loc |-> call[a].loc, proof |-> call[a].proof,
                                right |-> call[a].right]}
      BY <1>9 DEF TakeEngine
    <3>3. unverified' \in BOOLEAN
      BY <1>9 DEF TakeEngine, Types
    <3> QED
      BY <3>1, <3>2, <3>3 DEF Types
  <2> QED
    BY <1>9, <2>1, <2>2 DEF TakeEngine, Types
<1>10. CASE Preflight(a)
  <2>1. call' \in [Attempt -> Call] /\ dialog' \in Dialog
    BY <1>1, <1>10 DEF Preflight
  <2>2. job' \in [Slot -> Job \cup {Nobody}] /\ sched' \in AutoSync /\ config' \in Config
    <3>1. CASE ~Unlocked
      BY <1>10, <3>1, SchedulerTypes DEF Preflight, Types
    <3>2. CASE Unlocked /\ Syncing
      BY <1>10, <3>2, SchedulerTypes DEF Preflight, Types
    <3>3. CASE Unlocked /\ ~Syncing
      <4>1. SyncStart("sync", Reconfigured(sched))
        BY <1>10, <3>3 DEF Preflight
      <4> QED
        BY <3>3, <4>1, SyncStartTypes, SchedulerTypes DEF Types
    <3> QED
      BY <3>1, <3>2, <3>3
  <2> QED
    BY <1>10, <2>1, <2>2 DEF Preflight, Types
<1> QED
  BY <1>4, <1>5, <1>6, <1>7, <1>8, <1>9, <1>10 DEF UnlockNext

\* What starts: syncs and commands of the open session.
LEMMA StartTypes ==
    ASSUME Types, Quiet, SyncNow \/ TimerFires \/ PeriodicFires \/ ChoreStart
    PROVE  Types'
<1> USE DEF settings, world
<1>1. CASE SyncNow
  <2>1. PICK kind \in {"sync", "push"} : SyncStart(kind, sched)
    BY <1>1 DEF SyncNow
  <2>2. Unlocked /\ sched \in AutoSync /\ kind \in {"sync", "push", "other", "accept"}
    BY <1>1 DEF SyncNow, Types
  <2>3. /\ job' \in [Slot -> Job \cup {Nobody}]
        /\ sched' \in AutoSync /\ config' \in Config
    BY <2>1, <2>2, SyncStartTypes
  <2> QED
    BY <1>1, <2>3 DEF SyncNow, Types
<1>2. ASSUME NEW s \in AutoSync, Unlocked, Trigger(s)
      PROVE  /\ job' \in [Slot -> Job \cup {Nobody}]
             /\ sched' \in AutoSync /\ config' \in Config
  BY <1>2, SyncStartTypes, SchedulerTypes DEF Trigger, Types
<1>3. CASE TimerFires
  <2>1. Unlocked /\ Fired(sched) \in AutoSync
    BY <1>3, SchedulerTypes DEF TimerFires, Quiet, Due, Types
  <2> QED
    BY <1>2, <1>3, <2>1 DEF TimerFires, Types
<1>4. CASE PeriodicFires
  <2>1. Unlocked /\ PeriodicFired(sched) \in AutoSync
    BY <1>4, SchedulerTypes DEF PeriodicFires, Quiet, Types
  <2> QED
    BY <1>2, <1>4, <2>1 DEF PeriodicFires, Types
<1>5. CASE ChoreStart
  <2>1. job' \in [Slot -> Job \cup {Nobody}]
    <3>1. PICK kind \in {"other", "accept"} : job' = [job EXCEPT !["chore"] = Started(kind)]
      BY <1>5 DEF ChoreStart
    <3>2. Started(kind) \in Job
      BY <1>5, StartedTypes DEF ChoreStart
    <3> QED
      BY <3>1, <3>2 DEF Types
  <2> QED
    BY <1>5, <2>1, SpendTypes DEF ChoreStart, Types, Rare
<1> QED
  BY <1>1, <1>3, <1>4, <1>5

\* The finally block of a sync that succeeded or failed (main.ts).
Concluded(s) == \E f \in {"config", "failed"} : FinishTo(s, f)

\* Both outcomes lead to it.
LEMMA Concludes == \A s \in Slot : Finish(s) \/ FinishTo(s, "failed") => Concluded(s)
BY DEF Finish, Concluded

\* What a job that goes on, ends or stops leaves.
LEMMA DoneTypes ==
    ASSUME Types, NEW s \in Slot, Done(s) \/ (job[s] # Nobody /\ Concluded(s))
    PROVE  job' \in [Slot -> Job \cup {Nobody}] /\ call' \in [Attempt -> Call]
<1>1. CASE Done(s)
  <2>1. \A a \in Attempt : [call[a] EXCEPT !.waits = @ \ {s}] \in Call
    BY CallTypes DEF Types
  <2> QED
    BY <1>1, <2>1 DEF Done, Types
<1>2. ASSUME job[s] # Nobody, UNCHANGED call, NEW f \in {"config", "failed"},
             job' = [job EXCEPT ![s].phase = f, ![s].carries = FALSE]
      PROVE  job' \in [Slot -> Job \cup {Nobody}] /\ call' \in [Attempt -> Call]
  <2>1. job[s] \in Job
    BY <1>2 DEF Types
  <2>2. [job[s] EXCEPT !.phase = f, !.carries = FALSE] \in Job
    BY <2>1, JobTypes
  <2> QED
    BY <1>2, <2>2 DEF Types
<1> QED
  BY <1>1, <1>2 DEF Concluded, FinishTo

\* The steps of a sync or a command.
LEMMA JobStepTypes ==
    ASSUME Types, Owned, NEW s \in Slot,
           JobNext(s) \/ ReadHangs(s) \/ Answer(s) \/ ConfigStep
    PROVE  Types'
<1> USE DEF settings, world
<1>1. job[s] # Nobody => job[s] \in Job
  BY DEF Types
<1>2. ASSUME NEW j \in Job, job' = [job EXCEPT ![s] = j]
      PROVE  job' \in [Slot -> Job \cup {Nobody}]
  BY <1>2 DEF Types
<1>3. CASE CheckAnswers(s)
  <2>1. Unlocked /\ job[s] \in Job
    BY <1>1, <1>3 DEF CheckAnswers, Alive, Owned
  <2>2. CASE vault[job[s].loc] = "published" /\ job[s].right
    <3>1. [engine EXCEPT !.proof = "checked"] \in Engine
      BY <2>1 DEF Types, Unlocked, Engine, Proof
    <3>2. [job[s] EXCEPT !.phase = "reading", !.proof = "checked"] \in Job
      BY <2>1, JobTypes
    <3>3. job' = [job EXCEPT ![s] = [job[s] EXCEPT !.phase = "reading", !.proof = "checked"]]
      BY <1>3, <2>2 DEF CheckAnswers, Types
    <3> QED
      BY <1>2, <1>3, <2>2, <3>1, <3>2, <3>3 DEF CheckAnswers, Types
  <2>3. CASE ~(vault[job[s].loc] = "published" /\ job[s].right)
    <3>1. PromptedDialog \in Dialog
      BY DEF PromptedDialog, ClosedDialog, Dialog, Types
    <3> QED
      BY <1>3, <2>3, <3>1, EndTypes, FlaggedTypes DEF CheckAnswers, Types
  <2> QED
    BY <2>2, <2>3
<1>4. CASE ReadAnswers(s)
  <2>1. job[s] \in Job
    BY <1>1, <1>4 DEF ReadAnswers, Alive
  <2>2. CASE /\ job' = [job EXCEPT ![s].phase = "writing", ![s].looked = config.enabled,
                                ![s].carries = s = "sync" /\ dirty]
             /\ dirty' = (dirty /\ s # "sync")
             /\ config' = IF job[s].kind = "sync" /\ job[s].loc = "home"
                       THEN PullPlanned(config, shared) ELSE config
             /\ UNCHANGED <<call, left>>
    <3> DEFINE e == (s = "sync" /\ dirty)
    <3>1. config.enabled \in BOOLEAN /\ e \in BOOLEAN
      BY DEF Types, Config
    <3>2. [job[s] EXCEPT !.phase = "writing", !.looked = config.enabled, !.carries = e] \in Job
      BY <2>1, <3>1, JobTypes
    <3>3. job' = [job EXCEPT ![s] = [job[s] EXCEPT !.phase = "writing",
                                     !.looked = config.enabled, !.carries = e]]
      BY <2>2 DEF Types
    <3>4. config' \in Config /\ dirty' \in BOOLEAN
      BY <2>2, ConfigTypes DEF Types
    <3> HIDE DEF e
    <3> QED
      BY <1>2, <1>4, <2>2, <3>2, <3>3, <3>4 DEF ReadAnswers, Types
  <2>3. CASE job' = [job EXCEPT ![s].phase = "asking"] /\ UNCHANGED <<call, left, dirty, config>>
    <3>1. job' = [job EXCEPT ![s] = [job[s] EXCEPT !.phase = "asking"]]
      BY <2>3 DEF Types
    <3> QED
      BY <1>2, <1>4, <2>1, <2>3, <3>1, JobTypes DEF ReadAnswers, Types
  <2>4. CASE /\ Spend("ask")
             /\ \/ Finish(s)
                \/ job' = [job EXCEPT ![s].phase = "asking"] /\ UNCHANGED call
             /\ UNCHANGED <<dirty, config>>
    <3>1. left' \in [Rare -> Nat]
      BY <2>4, SpendTypes DEF Rare
    <3>2. job' = [job EXCEPT ![s].phase = "asking"]
            => job' = [job EXCEPT ![s] = [job[s] EXCEPT !.phase = "asking"]]
      BY DEF Types
    <3>3. job' \in [Slot -> Job \cup {Nobody}] /\ call' \in [Attempt -> Call]
      BY <1>2, <1>4, <2>1, <2>4, <3>2, JobTypes, Concludes, DoneTypes DEF ReadAnswers, Alive, Types
    <3> QED
      BY <1>4, <2>4, <3>1, <3>3 DEF ReadAnswers, Types
  <2> QED
    BY <1>4, <2>2, <2>3, <2>4 DEF ReadAnswers
<1>5. CASE Answer(s)
  <2>1. job[s] \in Job
    BY <1>1, <1>5 DEF Answer, Alive
  <2>2. job' = [job EXCEPT ![s].phase = "reading", ![s].round = @ + 1]
          => job' = [job EXCEPT ![s] = [job[s] EXCEPT !.phase = "reading", !.round = @ + 1]]
    BY DEF Types
  <2>3. job' \in [Slot -> Job \cup {Nobody}] /\ call' \in [Attempt -> Call]
    BY <1>2, <1>5, <2>1, <2>2, JobTypes, Concludes, DoneTypes DEF Answer, Alive, Types
  <2> QED
    BY <1>5, <2>3 DEF Answer, Types
<1>6. CASE ReadHangs(s)
  <2>1. job[s] \in Job
    BY <1>1, <1>6 DEF ReadHangs, Alive
  <2>2. job' = [job EXCEPT ![s] = [job[s] EXCEPT !.phase = "hung"]]
    BY <1>6 DEF ReadHangs, Types
  <2> QED
    BY <1>2, <1>6, <2>1, <2>2, JobTypes, SpendTypes DEF ReadHangs, Types, Rare
<1>7. CASE JobFails(s)
  <2>1. left' \in [Rare -> Nat]
    BY <1>7, SpendTypes DEF JobFails, Rare, Types
  <2>2. dirty' \in BOOLEAN
    BY <1>1, <1>7 DEF JobFails, Types, Job
  <2> QED
    BY <1>7, <2>1, <2>2, Concludes, DoneTypes DEF JobFails, Types
<1>8. CASE WriteEnds(s)
  <2>1. job[s] # Nobody /\ job[s] \in Job /\ (Done(s) \/ Finish(s))
    BY <1>1, <1>8 DEF WriteEnds
  <2>2. job[s].loc \in Location /\ job[s].configOn \in BOOLEAN /\ job[s].looked \in BOOLEAN
    BY <2>1 DEF Job
  <2>3. config' \in Config
    BY <1>8, <2>2, ConfigTypes DEF WriteEnds, Types
  <2>4. vault' \in [Location -> {"absent", "empty", "published"}]
    BY <1>8, <2>2 DEF WriteEnds, Types
  <2>5. shared' \in Profile \cup {"none"}
    BY <1>8 DEF WriteEnds, Types, Config
  <2> QED
    BY <1>8, <2>1, <2>3, <2>4, <2>5, Concludes, DoneTypes DEF WriteEnds, Types
<1>9. CASE JobStops(s)
  BY <1>9, DoneTypes DEF JobStops, Types
<1>10. CASE ConfigStep
  BY <1>10, DoneTypes, ConstantTypes, ConfigTypes DEF ConfigStep, Types
<1> QED
  BY <1>3, <1>4, <1>5, <1>6, <1>7, <1>8, <1>9, <1>10 DEF JobNext

\* What the world around the session does.
LEMMA WorldTypes ==
    ASSUME Types,
           \/ EditNote \/ ConfigToggled \/ ConfigChosen \/ Retime \/ OtherDevice
           \/ NetworkGoes \/ NetworkReturns \/ IntervalPasses \/ ClockSetBack
    PROVE  Types'
<1> USE DEF settings, world, Unmoved
<1>1. CASE EditNote
  BY <1>1, SpendTypes, SchedulerTypes DEF EditNote, Types, Rare
<1>2. CASE ConfigToggled
  BY <1>2, SpendTypes, ConfigTypes DEF ConfigToggled, Types, Rare
<1>3. CASE ConfigChosen
  BY <1>3, SpendTypes, ConfigTypes DEF ConfigChosen, Types, Rare
<1>4. CASE Retime
  <2>1. sched' \in AutoSync
    BY <1>4 DEF Retime, Retimed, ArmPeriodic, AutoSync, Types
  <2> QED
    BY <1>4, <2>1, SpendTypes DEF Retime, Types, Rare
<1>5. CASE OtherDevice
  <2>1. left' \in [Rare -> Nat]
    BY <1>5, SpendTypes DEF OtherDevice, Rare
  <2>2. vault' \in [Location -> {"absent", "empty", "published"}]
    BY <1>5 DEF OtherDevice, Types
  <2>3. shared' \in Profile \cup {"none"}
    BY <1>5 DEF OtherDevice, Types, Profile
  <2> QED
    BY <1>5, <2>1, <2>2, <2>3 DEF OtherDevice, Types
<1>6. CASE NetworkGoes
  BY <1>6, SpendTypes DEF NetworkGoes, Types, Rare
<1>7. CASE NetworkReturns
  BY <1>7 DEF NetworkReturns, Types
<1>8. CASE IntervalPasses
  BY <1>8, SchedulerTypes DEF IntervalPasses, Types
<1>9. CASE ClockSetBack
  BY <1>9, SpendTypes, SchedulerTypes DEF ClockSetBack, Types, Rare
<1> QED
  BY <1>1, <1>2, <1>3, <1>4, <1>5, <1>6, <1>7, <1>8, <1>9

\* At the start of the plugin.
LEMMA InitTypes == Init => Types
<1> SUFFICES ASSUME Init PROVE Types
  OBVIOUS
<1>1. vault \in [Location -> {"absent", "empty", "published"}]
  BY DEF Init
<1>2. call \in [Attempt -> Call] /\ dialog \in Dialog /\ job \in [Slot -> Job \cup {Nobody}]
  BY ConstantTypes DEF Init
<1>3. sched \in AutoSync /\ config \in Config
  BY DEF Init, AutoSync, Since, Config, Profile
<1> QED
  BY <1>1, <1>2, <1>3, SessionAssumption, ConstantTypes DEF Init, Types

\* Every step keeps every variable in its type.
LEMMA NextTypes == Types /\ Owned /\ Quiet /\ [Next]_vars => Types'
<1> SUFFICES ASSUME Types, Owned, Quiet, [Next]_vars
             PROVE  Types'
  OBVIOUS
<1>1. CASE UNCHANGED vars
  BY <1>1 DEF vars, Types
<1>2. CASE Person
  BY <1>2, EndingTypes, DialogTypes, StartTypes, WorldTypes, JobStepTypes DEF Person
<1>3. ASSUME NEW a \in Attempt, TicketSaved(a) \/ UnlockNext(a)
      PROVE  Types'
  BY <1>3, DialogTypes, UnlockTypes
<1>4. ASSUME NEW s \in Slot, JobNext(s) \/ ReadHangs(s)
      PROVE  Types'
  BY <1>4, JobStepTypes
<1>5. CASE TicketLost \/ TimerFires \/ PeriodicFires
  BY <1>5, EndingTypes, StartTypes
<1>6. CASE ConfigStep
  BY <1>6, JobStepTypes, ConstantTypes
<1>7. CASE OtherDevice \/ NetworkGoes \/ NetworkReturns \/ IntervalPasses \/ ClockSetBack
  BY <1>7, WorldTypes
<1> QED
  BY <1>1, <1>2, <1>3, <1>4, <1>5, <1>6, <1>7 DEF Next

---------------------------------------------------------------------------
(* One session at a time.                                                  *)

(***************************************************************************)
(* Whatever ends a session, by any of its ways, leaves no engine, nothing  *)
(* that is not ended and no unlock that does not know of it.               *)
(***************************************************************************)
LEMMA SessionEnds ==
    ASSUME SessionInv, Types', EndSession,
           \A a \in Attempt : call'[a].phase = "rewaiting" => call'[a].locked
    PROVE  SessionInv'
<1>1. ~Unlocked' /\ Quiet' /\ UnloadedStays'
  BY DEF EndSession, Unlocked, Quiet, UnloadedStays, Disposed, SessionInv, Types, AutoSync
<1>2. ASSUME NEW s \in Slot, job'[s] # Nobody
      PROVE  job'[s].ended /\ Checked(job'[s])
  <2>1. job[s] # Nobody /\ job'[s] = [job[s] EXCEPT !.ended = TRUE]
    BY <1>2 DEF EndSession
  <2>2. job[s] \in Job /\ Checked(job[s])
    BY <2>1 DEF SessionInv, Types, ProofsHeld
  <2> QED
    BY <2>1, <2>2 DEF Job, Checked
<1> QED
  BY <1>1, <1>2 DEF SessionInv, Owned, OneEngine, WaitsForAll, ProofsHeld

\* A flagged call is one that a lock has passed.
LEMMA FlaggedLocked ==
    ASSUME Types, NEW a \in Attempt
    PROVE  /\ CallsMoved(SawLock)[a].phase = "rewaiting" => CallsMoved(SawLock)[a].locked
           /\ CallsMoved(SawBoth)[a].phase = "rewaiting" => CallsMoved(SawBoth)[a].locked
  BY DEF Types, Call, CallsMoved, SawLock, SawBoth

\* An unlock in its last wait, that no lock has passed.
LastWait(c) == c.phase = "rewaiting" /\ ~c.locked

(***************************************************************************)
(* A step that leaves the session and its jobs alone, and brings no unlock *)
(* to its last wait.                                                       *)
(***************************************************************************)
LEMMA SessionUntouched ==
    ASSUME SessionInv, Types', Quiet', UNCHANGED <<engine, unverified, job, unloaded>>,
           \A a \in Attempt : LastWait(call'[a])
                => LastWait(call[a]) /\ call'[a].waits = call[a].waits
    PROVE  SessionInv'
  BY DEF SessionInv, Owned, OneEngine, WaitsForAll, UnloadedStays, ProofsHeld, Unlocked,
     Pending, LastWait

\* What the person does to the dialog and to where the storage is.
LEMMA SessionPerson ==
    ASSUME SessionInv, Types',
           \/ Lock \/ Unload \/ EditField \/ ImportTicket \/ TicketLost
           \/ Prompt \/ Mistype \/ CloseDialog
           \/ \E a \in Attempt : Submit(a) \/ TicketSaved(a)
    PROVE  SessionInv'
<1> USE DEF KeepSession, settings, world
<1>1. ASSUME KeepSession, UNCHANGED unloaded,
             \A a \in Attempt : LastWait(call'[a])
                => LastWait(call[a]) /\ call'[a].waits = call[a].waits
      PROVE  SessionInv'
  <2>1. Quiet'
    BY <1>1 DEF Quiet, SessionInv, Unlocked
  <2> QED
    BY <1>1, <2>1, SessionUntouched
<1>2. \A a \in Attempt : call[a] \in Call
  BY DEF SessionInv, Types
<1>3. CASE Lock
  BY <1>3, SessionEnds, FlaggedLocked DEF Lock, SessionInv
<1>4. CASE Unload
  <2>1. ASSUME NEW a \in Attempt, call'[a].phase = "rewaiting"
        PROVE  call'[a].locked
    <3>1. CallsMoved(SawLock)[a] \in Call
      BY FlaggedTypes DEF SessionInv
    <3>2. call'[a] = CallsMoved(SawLock)[a]
            \/ call'[a] = [CallsMoved(SawLock)[a] EXCEPT !.abandoned = TRUE]
      BY <1>4 DEF Unload
    <3> QED
      BY <2>1, <3>1, <3>2, FlaggedLocked DEF Call, SessionInv
  <2> QED
    BY <1>4, <2>1, SessionEnds DEF Unload
<1>5. ASSUME NEW flagged \in [Attempt -> Call], call' = flagged, KeepSession,
             UNCHANGED unloaded, flagged = CallsMoved(SawEdit)
      PROVE  SessionInv'
  <2>1. \A a \in Attempt : LastWait(call'[a])
                => LastWait(call[a]) /\ call'[a].waits = call[a].waits
    BY <1>2, <1>5 DEF CallsMoved, SawEdit, LastWait, Call
  <2> QED
    BY <1>1, <1>5, <2>1
<1>6. CASE EditField
  BY <1>5, <1>6, SessionEnds, FlaggedLocked, FlaggedTypes DEF EditField, SessionInv
<1>7. CASE ImportTicket
  BY <1>5, <1>7, SessionEnds, FlaggedLocked, FlaggedTypes DEF ImportTicket, SessionInv
<1>8. CASE TicketLost
  BY <1>1, <1>8 DEF TicketLost
<1>9. CASE Prompt \/ Mistype
  BY <1>1, <1>9 DEF Prompt, Mistype
<1>10. CASE CloseDialog
  <2>1. \A a \in Attempt : LastWait(call'[a])
                => LastWait(call[a]) /\ call'[a].waits = call[a].waits
    BY <1>2, <1>10 DEF CloseDialog, LastWait, Call
  <2> QED
    BY <1>1, <1>10, <2>1 DEF CloseDialog
<1>11. ASSUME NEW a \in Attempt, Submit(a)
       PROVE  SessionInv'
  <2> DEFINE c(right) == [NoCall EXCEPT !.phase = "settling", !.right = right,
                                        !.create = dialog.why = "create",
                                        !.confirmed = dialog.why = "unchecked"]
  <2>1. PICK right \in BOOLEAN : call' = call \/ call' = [call EXCEPT ![a] = c(right)]
    BY <1>11 DEF Submit
  <2>3. c(right).phase = "settling"
    BY DEF NoCall
  <2> HIDE DEF c
  <2>2. \A b \in Attempt : LastWait(call'[b])
                => LastWait(call[b]) /\ call'[b].waits = call[b].waits
    BY <2>1, <2>3 DEF LastWait, SessionInv, Types
  <2> QED
    BY <1>1, <1>11, <2>2 DEF Submit
<1>12. ASSUME NEW a \in Attempt, TicketSaved(a)
       PROVE  SessionInv'
  <2> DEFINE c == [NoCall EXCEPT !.phase = "settling", !.confirmed = TRUE]
  <2>1. c.phase = "settling"
    BY DEF NoCall
  <2> HIDE DEF c
  <2>2. CASE Unlocked
    <3>1. call' = CallsMoved(SawLock) \/ call' = [CallsMoved(SawLock) EXCEPT ![a] = c]
      BY <1>12, <2>2 DEF TicketSaved, c
    <3>2. \A b \in Attempt : call'[b].phase = "rewaiting" => call'[b].locked
      BY <2>1, <3>1, FlaggedLocked, FlaggedTypes DEF SessionInv
    <3> QED
      BY <1>12, <2>2, <3>2, SessionEnds DEF TicketSaved
  <2>3. CASE ~Unlocked
    <3>1. call' = call \/ call' = [call EXCEPT ![a] = c]
      BY <1>12, <2>3 DEF TicketSaved, c
    <3>2. \A b \in Attempt : LastWait(call'[b])
                => LastWait(call[b]) /\ call'[b].waits = call[b].waits
      BY <2>1, <3>1 DEF LastWait, SessionInv, Types
    <3> QED
      BY <1>1, <1>12, <2>3, <3>2 DEF TicketSaved
  <2> QED
    BY <2>2, <2>3
<1> QED
  BY <1>3, <1>4, <1>6, <1>7, <1>8, <1>9, <1>10, <1>11, <1>12

(***************************************************************************)
(* A sync or a command starts, of the open session; it goes on; it ends.   *)
(***************************************************************************)
LEMMA SessionStarts ==
    ASSUME SessionInv, Types', Unlocked, NEW s \in Slot, NEW kind,
           job' = [job EXCEPT ![s] = Started(kind)], UNCHANGED <<engine, unverified, unloaded>>
    PROVE  SessionInv'
<1> DEFINE j == Started(kind)
<1>1. ~j.ended /\ j.proof = engine.proof /\ (j.phase # "check" => ~unverified)
  BY DEF Started
<1>2. Checked(j)
  BY <1>1 DEF Checked, SessionInv, ProofsHeld, Started
<1> HIDE DEF j
<1>3. \A t \in Slot : job'[t] = j \/ job'[t] = job[t]
  BY DEF SessionInv, Types, j
<1> QED
  BY <1>1, <1>2, <1>3 DEF SessionInv, Owned, Quiet, OneEngine, WaitsForAll, UnloadedStays,
     ProofsHeld, Unlocked

\* A job goes on, with its passphrase looked at.
LEMMA SessionGoesOn ==
    ASSUME SessionInv, Types', NEW s \in Slot, job[s] # Nobody, NEW j \in Job,
           j.ended = job[s].ended, Checked(j), job' = [job EXCEPT ![s] = j],
           UNCHANGED <<engine, unverified, unloaded, sched, call>>
    PROVE  SessionInv'
<1>1. \A t \in Slot : job'[t] = IF t = s THEN j ELSE job[t]
  BY DEF SessionInv, Types
<1>2. ASSUME NEW t \in Slot, job'[t] # Nobody
      PROVE  job[t] # Nobody /\ job'[t].ended = job[t].ended /\ Checked(job'[t])
  BY <1>1, <1>2 DEF SessionInv, ProofsHeld
<1> QED
  BY <1>2 DEF SessionInv, Owned, Quiet, OneEngine, WaitsForAll, UnloadedStays, ProofsHeld,
     Unlocked, Pending

\* A job is over: no unlock waits for it, and none was let through early.
LEMMA SessionDone ==
    ASSUME SessionInv, Types', NEW s \in Slot, Done(s),
           UNCHANGED <<engine, unverified, unloaded, sched>>
    PROVE  SessionInv'
<1>1. \A t \in Slot : job'[t] = IF t = s THEN Nobody ELSE job[t]
  BY DEF Done, SessionInv, Types
<1>2. ASSUME NEW a \in Attempt
      PROVE  call'[a] = [call[a] EXCEPT !.waits = @ \ {s}] /\ call[a] \in Call
  BY DEF Done, SessionInv, Types
<1>3. ASSUME NEW a \in Attempt, LastWait(call'[a]), ~Unlocked'
      PROVE  Pending' \subseteq call'[a].waits
  <2>1. LastWait(call[a]) /\ call'[a].waits = call[a].waits \ {s}
    BY <1>2, <1>3 DEF LastWait, Call
  <2>2. Pending \subseteq call[a].waits
    BY <1>3, <2>1 DEF SessionInv, WaitsForAll, LastWait, Unlocked
  <2> QED
    BY <1>1, <2>1, <2>2 DEF Pending
<1> QED
  BY <1>1, <1>3 DEF SessionInv, Owned, Quiet, OneEngine, WaitsForAll, UnloadedStays,
     ProofsHeld, Unlocked, LastWait

(***************************************************************************)
(* The steps of an unlock: it waits for what is pending when it has its    *)
(* keys, and takes them when nothing is any more.                          *)
(***************************************************************************)
LEMMA SessionUnlock ==
    ASSUME SessionInv, Types', NEW a \in Attempt, UnlockNext(a)
    PROVE  SessionInv'
<1> USE DEF settings, world
<1>1. call[a] \in Call /\ call \in [Attempt -> Call]
  BY DEF SessionInv, Types
<1>2. ASSUME Returned(a) \/ \E why : Threw(a, why), NEW b \in Attempt, LastWait(call'[b])
      PROVE  LastWait(call[b]) /\ call'[b].waits = call[b].waits
  <2>1. call' = [call EXCEPT ![a] = NoCall]
    BY <1>2 DEF Returned, Threw
  <2>2. NoCall.phase = "idle"
    BY DEF NoCall
  <2> QED
    BY <1>1, <1>2, <2>1, <2>2 DEF LastWait
<1>3. ASSUME NEW c, Advance(a, c), c.phase # "rewaiting", NEW b \in Attempt, LastWait(call'[b])
      PROVE  LastWait(call[b]) /\ call'[b].waits = call[b].waits
  BY <1>1, <1>3 DEF Advance, LastWait
<1>4. CASE Settled(a) \/ WaitedTooLong(a) \/ OpenStorage(a) \/ OpenVault(a)
  <2>1. (\E why : Threw(a, why)) \/ \E c : Advance(a, c) /\ c.phase # "rewaiting"
    <3>1. /\ \A w : [call[a] EXCEPT !.phase = "waiting", !.waits = w].phase # "rewaiting"
          /\ \A l : [call[a] EXCEPT !.phase = "opening", !.loc = l].phase # "rewaiting"
          /\ [call[a] EXCEPT !.phase = "verifying"].phase # "rewaiting"
      BY <1>1 DEF Call
    <3> QED
      BY <1>4, <3>1 DEF Settled, WaitedTooLong, OpenStorage, OpenVault
  <2>2. Quiet' /\ UNCHANGED <<engine, unverified, job, unloaded>>
    BY <1>4 DEF Settled, WaitedTooLong, OpenStorage, OpenVault, SessionInv, Quiet, Unlocked
  <2> QED
    BY <1>2, <1>3, <2>1, <2>2, SessionUntouched
<1>5. CASE Verify(a)
  <2> DEFINE waits == IF Unlocked THEN {} ELSE Pending
  <2>1. Quiet' /\ UNCHANGED <<engine, unverified, job, unloaded>>
    BY <1>5 DEF Verify, SessionInv, Quiet, Unlocked
  <2>2. CASE \E why : Threw(a, why)
    BY <1>2, <2>1, <2>2, SessionUntouched
  <2>3. ASSUME NEW pr,
               Advance(a, [call[a] EXCEPT !.phase = "rewaiting", !.proof = pr, !.waits = waits])
        PROVE  SessionInv'
    <3>1. ASSUME NEW b \in Attempt, LastWait(call'[b]), ~Unlocked
          PROVE  Pending \subseteq call'[b].waits
      <4>1. CASE b = a
        BY <1>1, <2>3, <3>1, <4>1 DEF Advance, Call
      <4>2. CASE b # a
        <5>1. call'[b] = call[b]
          BY <1>1, <2>3, <4>2 DEF Advance
        <5> QED
          BY <3>1, <5>1 DEF SessionInv, WaitsForAll, LastWait
      <4> QED
        BY <4>1, <4>2
    <3> QED
      BY <2>1, <3>1 DEF SessionInv, Owned, OneEngine, WaitsForAll, UnloadedStays,
         ProofsHeld, Unlocked, Pending, LastWait
  <2>4. \/ \E why : Threw(a, why)
        \/ \E pr : Advance(a, [call[a] EXCEPT !.phase = "rewaiting", !.proof = pr,
                                              !.waits = waits])
    BY <1>5 DEF Verify
  <2> QED
    BY <2>2, <2>3, <2>4
<1>6. CASE TakeEngine(a)
  <2>1. CASE (Returned(a) \/ \E why : Threw(a, why)) /\ UNCHANGED <<engine, unverified>>
    <3>1. Quiet' /\ UNCHANGED <<engine, unverified, job, unloaded>>
      BY <1>6, <2>1 DEF TakeEngine, SessionInv, Quiet, Unlocked
    <3> QED
      BY <1>2, <2>1, <3>1, SessionUntouched
  <2>2. CASE /\ ~Unlocked /\ Wanted(call[a])
             /\ engine' = [loc |-> call[a].loc, proof |-> call[a].proof,
                           right |-> call[a].right]
             /\ unverified' = (call[a].proof = "none")
    <3>1. LastWait(call[a]) /\ call[a].waits = {} /\ ~unloaded /\ UNCHANGED <<job, unloaded>>
      BY <1>6, <2>2 DEF TakeEngine, Wanted, LastWait
    <3>2. \A s \in Slot : job[s] = Nobody
      BY <2>2, <3>1 DEF SessionInv, WaitsForAll, LastWait, Pending
    <3>3. Unlocked' /\ engine'.proof = call[a].proof
      <4>1. engine' \in Engine
        BY <1>1, <2>2 DEF Engine, Call
      <4> QED
        BY <2>2, <4>1, SessionAssumption DEF Unlocked
    <3> QED
      BY <2>2, <3>1, <3>2, <3>3 DEF SessionInv, Owned, Quiet, OneEngine, WaitsForAll,
         UnloadedStays, ProofsHeld
  <2> QED
    BY <1>6, <2>1, <2>2 DEF TakeEngine
<1>7. CASE Preflight(a) /\ (~Unlocked \/ Syncing)
  <2>1. Quiet' /\ UNCHANGED <<engine, unverified, job, unloaded>>
    <3>1. UNCHANGED <<engine, unverified, job, unloaded>>
      BY <1>7 DEF Preflight
    <3>2. CASE Unlocked
      BY <3>1, <3>2 DEF Quiet, Unlocked
    <3>3. CASE ~Unlocked
      <4>1. sched' = Disposed(sched) /\ sched \in AutoSync
        BY <1>7, <3>3 DEF Preflight, SessionInv, Types
      <4> QED
        BY <3>1, <4>1 DEF Quiet, Disposed, AutoSync
    <3> QED
      BY <3>1, <3>2, <3>3
  <2> QED
    BY <1>2, <1>7, <2>1, SessionUntouched DEF Preflight
<1>8. CASE Preflight(a) /\ Unlocked /\ ~Syncing
  BY <1>8, SessionStarts, ConstantTypes DEF Preflight, SyncStart
<1> QED
  BY <1>4, <1>5, <1>6, <1>7, <1>8 DEF UnlockNext

\* The steps of syncs and commands, and what starts them.
LEMMA SessionJobs ==
    ASSUME SessionInv, Types',
           \/ SyncNow \/ TimerFires \/ PeriodicFires \/ ChoreStart \/ ConfigStep
           \/ \E s \in Slot : JobNext(s) \/ ReadHangs(s) \/ Answer(s)
    PROVE  SessionInv'
<1> USE DEF settings, world
<1>1. ASSUME Unlocked, NEW s, Trigger(s), UNCHANGED <<engine, unverified, unloaded, call>>
      PROVE  SessionInv'
  <2>1. CASE Syncing \/ Declined
    BY <1>1, <2>1, SessionUntouched DEF Trigger, Quiet, Unlocked
  <2>2. CASE ~(Syncing \/ Declined)
    BY <1>1, <2>2, SessionStarts, ConstantTypes DEF Trigger, SyncStart
  <2> QED
    BY <2>1, <2>2
<1>2. CASE SyncNow
  BY <1>2, SessionStarts, ConstantTypes DEF SyncNow, SyncStart
<1>3. CASE TimerFires
  <2>1. Unlocked
    BY <1>3 DEF TimerFires, Due, SessionInv, Quiet
  <2> QED
    BY <1>1, <1>3, <2>1 DEF TimerFires
<1>4. CASE PeriodicFires
  <2>1. Unlocked
    BY <1>4 DEF PeriodicFires, SessionInv, Quiet
  <2> QED
    BY <1>1, <1>4, <2>1 DEF PeriodicFires
<1>5. CASE ChoreStart
  BY <1>5, SessionStarts, ConstantTypes DEF ChoreStart
<1>6. CASE ConfigStep
  BY <1>6, SessionDone, ConstantTypes DEF ConfigStep
<1>7. ASSUME NEW s \in Slot, JobNext(s) \/ ReadHangs(s) \/ Answer(s)
      PROVE  SessionInv'
  <2>1. job[s] # Nobody => job[s] \in Job /\ Checked(job[s])
    BY DEF SessionInv, Types, ProofsHeld
  <2>2. ASSUME job[s] # Nobody, Concluded(s),
               UNCHANGED <<engine, unverified, unloaded, sched>>
        PROVE  SessionInv'
    <3>0. PICK f \in {"config", "failed"} : FinishTo(s, f)
      BY <2>2 DEF Concluded
    <3> DEFINE j == [job[s] EXCEPT !.phase = f, !.carries = FALSE]
    <3>1. j \in Job
      BY <2>1, <2>2, JobTypes
    <3>3. j.ended = job[s].ended /\ Checked(j)
      BY <2>1, <2>2 DEF Job, Checked
    <3>2. Done(s) \/ (job' = [job EXCEPT ![s] = j] /\ UNCHANGED call)
      BY <2>2, <3>0 DEF FinishTo, SessionInv, Types
    <3> HIDE DEF j
    <3> QED
      BY <2>2, <3>1, <3>2, <3>3, SessionDone, SessionGoesOn
  <2>3. CASE CheckAnswers(s)
    <3>1. Unlocked /\ job[s] # Nobody /\ ~job[s].ended
      BY <2>3 DEF CheckAnswers, Alive, SessionInv, Owned
    <3>2. CASE vault[job[s].loc] = "published" /\ job[s].right
      <4> DEFINE j == [job[s] EXCEPT !.phase = "reading", !.proof = "checked"]
      <4>1. j \in Job /\ ~j.ended /\ Checked(j)
        <5>1. j \in Job
          BY <2>1, <3>1, JobTypes
        <5> QED
          BY <2>1, <3>1, <5>1 DEF Job, Checked
      <4>2. /\ engine' = [engine EXCEPT !.proof = "checked"]
            /\ unverified' = FALSE /\ UNCHANGED <<unloaded, call, sched>>
        BY <2>3, <3>2 DEF CheckAnswers
      <4>3. job' = [job EXCEPT ![s] = j]
        BY <2>3, <3>2 DEF CheckAnswers, SessionInv, Types
      <4> HIDE DEF j
      <4>4. Unlocked' /\ engine'.proof = "checked"
        <5>1. engine' \in Engine /\ engine'.proof = "checked"
          BY <3>1, <4>2 DEF SessionInv, Types, Engine, Unlocked, Proof
        <5> QED
          BY <5>1, SessionAssumption DEF Unlocked
      <4>5. \A t \in Slot : job'[t] = IF t = s THEN j ELSE job[t]
        BY <4>3 DEF SessionInv, Types
      <4> QED
        BY <3>1, <4>1, <4>2, <4>4, <4>5 DEF SessionInv, Owned, Quiet, OneEngine, WaitsForAll,
           UnloadedStays, ProofsHeld
    <3>3. CASE ~(vault[job[s].loc] = "published" /\ job[s].right)
      BY <2>3, <3>3, SessionEnds, FlaggedLocked DEF CheckAnswers, SessionInv
    <3> QED
      BY <3>2, <3>3
  <2>4. ASSUME NEW j, job' = [job EXCEPT ![s] = j], job[s] # Nobody, j \in Job,
               j.ended = job[s].ended, j.proof = job[s].proof,
                job[s].phase \in {"reading", "asking"},
               UNCHANGED <<engine, unverified, unloaded, sched, call>>
        PROVE  SessionInv'
    <3>1. Checked(j)
      BY <2>1, <2>4 DEF Checked
    <3> QED
      BY <2>4, <3>1, SessionGoesOn
  <2>5. CASE ReadAnswers(s)
    <3>1. job[s] \in Job /\ job[s] # Nobody /\ job[s].phase = "reading"
          /\ UNCHANGED <<engine, unverified, unloaded, sched>>
      BY <2>1, <2>5 DEF ReadAnswers, Alive
    <3> DEFINE e == (s = "sync" /\ dirty)
               j == [job[s] EXCEPT !.phase = "writing", !.looked = config.enabled, !.carries = e]
               k == [job[s] EXCEPT !.phase = "asking"]
    <3>2. j \in Job /\ k \in Job
      <4>1. config.enabled \in BOOLEAN /\ e \in BOOLEAN
        BY DEF SessionInv, Types, Config
      <4> HIDE DEF e
      <4> QED
        BY <3>1, <4>1, JobTypes
    <3>3. /\ j.ended = job[s].ended /\ j.proof = job[s].proof
          /\ k.ended = job[s].ended /\ k.proof = job[s].proof
      BY <3>1 DEF Job
    <3>4. \/ job' = [job EXCEPT ![s] = j] /\ UNCHANGED call
          \/ job' = [job EXCEPT ![s] = k] /\ UNCHANGED call
          \/ Finish(s)
      BY <2>5 DEF ReadAnswers, SessionInv, Types
    <3> HIDE DEF j, k
    <3> QED
      BY <2>2, <2>4, <3>1, <3>2, <3>3, <3>4, Concludes
  <2>6. CASE Answer(s)
    <3> DEFINE j == [job[s] EXCEPT !.phase = "reading", !.round = @ + 1]
    <3>1. job[s] \in Job /\ job[s] # Nobody /\ job[s].phase = "asking"
          /\ UNCHANGED <<engine, unverified, unloaded, sched>>
      BY <2>1, <2>6 DEF Answer, Alive
    <3>2. j \in Job /\ j.ended = job[s].ended /\ j.proof = job[s].proof
      <4>1. j \in Job
        BY <3>1, JobTypes
      <4> QED
        BY <3>1, <4>1 DEF Job
    <3>3. (job' = [job EXCEPT ![s] = j] /\ UNCHANGED call) \/ Finish(s)
      BY <2>6 DEF Answer, SessionInv, Types
    <3> HIDE DEF j
    <3> QED
      BY <2>2, <2>4, <3>1, <3>2, <3>3, Concludes
  <2>7. CASE ReadHangs(s)
    <3> DEFINE j == [job[s] EXCEPT !.phase = "hung"]
    <3>1. job[s] \in Job /\ job[s] # Nobody /\ job[s].phase = "reading"
          /\ UNCHANGED <<engine, unverified, unloaded, sched, call>>
      BY <2>1, <2>7 DEF ReadHangs, Alive
    <3>2. j \in Job /\ j.ended = job[s].ended /\ j.proof = job[s].proof
      <4>1. j \in Job
        BY <3>1, JobTypes
      <4> QED
        BY <3>1, <4>1 DEF Job
    <3>3. job' = [job EXCEPT ![s] = j]
      BY <2>7 DEF ReadHangs, SessionInv, Types
    <3> HIDE DEF j
    <3> QED
      BY <2>4, <3>1, <3>2, <3>3
  <2>8. CASE JobFails(s)
    BY <2>2, <2>8, Concludes DEF JobFails
  <2>9. CASE WriteEnds(s)
    <3>1. job[s] # Nobody /\ (Done(s) \/ Finish(s))
          /\ UNCHANGED <<engine, unverified, unloaded, sched>>
      BY <2>9 DEF WriteEnds
    <3> QED
      BY <2>2, <3>1, Concludes, SessionDone
  <2>10. CASE JobStops(s)
    BY <2>10, SessionDone DEF JobStops
  <2> QED
    BY <1>7, <2>3, <2>5, <2>6, <2>7, <2>8, <2>9, <2>10 DEF JobNext
<1> QED
  BY <1>2, <1>3, <1>4, <1>5, <1>6, <1>7

\* What the world around the session does.
LEMMA SessionWorld ==
    ASSUME SessionInv, Types',
           \/ EditNote \/ ConfigToggled \/ ConfigChosen \/ Retime \/ OtherDevice
           \/ NetworkGoes \/ NetworkReturns \/ IntervalPasses \/ ClockSetBack
    PROVE  SessionInv'
<1>1. UNCHANGED <<engine, unverified, job, unloaded, call>>
  BY DEF EditNote, ConfigToggled, ConfigChosen, Retime, OtherDevice, NetworkGoes,
     NetworkReturns, IntervalPasses, ClockSetBack, Unmoved, settings
<1>2. Quiet'
  <2>1. CASE EditNote
    BY <1>1, <2>1 DEF EditNote, SessionInv, Quiet, Unlocked, NoteChange, Types, AutoSync
  <2>2. CASE Retime \/ ClockSetBack
    BY <1>1, <2>2 DEF Retime, ClockSetBack, SessionInv, Quiet, Unlocked
  <2>3. CASE IntervalPasses
    BY <1>1, <2>3 DEF IntervalPasses, SessionInv, Quiet, Unlocked, Passed, Types, AutoSync
  <2>4. CASE ConfigToggled \/ ConfigChosen \/ OtherDevice \/ NetworkGoes \/ NetworkReturns
    BY <1>1, <2>4 DEF ConfigToggled, ConfigChosen, OtherDevice, NetworkGoes,
       NetworkReturns, SessionInv, Quiet, Unlocked
  <2> QED
    BY <2>1, <2>2, <2>3, <2>4
<1> QED
  BY <1>1, <1>2, SessionUntouched

\* With no session and no job there is nothing to show.
LEMMA InitSession == Init => SessionInv
  BY InitTypes DEF Init, SessionInv, Owned, Quiet, OneEngine, WaitsForAll, UnloadedStays,
     ProofsHeld, Unlocked, NoCall

\* Every step of the system keeps the invariant.
LEMMA NextSession == SessionInv /\ [Next]_vars => SessionInv'
<1> SUFFICES ASSUME SessionInv, [Next]_vars
             PROVE  SessionInv'
  OBVIOUS
<1>1. Types'
  BY NextTypes DEF SessionInv
<1>2. CASE UNCHANGED vars
  <2>1. Quiet'
    BY <1>2 DEF vars, SessionInv, Quiet, Unlocked
  <2> QED
    BY <1>1, <1>2, <2>1, SessionUntouched DEF vars
<1>3. CASE Person
  BY <1>1, <1>3, SessionPerson, SessionJobs, SessionWorld DEF Person
<1>4. ASSUME NEW a \in Attempt, TicketSaved(a) \/ UnlockNext(a)
      PROVE  SessionInv'
  BY <1>1, <1>4, SessionPerson, SessionUnlock
<1>5. ASSUME NEW s \in Slot, JobNext(s) \/ ReadHangs(s)
      PROVE  SessionInv'
  BY <1>1, <1>5, SessionJobs
<1>6. CASE TicketLost \/ TimerFires \/ PeriodicFires \/ ConfigStep
  BY <1>1, <1>6, SessionPerson, SessionJobs
<1>7. CASE OtherDevice \/ NetworkGoes \/ NetworkReturns \/ IntervalPasses \/ ClockSetBack
  BY <1>1, <1>7, SessionWorld
<1> QED
  BY <1>2, <1>3, <1>4, <1>5, <1>6, <1>7 DEF Next

\* What the theorems below rest on: it holds whenever the system is started.
THEOREM SessionInvariant == Spec => []SessionInv
  BY InitSession, NextSession, PTL DEF Spec

(***************************************************************************)
(* While a session is open, the sync and the command in flight are its     *)
(* own, through every unlock, lock and job that has not stopped yet        *)
(* (previousSessionStopped, ADR-0066, ADR-0081).                           *)
(***************************************************************************)
THEOREM OneEngineAtATime == Spec => []OneEngine
  BY SessionInvariant, PTL DEF SessionInv

(***************************************************************************)
(* An unload is final: no unlock that was still deriving keys opens an     *)
(* engine on an unloaded plugin (ADR-0081 Q8).                             *)
(***************************************************************************)
THEOREM UnloadIsFinal == Spec => []UnloadedStays
  BY SessionInvariant, PTL DEF SessionInv

(***************************************************************************)
(* What a sync or a command writes is under a passphrase that a manifest   *)
(* proved or that was typed twice (passphraseChecked, ADR-0078).           *)
(***************************************************************************)
THEOREM PassphraseWasChecked == Spec => []NothingUncheckedPublished
<1>1. SessionInv => NothingUncheckedPublished
  BY DEF SessionInv, ProofsHeld, Checked, NothingUncheckedPublished
<1> QED
  BY <1>1, SessionInvariant, PTL

---------------------------------------------------------------------------
(* The engine and the settings say the same location.                      *)

(***************************************************************************)
(* An unlock under way whose location nobody has moved: no ticket is being *)
(* saved, and what it has opened is where the settings say.  A ticket      *)
(* whose save fails puts the location back under unlocks it has flagged    *)
(* all, and no unlock reads the settings while it is being saved.          *)
(***************************************************************************)
Underway == {"waiting", "opening", "verifying", "rewaiting"}

OnTrack(c) ==
    c.phase \in Underway /\ ~c.moved
        => saving = "none" /\ (c.phase # "waiting" => c.loc = shown)

ShownInv == /\ \A a \in Attempt : OnTrack(call[a])
            /\ Unlocked => saving = "none"
            /\ EngineOnShown

\* A step that leaves the settings alone, or finds no session open.
LEMMA ShownKept ==
    ASSUME ShownInv, UNCHANGED <<shown, saving>>,
           ~Unlocked' \/ (Unlocked /\ engine'.loc = engine.loc),
           \A a \in Attempt : OnTrack(call'[a])
    PROVE  ShownInv'
  BY DEF ShownInv, EngineOnShown, OnTrack

\* What a lock does to the unlocks under way does not bring them off the track.
LEMMA FlaggedOnTrack ==
    ASSUME Types, NEW a \in Attempt, OnTrack(call[a])
    PROVE  /\ OnTrack(CallsMoved(SawLock)[a])
           /\ CallsMoved(SawEdit)[a].phase \in Underway => CallsMoved(SawEdit)[a].moved
           /\ CallsMoved(SawBoth)[a].phase \in Underway => CallsMoved(SawBoth)[a].moved
  BY DEF Types, Call, CallsMoved, SawLock, SawEdit, SawBoth, OnTrack, Underway

\* What the person does.
LEMMA ShownPerson ==
    ASSUME SessionInv, ShownInv,
           \/ Lock \/ Unload \/ EditField \/ ImportTicket \/ TicketLost
           \/ Prompt \/ Mistype \/ CloseDialog
           \/ \E a \in Attempt : Submit(a) \/ TicketSaved(a)
    PROVE  ShownInv'
<1> USE DEF KeepSession, settings, world
<1>1. Types /\ \A a \in Attempt : call[a] \in Call /\ OnTrack(call[a])
  BY DEF SessionInv, Types, ShownInv
<1>2. EndSession => ~Unlocked'
  BY DEF EndSession, Unlocked
<1>3. CASE Lock
  BY <1>1, <1>2, <1>3, FlaggedOnTrack, ShownKept DEF Lock
<1>4. CASE Unload
  <2>1. ASSUME NEW a \in Attempt
        PROVE  OnTrack(call'[a])
    <3>1. CallsMoved(SawLock)[a] \in Call /\ OnTrack(CallsMoved(SawLock)[a])
      BY <1>1, FlaggedTypes, FlaggedOnTrack
    <3>2. call'[a] = CallsMoved(SawLock)[a]
            \/ call'[a] = [CallsMoved(SawLock)[a] EXCEPT !.abandoned = TRUE]
      BY <1>4 DEF Unload
    <3> QED
      BY <3>1, <3>2 DEF OnTrack, Call
  <2> QED
    BY <1>2, <1>4, <2>1, ShownKept DEF Unload
<1>5. CASE EditField \/ ImportTicket
  <2>1. \A a \in Attempt : call'[a].phase \in Underway => call'[a].moved
    BY <1>1, <1>5, FlaggedOnTrack DEF EditField, ImportTicket
  <2>2. ~Unlocked'
    BY <1>2, <1>5 DEF EditField, ImportTicket, Unlocked
  <2> QED
    BY <2>1, <2>2 DEF ShownInv, OnTrack, EngineOnShown
<1>6. CASE TicketLost
  <2>1. \A a \in Attempt : call[a].phase \in Underway => call[a].moved
    BY <1>1, <1>6 DEF TicketLost, OnTrack
  <2> QED
    BY <1>6, <2>1 DEF TicketLost, ShownInv, OnTrack, EngineOnShown, Unlocked
<1>7. CASE Prompt \/ Mistype
  BY <1>1, <1>7 DEF Prompt, Mistype, ShownInv, OnTrack, EngineOnShown, Unlocked
<1>8. CASE CloseDialog
  <2>1. \A a \in Attempt : OnTrack(call'[a])
    BY <1>1, <1>8 DEF CloseDialog, OnTrack, Call
  <2> QED
    BY <1>8, <2>1 DEF CloseDialog, ShownInv, OnTrack, EngineOnShown, Unlocked
<1>9. ASSUME NEW a \in Attempt, Submit(a)
      PROVE  ShownInv'
  <2> DEFINE c(right) == [NoCall EXCEPT !.phase = "settling", !.right = right,
                                        !.create = dialog.why = "create",
                                        !.confirmed = dialog.why = "unchecked"]
  <2>1. PICK right \in BOOLEAN : call' = call \/ call' = [call EXCEPT ![a] = c(right)]
    BY <1>9 DEF Submit
  <2>2. c(right).phase = "settling"
    BY DEF NoCall
  <2> HIDE DEF c
  <2>3. \A b \in Attempt : OnTrack(call'[b])
    BY <1>1, <2>1, <2>2 DEF OnTrack, Underway, Types
  <2> QED
    BY <1>9, <2>3 DEF Submit, ShownInv, OnTrack, EngineOnShown, Unlocked
<1>10. ASSUME NEW a \in Attempt, TicketSaved(a)
       PROVE  ShownInv'
  <2> DEFINE c == [NoCall EXCEPT !.phase = "settling", !.confirmed = TRUE]
             calls == IF Unlocked THEN CallsMoved(SawLock) ELSE call
  <2>1. call' = calls \/ call' = [calls EXCEPT ![a] = c]
    BY <1>10 DEF TicketSaved
  <2>2. c.phase = "settling"
    BY DEF NoCall
  <2>3. calls \in [Attempt -> Call] /\ \A b \in Attempt : OnTrack(calls[b])
    BY <1>1, FlaggedTypes, FlaggedOnTrack DEF Types
  <2> HIDE DEF c, calls
  <2>4. \A b \in Attempt : OnTrack(call'[b])
    BY <2>1, <2>2, <2>3 DEF OnTrack, Underway
  <2>5. ~Unlocked'
    BY <1>2, <1>10 DEF TicketSaved, Unlocked
  <2> QED
    BY <1>10, <2>4, <2>5 DEF TicketSaved, ShownInv, OnTrack, EngineOnShown
<1> QED
  BY <1>3, <1>4, <1>5, <1>6, <1>7, <1>8, <1>9, <1>10

\* The steps of an unlock: it opens what is shown, and its engine is that one.
LEMMA ShownUnlock ==
    ASSUME SessionInv, ShownInv, NEW a \in Attempt, UnlockNext(a)
    PROVE  ShownInv'
<1> USE DEF settings, world
<1>1. call \in [Attempt -> Call] /\ \A b \in Attempt : call[b] \in Call /\ OnTrack(call[b])
  BY DEF SessionInv, Types, ShownInv
<1>2. UNCHANGED <<shown, saving>>
  BY DEF UnlockNext, Settled, WaitedTooLong, OpenStorage, OpenVault, Verify, TakeEngine, Preflight
<1>3. ASSUME UNCHANGED engine, NEW c, OnTrack(c), call' = [call EXCEPT ![a] = c]
      PROVE  ShownInv'
  <2>1. \A b \in Attempt : OnTrack(call'[b])
    BY <1>1, <1>3
  <2> QED
    BY <1>2, <1>3, <2>1 DEF ShownInv, OnTrack, EngineOnShown, Unlocked
<1>4. OnTrack(NoCall)
  BY DEF OnTrack, NoCall, Underway
<1>5. ASSUME UNCHANGED engine, Returned(a) \/ \E why : Threw(a, why)
      PROVE  ShownInv'
  BY <1>3, <1>4, <1>5 DEF Returned, Threw
<1>6. CASE Settled(a)
  <2>1. OnTrack([call[a] EXCEPT !.phase = "waiting", !.waits = Pending])
    BY <1>1, <1>6 DEF Settled, OnTrack, Call
  <2> QED
    BY <1>3, <1>6, <2>1 DEF Settled, Advance
<1>7. CASE WaitedTooLong(a)
  BY <1>5, <1>7 DEF WaitedTooLong
<1>8. CASE OpenStorage(a)
  <2>1. OnTrack([call[a] EXCEPT !.phase = "opening", !.loc = shown])
    BY <1>1, <1>8 DEF OpenStorage, OnTrack, Call, Underway
  <2> QED
    BY <1>3, <1>8, <2>1 DEF OpenStorage, Advance
<1>9. CASE OpenVault(a)
  <2>1. OnTrack([call[a] EXCEPT !.phase = "verifying"]) \/ call[a].phase # "opening"
    BY <1>1 DEF OnTrack, Call, Underway
  <2> QED
    BY <1>3, <1>5, <1>9, <2>1 DEF OpenVault, Advance
<1>10. CASE Verify(a)
  <2> DEFINE w == IF Unlocked THEN {} ELSE Pending
             c(pr) == [call[a] EXCEPT !.phase = "rewaiting", !.proof = pr, !.waits = w]
  <2>1. UNCHANGED engine /\ ((\E why : Threw(a, why)) \/ \E pr : Advance(a, c(pr)))
    BY <1>10 DEF Verify
  <2>2. \A pr : OnTrack(c(pr))
    BY <1>1, <1>10 DEF Verify, OnTrack, Call, Underway
  <2> HIDE DEF c
  <2> QED
    BY <1>3, <1>5, <2>1, <2>2 DEF Advance
<1>11. CASE TakeEngine(a)
  <2>1. CASE (Returned(a) \/ \E why : Threw(a, why)) /\ UNCHANGED engine
    BY <1>5, <2>1
  <2>2. CASE /\ OnShown(call[a])
             /\ engine' = [loc |-> call[a].loc, proof |-> call[a].proof,
                           right |-> call[a].right]
             /\ Advance(a, [call[a] EXCEPT !.phase = "preflight"])
    <3>1. saving = "none" /\ engine'.loc = shown
      BY <1>1, <1>11, <2>2 DEF TakeEngine, OnShown, OnTrack, Underway
    <3>2. OnTrack([call[a] EXCEPT !.phase = "preflight"])
      BY <1>1 DEF OnTrack, Call, Underway
    <3>3. \A b \in Attempt : OnTrack(call'[b])
      BY <1>1, <2>2, <3>2 DEF Advance
    <3> QED
      BY <1>2, <3>1, <3>3 DEF ShownInv, OnTrack, EngineOnShown
  <2> QED
    BY <1>11, <2>1, <2>2 DEF TakeEngine
<1>12. CASE Preflight(a)
  BY <1>5, <1>12 DEF Preflight
<1> QED
  BY <1>6, <1>7, <1>8, <1>9, <1>10, <1>11, <1>12 DEF UnlockNext

\* Syncs, commands and the world leave the location alone.
LEMMA ShownJobs ==
    ASSUME SessionInv, ShownInv,
           \/ SyncNow \/ TimerFires \/ PeriodicFires \/ ChoreStart \/ ConfigStep
           \/ \E s \in Slot : JobNext(s) \/ ReadHangs(s) \/ Answer(s)
           \/ EditNote \/ ConfigToggled \/ ConfigChosen \/ Retime \/ OtherDevice
           \/ NetworkGoes \/ NetworkReturns \/ IntervalPasses \/ ClockSetBack
    PROVE  ShownInv'
<1> USE DEF settings, world, Unmoved
<1>1. Types /\ \A a \in Attempt : call[a] \in Call /\ OnTrack(call[a])
  BY DEF SessionInv, Types, ShownInv
<1>2. ASSUME UNCHANGED <<shown, saving, engine>>,
             \A a \in Attempt : call'[a] = call[a]
                \/ \E s \in Slot : call'[a] = [call[a] EXCEPT !.waits = @ \ {s}]
      PROVE  ShownInv'
  <2>1. \A a \in Attempt : OnTrack(call'[a])
    BY <1>1, <1>2 DEF OnTrack, Call
  <2> QED
    BY <1>2, <2>1 DEF ShownInv, OnTrack, EngineOnShown, Unlocked
<1>3. CASE \/ SyncNow \/ TimerFires \/ PeriodicFires \/ ChoreStart
           \/ EditNote \/ ConfigToggled \/ ConfigChosen \/ Retime \/ OtherDevice
           \/ NetworkGoes \/ NetworkReturns \/ IntervalPasses \/ ClockSetBack
  BY <1>2, <1>3 DEF SyncNow, TimerFires, PeriodicFires, ChoreStart, EditNote, ConfigToggled,
     ConfigChosen, Retime, OtherDevice, NetworkGoes, NetworkReturns, IntervalPasses, ClockSetBack
<1>4. CASE ConfigStep
  BY <1>2, <1>4, ConstantTypes DEF ConfigStep, Done
<1>5. ASSUME NEW s \in Slot, CheckAnswers(s)
      PROVE  ShownInv'
  <2>1. CASE vault[job[s].loc] = "published" /\ job[s].right
    <3>1. engine' = [engine EXCEPT !.proof = "checked"] /\ UNCHANGED <<shown, saving, call>>
      BY <1>5, <2>1 DEF CheckAnswers
    <3>2. Unlocked /\ engine \in Engine
      BY <1>5 DEF CheckAnswers, Alive, SessionInv, Owned, Types, Unlocked
    <3>3. engine'.loc = engine.loc
      BY <3>1, <3>2 DEF Engine
    <3> QED
      BY <3>1, <3>2, <3>3 DEF ShownInv, OnTrack, EngineOnShown
  <2>2. CASE ~(vault[job[s].loc] = "published" /\ job[s].right)
    <3>1. ~Unlocked' /\ UNCHANGED <<shown, saving>> /\ call' = CallsMoved(SawLock)
      BY <1>5, <2>2 DEF CheckAnswers, EndSession, Unlocked
    <3> QED
      BY <1>1, <3>1, FlaggedOnTrack, ShownKept
  <2> QED
    BY <2>1, <2>2
<1>6. ASSUME NEW s \in Slot,
             \/ ReadAnswers(s) \/ JobFails(s) \/ WriteEnds(s) \/ JobStops(s)
             \/ ReadHangs(s) \/ Answer(s)
      PROVE  ShownInv'
  <2>1. UNCHANGED call \/ Done(s)
    BY <1>6 DEF ReadAnswers, JobFails, WriteEnds, JobStops, ReadHangs, Answer, Finish, FinishTo
  <2>2. UNCHANGED <<shown, saving, engine>>
    BY <1>6 DEF ReadAnswers, JobFails, WriteEnds, JobStops, ReadHangs, Answer
  <2> QED
    BY <1>2, <2>1, <2>2 DEF Done
<1> QED
  BY <1>3, <1>4, <1>5, <1>6 DEF JobNext

\* No unlock is under way at the start.
LEMMA InitShown == Init => ShownInv
  BY DEF Init, ShownInv, OnTrack, EngineOnShown, NoCall, Underway, Unlocked

\* Every step of the system keeps engine and settings on one location.
LEMMA NextShown == SessionInv /\ ShownInv /\ [Next]_vars => ShownInv'
<1> SUFFICES ASSUME SessionInv, ShownInv, [Next]_vars
             PROVE  ShownInv'
  OBVIOUS
<1>1. CASE UNCHANGED vars
  BY <1>1 DEF vars, ShownInv, OnTrack, EngineOnShown, Unlocked
<1>2. CASE Person
  BY <1>2, ShownPerson, ShownJobs DEF Person
<1>3. ASSUME NEW a \in Attempt, TicketSaved(a) \/ UnlockNext(a)
      PROVE  ShownInv'
  BY <1>3, ShownPerson, ShownUnlock
<1>4. CASE TicketLost
  BY <1>4, ShownPerson
<1>5. CASE \/ TimerFires \/ PeriodicFires \/ ConfigStep \/ OtherDevice \/ NetworkGoes
           \/ NetworkReturns \/ IntervalPasses \/ ClockSetBack
           \/ \E s \in Slot : JobNext(s) \/ ReadHangs(s)
  BY <1>5, ShownJobs
<1> QED
  BY <1>1, <1>2, <1>3, <1>4, <1>5 DEF Next

(***************************************************************************)
(* The open engine works on the location the settings show: no edit, no    *)
(* ticket and no save that fails, at whatever point of however many        *)
(* unlocks, leaves an engine on a location nobody sees (storageEpoch and   *)
(* LocationChanged, ADR-0065, ADR-0082).                                   *)
(***************************************************************************)
THEOREM EngineIsOnShown == Spec => []EngineOnShown
<1>1. ShownInv => EngineOnShown
  BY DEF ShownInv
<1> QED
  BY <1>1, SessionInvariant, InitShown, NextShown, PTL DEF Spec

---------------------------------------------------------------------------
(* The shared profile is not made blindly.                                 *)

(***************************************************************************)
(* The hypothesis of NoProfileMadeBlindly: config sync, off at first, is   *)
(* toggled twice at most.  With a third toggle TLC finds the property      *)
(* violated: on, off while a pull scans, and on again when it ends.        *)
(***************************************************************************)
FewFlips == \A b \in Budgets : b["flip"] <= 2

(***************************************************************************)
(* A completed pull (`pulled`) that did not look for the vault's profile   *)
(* started with config sync on and was planned with it off: both toggles   *)
(* are used up, and nothing is published any more.  Why that holds when it *)
(* completes: the same, of the sync that will set it.                      *)
(***************************************************************************)
Off == ~config.enabled /\ left["flip"] = 0

Looks(j) ==
    /\ j.configOn => left["flip"] <= 1 /\ (config.enabled \/ Off)
    /\ j.phase = "writing" /\ j.configOn => j.looked \/ Off

FlipInv ==
    /\ left["flip"] <= 2 /\ (config.enabled => left["flip"] <= 1)
    /\ config.pulled => config.looked \/ Off
    /\ \A s \in Slot : job[s] # Nobody => Looks(job[s])

\* What is spent on anything else leaves the toggles that remain.
LEMMA FlipsRemain ==
    ASSUME Types, NEW r \in Rare, r # "flip", Spend(r)
    PROVE  left'["flip"] = left["flip"]
  BY DEF Types, Spend, Rare

\* A profile after a step that completes no pull and toggles nothing.
NoMorePulled(d) ==
    /\ d.enabled = config.enabled
    /\ d.pulled => config.pulled /\ d.looked = config.looked

\* What the operations on the profile do to its flags.
LEMMA ConfigFlags ==
    ASSUME Types
    PROVE  /\ NoMorePulled(config) /\ NoMorePulled(SessionOver(config))
           /\ NoMorePulled(SyncStarts(config)) /\ NoMorePulled(Reconcile(config))
           /\ NoMorePulled(PullPlanned(config, shared))
           /\ NoMorePulled(Publish([config EXCEPT !.profile = "mine"]))
  BY DEF Types, Config, NoMorePulled, SessionOver, SyncStarts, Reconcile, PullPlanned, Publish

\* A step that completes no pull, toggles nothing and plans no job blindly.
LEMMA FlipKept ==
    ASSUME FlipInv, left'["flip"] = left["flip"], NoMorePulled(config'),
           \A s \in Slot : job'[s] # Nobody => Looks(job'[s])
    PROVE  FlipInv'
<1>1. Off' <=> Off
  BY DEF Off, NoMorePulled
<1> QED
  BY <1>1 DEF FlipInv, Looks, NoMorePulled

\* A job goes on: it neither starts again nor begins to write.
GoesOn(j, k) == k.configOn = j.configOn /\ (k.phase = "writing" => j.phase = "writing")
                /\ k.looked = j.looked

\* The same, of jobs that all go on or end.
LEMMA FlipGoesOn ==
    ASSUME FlipInv, left'["flip"] = left["flip"], NoMorePulled(config'),
           \A s \in Slot : job'[s] # Nobody => job[s] # Nobody /\ GoesOn(job[s], job'[s])
    PROVE  FlipInv'
<1>1. \A s \in Slot : job'[s] # Nobody => Looks(job'[s])
  BY DEF FlipInv, Looks, GoesOn
<1> QED
  BY <1>1, FlipKept

\* Sessions end.
LEMMA FlipEnds ==
    ASSUME SessionInv, FlipInv, left'["flip"] = left["flip"],
           EndSession \/ UNCHANGED <<config, job>>
    PROVE  FlipInv'
<1>1. NoMorePulled(config')
  BY ConfigFlags DEF EndSession, SessionInv
<1>2. ASSUME NEW s \in Slot, job'[s] # Nobody
      PROVE  job[s] # Nobody /\ GoesOn(job[s], job'[s])
  BY <1>2 DEF EndSession, SessionInv, Types, Job, GoesOn
<1> QED
  BY <1>1, <1>2, FlipGoesOn

\* Syncs and commands start.
LEMMA FlipStarts ==
    ASSUME SessionInv, FlipInv, left'["flip"] = left["flip"], NoMorePulled(config'),
           NEW s \in Slot, NEW kind, job' = [job EXCEPT ![s] = Started(kind)]
    PROVE  FlipInv'
<1> DEFINE j == Started(kind)
<1>1. j.configOn = config.enabled /\ j.phase # "writing"
  BY DEF Started
<1>2. Looks(j)
  BY <1>1 DEF Looks, FlipInv
<1> HIDE DEF j
<1>3. \A t \in Slot : job'[t] = j \/ job'[t] = job[t]
  BY DEF SessionInv, Types, j
<1> QED
  BY <1>2, <1>3, FlipKept DEF FlipInv

\* What the person does to the session toggles nothing.
LEMMA FlipPerson ==
    ASSUME SessionInv, FlipInv,
           \/ Lock \/ Unload \/ EditField \/ ImportTicket \/ TicketLost
           \/ Prompt \/ Mistype \/ CloseDialog
           \/ \E a \in Attempt : Submit(a) \/ TicketSaved(a)
    PROVE  FlipInv'
<1>1. Types
  BY DEF SessionInv
<1>2. left'["flip"] = left["flip"]
  BY <1>1, FlipsRemain DEF Rare, Lock, Unload, EditField, ImportTicket, TicketLost, Prompt, Mistype,
     CloseDialog, Submit, TicketSaved
<1>3. EndSession \/ UNCHANGED <<config, job>>
  BY DEF Lock, Unload, EditField, ImportTicket, TicketLost, Prompt, Mistype, CloseDialog,
     Submit, TicketSaved, KeepSession
<1> QED
  BY <1>2, <1>3, FlipEnds

\* An unlock starts a sync at most.
LEMMA FlipUnlock ==
    ASSUME SessionInv, FlipInv, NEW a \in Attempt, UnlockNext(a)
    PROVE  FlipInv'
<1>1. UNCHANGED left
  BY DEF UnlockNext, Settled, WaitedTooLong, OpenStorage, OpenVault, Verify, TakeEngine, Preflight
<1>2. CASE UNCHANGED <<config, job>>
  BY <1>1, <1>2, FlipEnds
<1>3. CASE job' = [job EXCEPT !["sync"] = Started("sync")] /\ config' = SyncStarts(config)
  BY <1>1, <1>3, FlipStarts, ConfigFlags, ConstantTypes DEF SessionInv
<1> QED
  BY <1>2, <1>3 DEF UnlockNext, Settled, WaitedTooLong, OpenStorage, OpenVault, Verify,
     TakeEngine, Preflight, SyncStart

\* The toggle itself: with config sync off again, none is left.
LEMMA FlipWorld ==
    ASSUME SessionInv, FlipInv,
           \/ EditNote \/ ConfigToggled \/ ConfigChosen \/ Retime \/ OtherDevice
           \/ NetworkGoes \/ NetworkReturns \/ IntervalPasses \/ ClockSetBack
    PROVE  FlipInv'
<1>1. Types /\ UNCHANGED job
  BY DEF SessionInv, EditNote, ConfigToggled, ConfigChosen, Retime, OtherDevice, NetworkGoes,
     NetworkReturns, IntervalPasses, ClockSetBack, Unmoved
<1>2. ASSUME left'["flip"] = left["flip"], NoMorePulled(config')
      PROVE  FlipInv'
  BY <1>1, <1>2, FlipKept DEF FlipInv
<1>3. CASE EditNote \/ Retime \/ OtherDevice \/ NetworkGoes \/ NetworkReturns
           \/ IntervalPasses \/ ClockSetBack
  <2>1. UNCHANGED config
    BY <1>3 DEF EditNote, Retime, OtherDevice, NetworkGoes, NetworkReturns, IntervalPasses,
       ClockSetBack
  <2>2. left'["flip"] = left["flip"]
    BY <1>1, <1>3, FlipsRemain DEF Rare, EditNote, Retime, OtherDevice, NetworkGoes, NetworkReturns,
       IntervalPasses, ClockSetBack
  <2> QED
    BY <1>1, <1>2, <2>1, <2>2, ConfigFlags
<1>4. CASE ConfigChosen
  BY <1>1, <1>2, <1>4, FlipsRemain, ConfigFlags DEF ConfigChosen, Rare
<1>5. CASE ConfigToggled
  <2>1. /\ left["flip"] \in Nat /\ left'["flip"] = left["flip"] - 1 /\ left["flip"] > 0
        /\ (config'.enabled <=> ~config.enabled)
        /\ config'.pulled = config.pulled /\ config'.looked = config.looked
    BY <1>1, <1>5 DEF ConfigToggled, Spend, Types, Config, Rare
  <2>2. left["flip"] <= 2 /\ (config.enabled => left["flip"] = 1) /\ ~Off
    BY <2>1 DEF FlipInv, Off
  <2>3. config.enabled => Off'
    BY <2>1, <2>2 DEF Off
  <2>4. ASSUME NEW s \in Slot, job[s] # Nobody
        PROVE  Looks(job[s])'
    BY <1>1, <2>1, <2>2, <2>3, <2>4 DEF FlipInv, Looks
  <2> QED
    BY <1>1, <2>1, <2>2, <2>3, <2>4 DEF FlipInv
<1> QED
  BY <1>3, <1>4, <1>5

\* A pull completes with what it looked for; a job that looked may write.
LEMMA FlipJobs ==
    ASSUME SessionInv, FlipInv,
           \/ SyncNow \/ TimerFires \/ PeriodicFires \/ ChoreStart \/ ConfigStep
           \/ \E s \in Slot : JobNext(s) \/ ReadHangs(s) \/ Answer(s)
    PROVE  FlipInv'
<1>1. Types
  BY DEF SessionInv
<1>2. ASSUME UNCHANGED left, NEW s, Trigger(s)
      PROVE  FlipInv'
  BY <1>1, <1>2, FlipEnds, FlipStarts, ConfigFlags, ConstantTypes DEF Trigger, SyncStart
<1>3. CASE SyncNow
  BY <1>1, <1>3, FlipStarts, ConfigFlags, ConstantTypes DEF SyncNow, SyncStart
<1>4. CASE TimerFires \/ PeriodicFires
  BY <1>2, <1>4 DEF TimerFires, PeriodicFires
<1>5. CASE ChoreStart
  BY <1>1, <1>5, FlipsRemain, FlipStarts, ConfigFlags, ConstantTypes DEF ChoreStart, Rare
<1>6. ASSUME NEW s \in Slot, Done(s), left'["flip"] = left["flip"], NoMorePulled(config')
      PROVE  FlipInv'
  <2>1. \A t \in Slot : job'[t] # Nobody => job'[t] = job[t]
    BY <1>1, <1>6 DEF Done, Types
  <2> QED
    BY <1>6, <2>1, FlipGoesOn DEF GoesOn
<1>7. CASE ConfigStep
  BY <1>1, <1>6, <1>7, ConfigFlags, ConstantTypes DEF ConfigStep
<1>8. ASSUME NEW s \in Slot, job[s] # Nobody, NEW j, job' = [job EXCEPT ![s] = j],
             GoesOn(job[s], j), left'["flip"] = left["flip"], NoMorePulled(config')
      PROVE  FlipInv'
  <2>1. \A t \in Slot : job'[t] = IF t = s THEN j ELSE job[t]
    BY <1>1, <1>8 DEF Types
  <2> QED
    BY <1>8, <2>1, FlipGoesOn DEF GoesOn
<1>9. ASSUME NEW s \in Slot, JobNext(s) \/ ReadHangs(s) \/ Answer(s)
      PROVE  FlipInv'
  <2>1. job[s] # Nobody => job[s] \in Job
    BY <1>1 DEF Types
  <2>2. ASSUME job[s] # Nobody, Concluded(s), left'["flip"] = left["flip"],
               NoMorePulled(config')
        PROVE  FlipInv'
    <3>0. PICK f \in {"config", "failed"} : FinishTo(s, f)
      BY <2>2 DEF Concluded
    <3> DEFINE j == [job[s] EXCEPT !.phase = f, !.carries = FALSE]
    <3>1. GoesOn(job[s], j)
      BY <2>1, <2>2 DEF Job, GoesOn
    <3>2. Done(s) \/ job' = [job EXCEPT ![s] = j]
      BY <1>1, <3>0 DEF FinishTo, Types
    <3> HIDE DEF j
    <3> QED
      BY <1>6, <1>8, <2>2, <3>1, <3>2
  <2>3. CASE CheckAnswers(s)
    <3>1. CASE vault[job[s].loc] = "published" /\ job[s].right
      <4> DEFINE j == [job[s] EXCEPT !.phase = "reading", !.proof = "checked"]
      <4>1. /\ job[s] # Nobody /\ job' = [job EXCEPT ![s] = j]
            /\ UNCHANGED <<left, config>>
        BY <1>1, <2>3, <3>1 DEF CheckAnswers, Alive, Types
      <4>2. GoesOn(job[s], j)
        BY <2>1, <4>1 DEF Job, GoesOn
      <4> HIDE DEF j
      <4> QED
        BY <1>1, <1>8, <4>1, <4>2, ConfigFlags
    <3>2. CASE ~(vault[job[s].loc] = "published" /\ job[s].right)
      BY <2>3, <3>2, FlipEnds DEF CheckAnswers
    <3> QED
      BY <3>1, <3>2
  <2>4. CASE ReadAnswers(s)
    <3> DEFINE e == (s = "sync" /\ dirty)
               j == [job[s] EXCEPT !.phase = "writing", !.looked = config.enabled, !.carries = e]
               k == [job[s] EXCEPT !.phase = "asking"]
    <3>1. job[s] # Nobody /\ job[s] \in Job
      BY <2>1, <2>4 DEF ReadAnswers, Alive
    <3>2. NoMorePulled(config')
      BY <1>1, <2>4, ConfigFlags DEF ReadAnswers
    <3>3. left'["flip"] = left["flip"]
      BY <1>1, <2>4, FlipsRemain DEF ReadAnswers, Rare
    <3>4. Looks(j)
      <4>1. j.configOn = job[s].configOn /\ j.looked = config.enabled
        BY <3>1 DEF Job
      <4> QED
        BY <3>1, <4>1 DEF FlipInv, Looks
    <3>5. GoesOn(job[s], k)
      BY <3>1 DEF Job, GoesOn
    <3>6. job' = [job EXCEPT ![s] = j] \/ job' = [job EXCEPT ![s] = k] \/ Finish(s)
      BY <1>1, <2>4 DEF ReadAnswers, Types
    <3> HIDE DEF j, k
    <3>7. CASE job' = [job EXCEPT ![s] = j]
      <4>1. \A t \in Slot : job'[t] = IF t = s THEN j ELSE job[t]
        BY <1>1, <3>7 DEF Types
      <4> QED
        BY <3>2, <3>3, <3>4, <4>1, FlipKept DEF FlipInv
    <3> QED
      BY <1>8, <2>2, <3>1, <3>2, <3>3, <3>5, <3>6, <3>7, Concludes
  <2>5. CASE Answer(s)
    <3> DEFINE j == [job[s] EXCEPT !.phase = "reading", !.round = @ + 1]
    <3>1. job[s] # Nobody /\ job[s] \in Job /\ UNCHANGED <<left, config>>
      BY <2>1, <2>5 DEF Answer, Alive
    <3>2. GoesOn(job[s], j)
      BY <3>1 DEF Job, GoesOn
    <3>3. job' = [job EXCEPT ![s] = j] \/ Finish(s)
      BY <1>1, <2>5 DEF Answer, Types
    <3> HIDE DEF j
    <3> QED
      BY <1>1, <1>8, <2>2, <3>1, <3>2, <3>3, Concludes, ConfigFlags
  <2>6. CASE ReadHangs(s)
    <3> DEFINE j == [job[s] EXCEPT !.phase = "hung"]
    <3>1. job[s] # Nobody /\ job[s] \in Job /\ UNCHANGED config
      BY <2>1, <2>6 DEF ReadHangs, Alive
    <3>2. GoesOn(job[s], j)
      BY <3>1 DEF Job, GoesOn
    <3>3. job' = [job EXCEPT ![s] = j] /\ left'["flip"] = left["flip"]
      BY <1>1, <2>6, FlipsRemain DEF ReadHangs, Types, Rare
    <3> HIDE DEF j
    <3> QED
      BY <1>1, <1>8, <3>1, <3>2, <3>3, ConfigFlags
  <2>7. CASE JobFails(s)
    <3>1. left'["flip"] = left["flip"] /\ UNCHANGED config
      BY <1>1, <2>7, FlipsRemain DEF JobFails, Rare
    <3> QED
      BY <1>1, <2>2, <2>7, <3>1, Concludes, ConfigFlags DEF JobFails
  <2>8. CASE WriteEnds(s)
    <3>1. job[s] # Nobody /\ job[s] \in Job /\ (Done(s) \/ Finish(s)) /\ UNCHANGED left
      BY <2>1, <2>8 DEF WriteEnds
    <3>2. CASE UNCHANGED config
      BY <1>1, <1>6, <2>2, <3>1, <3>2, Concludes, ConfigFlags
    <3>3. CASE config' = PullCompleted(config, job[s].configOn, job[s].looked)
      <4>1. /\ config'.enabled = config.enabled
            /\ config'.pulled <=> config.pulled \/ job[s].configOn
            /\ config'.looked <=> config.looked \/ job[s].looked
        BY <1>1, <3>1, <3>3 DEF PullCompleted, Types, Config, Job
      <4>2. job[s].configOn => job[s].looked \/ Off
        BY <2>8, <3>1 DEF WriteEnds, FlipInv, Looks
      <4>3. \A t \in Slot : job'[t] # Nobody => job[t] # Nobody /\ GoesOn(job[t], job'[t])
        <5>1. CASE Done(s)
          BY <1>1, <5>1 DEF Done, Types, GoesOn
        <5>2. CASE Finish(s) /\ ~Done(s)
          <6> DEFINE j == [job[s] EXCEPT !.phase = "config", !.carries = FALSE]
          <6>1. GoesOn(job[s], j)
            BY <3>1 DEF Job, GoesOn
          <6>2. job' = [job EXCEPT ![s] = j]
            BY <1>1, <5>2 DEF Finish, FinishTo, Types
          <6> HIDE DEF j
          <6> QED
            BY <1>1, <3>1, <6>1, <6>2 DEF Types, GoesOn
        <5> QED
          BY <3>1, <5>1, <5>2
      <4>4. Off' <=> Off
        BY <3>1, <4>1 DEF Off
      <4> QED
        BY <3>1, <4>1, <4>2, <4>3, <4>4 DEF FlipInv, Looks, GoesOn
    <3> QED
      BY <2>8, <3>2, <3>3 DEF WriteEnds
  <2>9. CASE JobStops(s)
    BY <1>1, <1>6, <2>9, ConfigFlags DEF JobStops
  <2> QED
    BY <1>9, <2>3, <2>4, <2>5, <2>6, <2>7, <2>8, <2>9 DEF JobNext
<1> QED
  BY <1>3, <1>4, <1>5, <1>7, <1>9

\* Config sync is off at the start, with two toggles to go.
LEMMA InitFlip == FewFlips /\ Init => FlipInv
<1> SUFFICES ASSUME FewFlips, Init
             PROVE  FlipInv
  OBVIOUS
<1>1. left["flip"] <= 2
  BY DEF Init, FewFlips
<1> QED
  BY <1>1 DEF Init, FlipInv

\* Every step of the system keeps it.
LEMMA NextFlip == SessionInv /\ FlipInv /\ [Next]_vars => FlipInv'
<1> SUFFICES ASSUME SessionInv, FlipInv, [Next]_vars
             PROVE  FlipInv'
  OBVIOUS
<1>1. CASE UNCHANGED vars
  BY <1>1, FlipEnds DEF vars
<1>2. CASE Person
  BY <1>2, FlipPerson, FlipJobs, FlipWorld DEF Person
<1>3. ASSUME NEW a \in Attempt, TicketSaved(a) \/ UnlockNext(a)
      PROVE  FlipInv'
  BY <1>3, FlipPerson, FlipUnlock
<1>4. CASE TicketLost
  BY <1>4, FlipPerson
<1>5. CASE \/ TimerFires \/ PeriodicFires \/ ConfigStep
           \/ \E s \in Slot : JobNext(s) \/ ReadHangs(s)
  BY <1>5, FlipJobs
<1>6. CASE OtherDevice \/ NetworkGoes \/ NetworkReturns \/ IntervalPasses \/ ClockSetBack
  BY <1>6, FlipWorld
<1> QED
  BY <1>1, <1>2, <1>3, <1>4, <1>5, <1>6 DEF Next

\* The profile file changes in few ways, and is made in two.
LEMMA ProfileMade ==
    ASSUME SessionInv, FlipInv, [Next]_vars, config.file = "none", config'.file # "none"
    PROVE  config.looked \/ config'.file = shared
<1>1. Types
  BY DEF SessionInv
<1>2. config' # config
  OBVIOUS
<1>3. \/ config' \in {SessionOver(config), SyncStarts(config), Reconcile(config),
                      PullPlanned(config, shared), [config EXCEPT !.enabled = ~@]}
      \/ \E s \in Slot : config' = PullCompleted(config, job[s].configOn, job[s].looked)
      \/ config' = Publish([config EXCEPT !.profile = "mine"])
  <2>1. CASE Person
    BY <1>2, <2>1 DEF Person, Lock, Unload, EditField, ImportTicket, Prompt, Mistype,
       CloseDialog, SyncNow, ChoreStart, EditNote, ConfigToggled, ConfigChosen, Retime, Submit,
       Answer, EndSession, KeepSession, SyncStart
  <2>2. CASE TicketLost \/ \E a \in Attempt : TicketSaved(a)
    BY <1>2, <2>2 DEF TicketLost, TicketSaved, EndSession, KeepSession
  <2>3. CASE \E a \in Attempt : UnlockNext(a)
    BY <1>2, <2>3 DEF UnlockNext, Settled, WaitedTooLong, OpenStorage, OpenVault, Verify,
       TakeEngine, Preflight, SyncStart
  <2>4. ASSUME NEW s \in Slot, JobNext(s) \/ ReadHangs(s)
        PROVE  \/ config' \in {SessionOver(config), PullPlanned(config, shared)}
               \/ config' = PullCompleted(config, job[s].configOn, job[s].looked)
    BY <1>2, <2>4 DEF JobNext, CheckAnswers, ReadAnswers, JobFails, WriteEnds, JobStops,
       ReadHangs, EndSession
  <2>5. CASE ConfigStep \/ TimerFires \/ PeriodicFires
    BY <1>2, <2>5 DEF ConfigStep, TimerFires, PeriodicFires, Trigger, SyncStart
  <2>6. CASE OtherDevice \/ NetworkGoes \/ NetworkReturns \/ IntervalPasses \/ ClockSetBack
             \/ UNCHANGED vars
    BY <1>2, <2>6 DEF OtherDevice, NetworkGoes, NetworkReturns, IntervalPasses, ClockSetBack, vars
  <2> QED
    BY <2>1, <2>2, <2>3, <2>4, <2>5, <2>6 DEF Next
<1>4. CASE config' = PullPlanned(config, shared)
  BY <1>1, <1>4 DEF PullPlanned, Types, Config
<1>5. CASE config' = Reconcile(config) \/ config' = Publish([config EXCEPT !.profile = "mine"])
  <2>1. config.enabled /\ config.pulled
    BY <1>1, <1>5 DEF Reconcile, Publish, Types, Config
  <2> QED
    BY <2>1 DEF FlipInv, Off
<1>6. CASE \/ config' \in {SessionOver(config), SyncStarts(config), [config EXCEPT !.enabled = ~@]}
           \/ \E s \in Slot : config' = PullCompleted(config, job[s].configOn, job[s].looked)
  BY <1>1, <1>6 DEF SessionOver, SyncStarts, PullCompleted, Types, Config
<1> QED
  BY <1>3, <1>4, <1>5, <1>6

(***************************************************************************)
(* A shared profile file is made from this device's settings only after a  *)
(* pull has looked for the vault's own, as long as the setting is toggled  *)
(* twice at most (configPulled of main.ts, ADR-0068).                      *)
(***************************************************************************)
THEOREM NoProfileMadeBlindly ==
    ASSUME FewFlips
    PROVE  Spec => NoBlindProfile
<1>1. Init => FlipInv
  BY InitFlip
<1>2. SessionInv /\ FlipInv /\ [Next]_vars
        => [config.file = "none" /\ config'.file # "none"
              => config.looked \/ config'.file = shared]_vars
  BY ProfileMade
<1> QED
  BY <1>1, <1>2, SessionInvariant, NextFlip, PTL DEF Spec, NoBlindProfile
===============================================================================

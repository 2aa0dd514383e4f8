------------------------------- MODULE Session -------------------------------
(***************************************************************************)
(* The plugin's life between Unlock and Lock:                              *)
(* packages/obsidian-plugin/src/main.ts with unlock.ts, unlock-flow.ts,    *)
(* ticket-modals.ts and the storage callbacks of settings-tab.ts.          *)
(*                                                                         *)
(* Unlock calls, the sync, one maintenance command, dialogs, timers and    *)
(* settings edits interleave at every await.  The engine's own work is one *)
(* read phase and one write phase (SyncEngine and Reclaim have the rest).  *)
(* The code compares counters it captured (session, storageEpoch) with the *)
(* current ones; here each holder of a captured value has a flag that says *)
(* the counter has moved since.                                            *)
(***************************************************************************)
EXTENDS Naturals, Scheduler, SharedConfig

CONSTANTS
    Attempt,     \* unlock calls that can be in flight at once
    Budgets,     \* SUBSET [Rare -> Nat]: bounds on the rare events, any of them
    Nobody       \* no engine, no job, no call

(***************************************************************************)
(* submit: a passphrase is typed.  lock, unload: the person does that.     *)
(* field, ticket: a storage setting is edited, a ticket is imported.       *)
(* change: a note is edited.  flip, choose: config sync is toggled, its    *)
(* profile changed.  other: another device creates, publishes, shares.     *)
(* metered, lost: the network costs, or goes, telling or not.  clock: the  *)
(* wall clock is set back.  retime: the idle pull is turned on or off.     *)
(* fail: a request fails.  hang: a read never answers.  ask: Safe Sync has *)
(* a question.  chore: a maintenance command.                              *)
(***************************************************************************)
Rare == {"submit", "lock", "unload", "field", "ticket", "change", "flip", "choose",
         "other", "metered", "lost", "clock", "retime", "fail", "hang", "ask",
         "chore", "idlePull"}

Location == {"home", "away"}
Slot == {"sync", "chore"}          \* this.running, this.chores
Proof == {"none", "twice", "checked"}    \* what says the passphrase is right

Call == [phase : {"idle", "settling", "waiting", "opening", "verifying", "rewaiting",
                  "preflight"},
         create : BOOLEAN, confirmed : BOOLEAN, right : BOOLEAN,
         moved : BOOLEAN, locked : BOOLEAN, abandoned : BOOLEAN,
         waits : SUBSET Slot, loc : Location, proof : Proof]

Engine == [loc : Location, proof : Proof, right : BOOLEAN]

Job == [phase : {"check", "reading", "asking", "hung", "writing", "config", "failed"},
        kind : {"sync", "push", "other", "accept"}, ended : BOOLEAN,
        loc : Location, proof : Proof, right : BOOLEAN, round : Nat,
        configOn : BOOLEAN, looked : BOOLEAN, carries : BOOLEAN]

ASSUME SessionAssumption ==
    /\ Nobody \notin Attempt /\ Nobody \notin Engine /\ Nobody \notin Job
    /\ Budgets \subseteq [Rare -> Nat]

VARIABLES
    shown,       \* the storage location in the settings
    saving,      \* a ticket's save in flight: the location it replaced
    unloaded,    \* this.unloaded
    vault,       \* what each location holds, for every device
    shared,      \* the shared profile the home vault holds
    net,         \* the network
    dialog,      \* the passphrase dialog, this.unlockModal
    call,        \* [Attempt -> Call]: unlock()
    engine,      \* this.engine and what its keys rest on
    unverified,  \* this.unverified
    job,         \* [Slot -> Job]: the sync and the command in flight
    dirty,       \* there are edits no sync has planned
    sched,       \* this.scheduler
    config,      \* the shared profile's side of this device
    left         \* [Rare -> Nat]: what remains of the budget

vars == <<shown, saving, unloaded, vault, shared, net, dialog, call, engine,
          unverified, job, dirty, sched, config, left>>

world == <<vault, shared, net, dirty>>
settings == <<shown, saving, unloaded>>

NoCall == [phase |-> "idle", create |-> FALSE, confirmed |-> FALSE, right |-> TRUE,
           moved |-> FALSE, locked |-> FALSE, abandoned |-> FALSE, waits |-> {},
           loc |-> "home", proof |-> "none"]

ClosedDialog == [open |-> FALSE, call |-> Nobody, why |-> "no", right |-> TRUE]

Unlocked == engine # Nobody
Fails == net \in {"offline", "dead"}          \* requests do not get through
Declined == net \in {"offline", "metered"}    \* autoSyncAllowed says no

Spend(r) == left[r] > 0 /\ left' = [left EXCEPT ![r] = @ - 1]

Init ==
    /\ shown = "home" /\ saving = "none" /\ unloaded = FALSE
    /\ vault \in [Location -> {"absent", "published"}] /\ vault["away"] = "published"
    /\ shared = "none" /\ net = "ok"
    /\ dialog = ClosedDialog
    /\ call = [a \in Attempt |-> NoCall]
    /\ engine = Nobody /\ unverified = FALSE
    /\ job = [s \in Slot |-> Nobody]
    /\ dirty = FALSE
    /\ config = [enabled |-> FALSE, profile |-> "default", file |-> "none",
                 pulled |-> FALSE, looked |-> FALSE]
    /\ left \in Budgets
    /\ sched = [on |-> FALSE, pulls |-> left["idlePull"] > 0, timer |-> FALSE,
                periodic |-> FALSE, since |-> "never"]

---------------------------------------------------------------------------
(* lock(): what every way of ending a session does.                        *)

CallsMoved(flagged(_)) == [a \in Attempt |-> IF call[a].phase \in {"idle", "settling"}
                                             THEN call[a] ELSE flagged(call[a])]

SawLock(c) == [c EXCEPT !.locked = TRUE]
SawEdit(c) == [c EXCEPT !.moved = TRUE]
SawBoth(c) == [c EXCEPT !.locked = TRUE, !.moved = TRUE]

\* Jobs are aborted and their dialogs closed; none of them stops at once.
EndSession ==
    /\ engine' = Nobody
    /\ unverified' = FALSE
    /\ sched' = Disposed(sched)
    /\ config' = SessionOver(config)
    /\ job' = [s \in Slot |-> IF job[s] = Nobody THEN Nobody
                              ELSE [job[s] EXCEPT !.ended = TRUE]]

KeepSession == UNCHANGED <<engine, unverified, sched, config, job>>

Lock ==
    /\ Spend("lock")
    /\ EndSession
    /\ call' = CallsMoved(SawLock)
    /\ UNCHANGED <<settings, world, dialog>>

\* onunload: the dialog is dismissed, even while it checks.
Unload ==
    /\ ~unloaded
    /\ Spend("unload")
    /\ unloaded' = TRUE
    /\ EndSession
    /\ dialog' = ClosedDialog
    /\ call' = [a \in Attempt |-> IF a = dialog.call
                                  THEN [CallsMoved(SawLock)[a] EXCEPT !.abandoned = TRUE]
                                  ELSE CallsMoved(SawLock)[a]]
    /\ UNCHANGED <<shown, saving, world>>

---------------------------------------------------------------------------
(* Settings that say where the storage is.                                 *)

\* storageSettingsChanged: the epoch moves; an open session is locked.
EditField ==
    /\ Spend("field")
    /\ shown' = IF shown = "home" THEN "away" ELSE "home"
    /\ IF Unlocked THEN EndSession /\ call' = CallsMoved(SawBoth)
                   ELSE KeepSession /\ call' = CallsMoved(SawEdit)
    /\ UNCHANGED <<saving, unloaded, world, dialog>>

\* replaceSettings, up to its save.
ImportTicket ==
    /\ ~unloaded /\ saving = "none"
    /\ Spend("ticket")
    /\ \E l \in Location : shown' = l
    /\ saving' = shown
    /\ IF Unlocked THEN EndSession /\ call' = CallsMoved(SawBoth)
                   ELSE KeepSession /\ call' = CallsMoved(SawEdit)
    /\ UNCHANGED <<unloaded, world, dialog>>

\* The save failed: the settings of before are put back.
TicketLost ==
    /\ saving # "none"
    /\ Spend("fail")
    /\ shown' = saving /\ saving' = "none"
    /\ UNCHANGED <<unloaded, world, dialog, call, engine, unverified, job,
                   sched, config>>

\* The save succeeded; connectWithPassphrase takes the passphrase as confirmed.
TicketSaved(a) ==
    /\ saving # "none" /\ saving' = "none"
    /\ call[a] = NoCall
    /\ IF Unlocked THEN EndSession ELSE KeepSession
    /\ LET calls == IF Unlocked THEN CallsMoved(SawLock) ELSE call
       IN  call' = IF unloaded THEN calls
                   ELSE [calls EXCEPT ![a] = [NoCall EXCEPT !.phase = "settling",
                                                            !.confirmed = TRUE]]
    /\ UNCHANGED <<shown, unloaded, world, dialog, left>>

---------------------------------------------------------------------------
(* The passphrase dialog: promptUnlock, PassphraseModal, UnlockFlow.       *)

PromptedDialog == IF dialog.open \/ unloaded THEN dialog
                  ELSE [ClosedDialog EXCEPT !.open = TRUE]

Prompt ==
    /\ ~Unlocked /\ ~unloaded /\ ~dialog.open
    /\ left["submit"] > 0
    /\ dialog' = PromptedDialog
    /\ UNCHANGED <<settings, world, call, engine, unverified, job, sched,
                   config, left>>

(***************************************************************************)
(* submit: the answer to a question is the same passphrase again, and says *)
(* which question it answers.  An unlock while one is open ends at once.   *)
(***************************************************************************)
Submit(a) ==
    /\ dialog.open /\ dialog.call = Nobody /\ call[a] = NoCall
    /\ Spend("submit")
    /\ \E right \in BOOLEAN :
         /\ dialog.why # "no" => right = dialog.right
         /\ IF Unlocked
            THEN dialog' = ClosedDialog /\ UNCHANGED call
            ELSE /\ dialog' = [dialog EXCEPT !.call = a, !.why = "no", !.right = right]
                 /\ call' = [call EXCEPT ![a] =
                               [NoCall EXCEPT !.phase = "settling", !.right = right,
                                              !.create = dialog.why = "create",
                                              !.confirmed = dialog.why = "unchecked"]]
    /\ UNCHANGED <<settings, world, engine, unverified, job, sched, config>>

\* The second passphrase differs: the question is over.
Mistype ==
    /\ dialog.why # "no" /\ dialog.call = Nobody
    /\ dialog' = [dialog EXCEPT !.why = "no"]
    /\ UNCHANGED <<settings, world, call, engine, unverified, job, sched,
                   config, left>>

\* close: while an unlock checks, that unlock is abandoned.
CloseDialog ==
    /\ dialog.open
    /\ dialog' = ClosedDialog
    /\ call' = [a \in Attempt |-> IF a = dialog.call
                                  THEN [call[a] EXCEPT !.abandoned = TRUE] ELSE call[a]]
    /\ UNCHANGED <<settings, world, engine, unverified, job, sched, config, left>>

---------------------------------------------------------------------------
(* unlock(), between its awaits.                                           *)

\* Mutation of Pending: an unlock waits for nothing.
NothingPending == {}

Pending == {s \in Slot : job[s] # Nobody}

\* It returned: its dialog, if it still is this one, closes.
Returned(a) ==
    /\ call' = [call EXCEPT ![a] = NoCall]
    /\ dialog' = IF dialog.call = a THEN ClosedDialog ELSE dialog

\* It threw: the dialog stays, with the question it has to ask, if any.
Threw(a, why) ==
    /\ call' = [call EXCEPT ![a] = NoCall]
    /\ dialog' = IF dialog.call = a THEN [dialog EXCEPT !.call = Nobody, !.why = why]
                 ELSE dialog

Advance(a, next) == call' = [call EXCEPT ![a] = next] /\ UNCHANGED dialog

\* The epoch and the session are read, and what is still stopping.
Settled(a) ==
    /\ call[a].phase = "settling" /\ saving = "none"
    /\ Advance(a, [call[a] EXCEPT !.phase = "waiting", !.waits = Pending])
    /\ UNCHANGED <<settings, world, engine, unverified, job, sched, config, left>>

\* PreviousSessionBusy: what ran before has not stopped in time.
WaitedTooLong(a) ==
    /\ call[a].phase \in {"waiting", "rewaiting"} /\ call[a].waits # {}
    /\ Threw(a, "no")
    /\ UNCHANGED <<settings, world, engine, unverified, job, sched, config, left>>

\* The settings are read here.
OpenStorage(a) ==
    /\ call[a].phase = "waiting" /\ call[a].waits = {}
    /\ Advance(a, [call[a] EXCEPT !.phase = "opening", !.loc = shown])
    /\ UNCHANGED <<settings, world, engine, unverified, job, sched, config, left>>

(***************************************************************************)
(* openSyncEngine: with no vault there it is a question, unless this call  *)
(* is its answer; an unlock nobody wants any more creates nothing.         *)
(***************************************************************************)
OpenVault(a) ==
    LET c == call[a]
        absent == vault[c.loc] = "absent"
        refused == c.abandoned \/ unloaded
    IN  /\ c.phase = "opening"
        /\ \/ Fails /\ Threw(a, "no") /\ UNCHANGED vault
           \/ ~Fails /\ absent /\ ~c.create /\ Threw(a, "create") /\ UNCHANGED vault
           \/ ~Fails /\ absent /\ c.create /\ refused /\ Threw(a, "no") /\ UNCHANGED vault
           \/ /\ ~Fails /\ (absent => c.create /\ ~refused)
              /\ vault' = IF absent THEN [vault EXCEPT ![c.loc] = "empty"] ELSE vault
              /\ Advance(a, [c EXCEPT !.phase = "verifying"])
        /\ UNCHANGED <<settings, shared, net, dirty, engine, unverified, job,
                       sched, config, left>>

Typed(c) == IF c.create \/ c.confirmed THEN "twice" ELSE "none"

(***************************************************************************)
(* verifyAccess: a manifest proves or refutes the passphrase; without one  *)
(* it has to be typed twice; an unreachable storage leaves it unchecked.   *)
(***************************************************************************)
Verify(a) ==
    LET c == call[a]
        open(proof) == Advance(a, [c EXCEPT !.phase = "rewaiting", !.proof = proof,
                                            !.waits = IF Unlocked THEN {} ELSE Pending])
    IN  /\ c.phase = "verifying"
        /\ \/ Fails /\ open(Typed(c))
           \/ ~Fails /\ vault[c.loc] = "published" /\ c.right /\ open("checked")
           \/ ~Fails /\ vault[c.loc] = "published" /\ ~c.right /\ Threw(a, "no")
           \/ ~Fails /\ vault[c.loc] = "empty" /\ Typed(c) = "twice" /\ open("twice")
           \/ ~Fails /\ vault[c.loc] = "empty" /\ Typed(c) = "none" /\ Threw(a, "unchecked")
        /\ UNCHANGED <<settings, world, engine, unverified, job, sched, config, left>>

\* Mutation of Wanted: an unload is only what closes a dialog.
WantedAnyway(c) == ~c.abandoned /\ ~c.locked

\* Nobody unloaded, closed the dialog or locked while it ran.
Wanted(c) == ~unloaded /\ ~c.abandoned /\ ~c.locked

\* Mutation of OnShown: the settings' epoch is not compared.
OnShownAnyway(c) == c.phase # "idle"

OnShown(c) == ~c.moved

\* The engine becomes the session's, if there is still a use for it.
TakeEngine(a) ==
    LET c == call[a] IN
    /\ c.phase = "rewaiting" /\ c.waits = {}
    /\ \/ /\ Unlocked \/ ~Wanted(c)
          /\ Returned(a)
          /\ UNCHANGED <<engine, unverified>>
       \/ /\ ~Unlocked /\ Wanted(c) /\ ~OnShown(c)
          /\ Threw(a, "no")                           \* LocationChanged
          /\ UNCHANGED <<engine, unverified>>
       \/ /\ ~Unlocked /\ Wanted(c) /\ OnShown(c)
          /\ engine' = [loc |-> c.loc, proof |-> c.proof, right |-> c.right]
          /\ unverified' = (c.proof = "none")
          /\ Advance(a, [c EXCEPT !.phase = "preflight"])
    /\ UNCHANGED <<settings, world, job, sched, config, left>>

---------------------------------------------------------------------------
(* Syncs and commands: syncNow, handleConfirmation, maintenance.           *)

\* Mutation of Started: an unverified passphrase is not checked first.
StartedUnchecked(kind) ==
    [phase |-> "reading", kind |-> kind, ended |-> FALSE,
     loc |-> engine.loc, proof |-> engine.proof, right |-> engine.right, round |-> 1,
     configOn |-> config.enabled, looked |-> FALSE, carries |-> FALSE]

Started(kind) ==
    [phase |-> IF unverified THEN "check" ELSE "reading", kind |-> kind, ended |-> FALSE,
     loc |-> engine.loc, proof |-> engine.proof, right |-> engine.right, round |-> 1,
     configOn |-> config.enabled, looked |-> FALSE, carries |-> FALSE]

\* syncNow, past its early returns; `s` is the scheduler that asked for it.
SyncStart(kind, s) ==
    /\ job' = [job EXCEPT !["sync"] = Started(kind)]
    /\ sched' = NoteSyncStarted(s)
    /\ config' = SyncStarts(config)

Syncing == job["sync"] # Nobody

\* The unlock's last step, after the migration preflight.
Preflight(a) ==
    /\ call[a].phase = "preflight"
    /\ Returned(a)
    /\ IF ~Unlocked
       THEN sched' = Disposed(sched) /\ UNCHANGED <<job, config>>
       ELSE IF Syncing
       THEN sched' = Reconfigured(sched) /\ UNCHANGED <<job, config>>
       ELSE SyncStart("sync", Reconfigured(sched))
    /\ UNCHANGED <<settings, world, engine, unverified, left>>

\* A person syncs (after a re-hash, too: HashCache), or the app goes to the
\* background: a push, best effort.
SyncNow ==
    /\ Unlocked /\ ~Syncing
    /\ \E kind \in {"sync", "push"} : SyncStart(kind, sched)
    /\ UNCHANGED <<settings, world, engine, dialog, call, unverified, left>>

\* A timer asks: a sync in flight or the network policy puts it off.
Trigger(s) ==
    IF Syncing \/ Declined
    THEN sched' = RetryLater(s) /\ UNCHANGED <<job, config>>
    ELSE SyncStart("sync", s)

TimerFires ==
    /\ Due(sched)
    /\ Trigger(Fired(sched))
    /\ UNCHANGED <<settings, world, engine, dialog, call, unverified, left>>

PeriodicFires ==
    /\ sched.periodic
    /\ Trigger(PeriodicFired(sched))
    /\ UNCHANGED <<settings, world, engine, dialog, call, unverified, left>>

\* reclaim, release, forget ("other") or acceptStorage ("accept").
ChoreStart ==
    /\ Unlocked /\ job["chore"] = Nobody
    /\ Spend("chore")
    /\ \E kind \in {"other", "accept"} : job' = [job EXCEPT !["chore"] = Started(kind)]
    /\ UNCHANGED <<settings, world, engine, dialog, call, unverified, sched, config>>

\* `done` resolves: no unlock waits for this one any more.
Done(s) ==
    /\ job' = [job EXCEPT ![s] = Nobody]
    /\ call' = [a \in Attempt |-> [call[a] EXCEPT !.waits = @ \ {s}]]

\* What follows the outcome of a sync, or its failure, is its finally block.
FinishTo(s, phase) ==
    IF s = "sync" THEN job' = [job EXCEPT ![s].phase = phase, ![s].carries = FALSE]
                       /\ UNCHANGED call
                  ELSE Done(s)

Finish(s) == FinishTo(s, "config")

Alive(s, phase) == job[s] # Nobody /\ job[s].phase = phase /\ ~job[s].ended

(***************************************************************************)
(* passphraseChecked: a manifest proves the passphrase, or refutes it; if  *)
(* there is none, nothing was ever asked: both lock and ask now.           *)
(***************************************************************************)
CheckAnswers(s) ==
    /\ Alive(s, "check") /\ ~Fails
    /\ IF vault[job[s].loc] = "published" /\ job[s].right
       THEN /\ unverified' = FALSE
            /\ engine' = [engine EXCEPT !.proof = "checked"]
            /\ job' = [job EXCEPT ![s].phase = "reading", ![s].proof = "checked"]
            /\ UNCHANGED <<sched, config, dialog, call>>
       ELSE EndSession /\ dialog' = PromptedDialog /\ call' = CallsMoved(SawLock)
    /\ UNCHANGED <<settings, world, left>>

\* handleConfirmation asks twice at most (MAX_CONFIRMATION_ROUNDS).
AskedTooOften(j) == j.kind = "sync" /\ j.round > 2

(***************************************************************************)
(* What the engine read is planned: it goes on to write, or a person is    *)
(* asked first, as every command does.                                     *)
(***************************************************************************)
ReadAnswers(s) ==
    /\ Alive(s, "reading") /\ ~Fails
    /\ vault[job[s].loc] = "published" => job[s].right
    /\ \/ /\ s = "sync" \/ job[s].round > 1
          /\ job' = [job EXCEPT ![s].phase = "writing", ![s].looked = config.enabled,
                                ![s].carries = s = "sync" /\ dirty]
          /\ dirty' = (dirty /\ s # "sync")
          /\ config' = IF job[s].kind = "sync" /\ job[s].loc = "home"
                       THEN PullPlanned(config, shared) ELSE config
          /\ UNCHANGED <<call, left>>
       \/ /\ s = "chore" /\ job[s].round = 1
          /\ job' = [job EXCEPT ![s].phase = "asking"]
          /\ UNCHANGED <<call, left, dirty, config>>
       \/ /\ job[s].kind = "sync" /\ Spend("ask")
          /\ IF AskedTooOften(job[s]) THEN Finish(s)
             ELSE job' = [job EXCEPT ![s].phase = "asking"] /\ UNCHANGED call
          /\ UNCHANGED <<dirty, config>>
    /\ UNCHANGED <<settings, vault, shared, net, dialog, engine, unverified, sched>>

\* The dialog is answered; a yes is planned again.
Answer(s) ==
    /\ Alive(s, "asking")
    /\ \/ /\ job' = [job EXCEPT ![s].phase = "reading", ![s].round = @ + 1]
          /\ UNCHANGED call
       \/ Finish(s)
    /\ UNCHANGED <<settings, world, dialog, engine, unverified, sched, config, left>>

\* A read that never answers.
ReadHangs(s) ==
    /\ Alive(s, "reading")
    /\ Spend("hang")
    /\ job' = [job EXCEPT ![s].phase = "hung"]
    /\ UNCHANGED <<settings, world, dialog, call, engine, unverified, sched, config>>

\* Requests fail, the passphrase is refused, or another device was faster.
JobFails(s) ==
    /\ job[s] # Nobody /\ ~job[s].ended /\ job[s].phase \in {"check", "reading", "writing"}
    /\ \/ Fails /\ UNCHANGED left
       \/ /\ ~Fails /\ vault[job[s].loc] = "published" /\ ~job[s].right
          /\ job[s].phase # "check" /\ UNCHANGED left
       \/ ~Fails /\ Spend("fail")
    /\ FinishTo(s, "failed")
    /\ dirty' = (dirty \/ job[s].carries)
    /\ UNCHANGED <<settings, vault, shared, net, dialog, engine, unverified,
                   sched, config>>

\* What a job that ran to its end leaves in the storage.
WriteEnds(s) ==
    LET j == job[s]
        published == j.kind # "accept"
        synced == j.kind = "sync" /\ ~j.ended
    IN  /\ j # Nobody /\ j.phase = "writing"
        /\ vault' = IF published THEN [vault EXCEPT ![j.loc] = "published"] ELSE vault
        /\ shared' = IF published /\ j.looked /\ j.loc = "home" /\ config.file # "none"
                     THEN config.file ELSE shared
        /\ config' = IF synced THEN PullCompleted(config, j.configOn, j.looked) ELSE config
        /\ IF j.ended THEN Done(s) ELSE Finish(s)
        /\ UNCHANGED <<settings, net, dirty, dialog, engine, unverified, sched, left>>

\* The finally block: the profile is reconciled, the next sync may start.
ConfigStep ==
    /\ Syncing /\ job["sync"].phase \in {"config", "failed"}
    /\ config' = Reconcile(config)
    /\ Done("sync")
    /\ UNCHANGED <<settings, world, dialog, engine, unverified, sched, left>>

\* Mutation of JobStops: a read that hangs is not aborted.
JobStopsOnAnswer(s) ==
    /\ job[s] # Nobody /\ job[s].ended
    /\ job[s].phase \in {"check", "reading", "asking"}
    /\ Done(s)
    /\ UNCHANGED <<settings, world, dialog, engine, unverified, sched, config, left>>

\* Lock aborted it: a read rejects, a dialog answers no; a write is waited for.
JobStops(s) ==
    /\ job[s] # Nobody /\ job[s].ended
    /\ job[s].phase \in {"check", "reading", "hung", "asking"}
    /\ Done(s)
    /\ UNCHANGED <<settings, world, dialog, engine, unverified, sched, config, left>>

---------------------------------------------------------------------------
(* The person's notes and settings, other devices, time and the network.   *)

Unmoved == UNCHANGED <<settings, dialog, call, engine, unverified, job>>

EditNote ==
    /\ Spend("change")
    /\ dirty' = TRUE
    /\ sched' = NoteChange(sched)
    /\ Unmoved /\ UNCHANGED <<vault, shared, net, config>>

\* Turning it on publishes nothing; choosing a category publishes the choice.
ConfigToggled ==
    /\ Spend("flip")
    /\ config' = [config EXCEPT !.enabled = ~@]
    /\ Unmoved /\ UNCHANGED <<world, sched>>

ConfigChosen ==
    /\ config.enabled
    /\ Spend("choose")
    /\ config' = Publish([config EXCEPT !.profile = "mine"])
    /\ Unmoved /\ UNCHANGED <<world, sched>>

Retime ==
    /\ Unlocked
    /\ Spend("retime")
    /\ sched' = Retimed(sched, ~sched.pulls)
    /\ Unmoved /\ UNCHANGED <<world, config>>

\* Another device creates the vault, publishes in it, shares its profile.
OtherDevice ==
    /\ Spend("other")
    /\ \/ /\ vault["home"] # "published"
          /\ vault' = [vault EXCEPT !["home"] = IF @ = "absent" THEN "empty" ELSE "published"]
          /\ UNCHANGED shared
       \/ /\ vault["home"] = "published" /\ shared = "none"
          /\ shared' = "theirs" /\ UNCHANGED vault
    /\ Unmoved /\ UNCHANGED <<net, dirty, sched, config>>

NetworkGoes ==
    /\ net = "ok"
    /\ \/ Spend("metered") /\ net' = "metered"
       \/ Spend("lost") /\ net' \in {"offline", "dead"}
    /\ Unmoved /\ UNCHANGED <<vault, shared, dirty, sched, config>>

NetworkReturns ==
    /\ net # "ok" /\ net' = "ok"
    /\ Unmoved /\ UNCHANGED <<vault, shared, dirty, sched, config, left>>

IntervalPasses ==
    /\ sched.since = "soon"
    /\ sched' = Passed(sched)
    /\ Unmoved /\ UNCHANGED <<world, config, left>>

ClockSetBack ==
    /\ sched.on
    /\ Spend("clock")
    /\ sched' = SetBack(sched)
    /\ Unmoved /\ UNCHANGED <<world, config>>

---------------------------------------------------------------------------
UnlockNext(a) ==
    \/ Settled(a) \/ WaitedTooLong(a) \/ OpenStorage(a) \/ OpenVault(a) \/ Verify(a)
    \/ TakeEngine(a) \/ Preflight(a)

JobNext(s) ==
    \/ CheckAnswers(s) \/ ReadAnswers(s) \/ JobFails(s) \/ WriteEnds(s) \/ JobStops(s)

Person ==
    \/ Lock \/ Unload \/ EditField \/ ImportTicket \/ Prompt \/ Mistype \/ CloseDialog
    \/ SyncNow \/ ChoreStart \/ EditNote \/ ConfigToggled \/ ConfigChosen \/ Retime
    \/ \E a \in Attempt : Submit(a)
    \/ \E s \in Slot : Answer(s)

Next ==
    \/ Person
    \/ TicketLost
    \/ \E a \in Attempt : TicketSaved(a) \/ UnlockNext(a)
    \/ \E s \in Slot : JobNext(s) \/ ReadHangs(s)
    \/ ConfigStep \/ TimerFires \/ PeriodicFires
    \/ OtherDevice \/ NetworkGoes \/ NetworkReturns \/ IntervalPasses \/ ClockSetBack

(***************************************************************************)
(* Requests that do not hang are answered, the event loop runs what is     *)
(* due, the network comes back.  Nothing is assumed of the person, of an   *)
(* unlock's own requests or of a clock that was set back.                  *)
(***************************************************************************)
Fairness ==
    /\ \A s \in Slot : WF_vars(JobNext(s))
    /\ \A a \in Attempt : WF_vars(Preflight(a))
    /\ WF_vars(ConfigStep) /\ WF_vars(TimerFires) /\ WF_vars(PeriodicFires)
    /\ WF_vars(NetworkReturns) /\ WF_vars(IntervalPasses)

Spec == Init /\ [][Next]_vars /\ Fairness

---------------------------------------------------------------------------
(***************************************************************************)
(* While a session is open, the sync and the command in flight are its     *)
(* own: nothing of an ended session still works on the vault (ADR-0066,    *)
(* ADR-0081, previousSessionStopped).                                      *)
(***************************************************************************)
OneEngine ==
    Unlocked => \A s \in Slot : job[s] # Nobody => ~job[s].ended

(***************************************************************************)
(* The open engine is on the location the settings show, through edits,    *)
(* tickets and saves that fail while keys are derived (ADR-0065, ADR-0082).*)
(***************************************************************************)
EngineOnShown == Unlocked => engine.loc = shown

(***************************************************************************)
(* An unloaded plugin has no engine, whatever was still deriving keys.     *)
(***************************************************************************)
UnloadedStays == unloaded => ~Unlocked

(***************************************************************************)
(* Nothing is published under a passphrase that was neither proved by a    *)
(* manifest nor typed twice (ADR-0078, ADR-0081 Q3).                       *)
(***************************************************************************)
NothingUncheckedPublished ==
    \A s \in Slot : job[s] # Nobody /\ job[s].phase = "writing" => job[s].proof # "none"

(***************************************************************************)
(* A shared profile file is made only in a session of which a pull has     *)
(* looked for the vault's and completed (ADR-0068).                        *)
(***************************************************************************)
NoBlindProfile ==
    [][config.file = "none" /\ config'.file # "none"
        => config.looked \/ config'.file = shared]_vars

(***************************************************************************)
(* What a lock ended stops: only a write is waited for, and no read that   *)
(* never answers keeps the next unlock out (ADR-0085).                     *)
(***************************************************************************)
EndedStops ==
    \A s \in Slot : (job[s] # Nobody /\ job[s].ended)
                        ~> (job[s] = Nobody \/ ~job[s].ended)

(***************************************************************************)
(* An edit that a trigger is armed for is synced without another edit, for *)
(* all the triggers in between that are declined, come too early or come   *)
(* during a sync, unless a sync waits for an answer, the session ends, or  *)
(* a sync starts and fails with nothing armed: only a declined trigger is  *)
(* armed again (ADR-0047, main.ts:1097-1112).  An edit saved in a session  *)
(* whose scheduler is not there yet may have none, see the README.         *)
(***************************************************************************)
Unsynced == dirty \/ (Syncing /\ job["sync"].carries)

Armed == sched.timer \/ sched.periodic

EditSynced ==
    (Unsynced /\ Armed)
        ~> \/ ~Unlocked \/ ~Unsynced
           \/ Syncing /\ job["sync"].phase \in {"asking", "hung"}
           \/ Syncing /\ job["sync"].phase = "failed" /\ ~Armed
=============================================================================

------------------------------ MODULE Scheduler ------------------------------
(***************************************************************************)
(* The auto-sync scheduler of packages/obsidian-plugin/src/scheduler.ts,   *)
(* as a value and the operations on it.  Delays are abstract: what counts  *)
(* of the clock is how it stands to the start of the last sync.            *)
(***************************************************************************)

(***************************************************************************)
(* How long ago the last sync started, by the wall clock.  Never: none     *)
(* did (-Infinity).  Soon: less than minIntervalMs.  Enough: more.  Ahead: *)
(* in the future, the clock was set back by an unknown amount.             *)
(***************************************************************************)
Since == {"never", "soon", "enough", "ahead"}

\* periodicMs > 0; a debounced or retried trigger is armed; the idle pull is.
AutoSync == [on : BOOLEAN, pulls : BOOLEAN, timer : BOOLEAN, periodic : BOOLEAN,
             since : Since]

\* dispose: no timer survives.
Disposed(s) == [s EXCEPT !.on = FALSE, !.timer = FALSE, !.periodic = FALSE, !.since = "never"]

\* armPeriodic
ArmPeriodic(s) == [s EXCEPT !.periodic = s.on /\ s.pulls]

\* reconfigureScheduler: a new one at an unlock, retimed in place afterwards
\* (setOptions), which keeps what is pending.
Reconfigured(s) == ArmPeriodic([s EXCEPT !.on = TRUE])

Retimed(s, pulls) == ArmPeriodic([s EXCEPT !.pulls = pulls])

NoteChange(s) == [s EXCEPT !.timer = s.on]

NoteSyncStarted(s) == ArmPeriodic([s EXCEPT !.since = IF s.on THEN "soon" ELSE @])

\* Mutation of RetryLater: what is declined waits for the next trigger.
DroppedTrigger(s) == s

\* retryLater: no sync started, so the interval guard is not reset.
RetryLater(s) == [s EXCEPT !.timer = s.on]

\* The timer's callback goes on to the trigger; too soon, it is set again.
Due(s) == s.timer /\ s.since # "soon"

\* A negative gap since the last sync forgets that sync.
Fired(s) == [s EXCEPT !.timer = FALSE, !.since = IF @ = "ahead" THEN "never" ELSE @]

PeriodicFired(s) == [s EXCEPT !.periodic = FALSE]

\* Time: the minimum interval goes by; the wall clock is set back.
Passed(s) == [s EXCEPT !.since = IF @ = "soon" THEN "enough" ELSE @]

SetBack(s) == [s EXCEPT !.since = IF @ = "never" THEN @ ELSE "ahead"]

=============================================================================

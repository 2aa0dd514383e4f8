---------------------------- MODULE SharedConfig ----------------------------
(***************************************************************************)
(* The shared settings profile of a vault (ADR-0024, ADR-0068):            *)
(* reconcileSharedConfig and publishSharedConfig of main.ts with           *)
(* adoptSharedConfig of config-sync-file.ts, on one device.                *)
(*                                                                         *)
(* A profile is a value; what the categories and plugin lists say is not   *)
(* told apart.  `file` is .obsidian's copy of the shared profile, which    *)
(* travels like any note when config sync is on.                           *)
(***************************************************************************)

Profile == {"default", "mine", "theirs"}

Config == [enabled : BOOLEAN,                \* settings.configSync.enabled
           profile : Profile,                \* settings.configSync, otherwise
           file : Profile \cup {"none"},     \* this device's shared profile file
           pulled : BOOLEAN,                 \* configPulled
           looked : BOOLEAN]                 \* ghost: a pull of this session planned
                                             \* with config sync on has completed

\* publishSharedConfig: a file is rewritten, a missing one made after a pull.
Publish(c) ==
    IF c.enabled /\ (c.file # "none" \/ c.pulled)
    THEN [c EXCEPT !.file = c.profile] ELSE c

\* reconcileSharedConfig: adopt the file, or publish when there is none.
Reconcile(c) ==
    IF ~c.enabled THEN c
    ELSE IF c.file = "none" THEN Publish(c)
    ELSE [c EXCEPT !.profile = c.file]

\* A sync starts: with config sync off its pull says nothing of the profile.
SyncStarts(c) == [c EXCEPT !.pulled = @ /\ c.enabled]

\* A pull planned while config sync is on brings the vault's profile along;
\* a file that is there already differs by an edit of its own and is kept.
PullPlanned(c, shared) ==
    IF c.enabled /\ c.file = "none" THEN [c EXCEPT !.file = shared] ELSE c

\* Mutation of PullCompleted: the toggle is read when the pull ends.
PullCompletedNow(c, configOn, looked) ==
    [c EXCEPT !.pulled = @ \/ c.enabled, !.looked = @ \/ looked]

\* The pull completed; `configOn` is the toggle as it was when it started.
PullCompleted(c, configOn, looked) ==
    [c EXCEPT !.pulled = @ \/ configOn, !.looked = @ \/ looked]

SessionOver(c) == [c EXCEPT !.pulled = FALSE, !.looked = FALSE]

=============================================================================

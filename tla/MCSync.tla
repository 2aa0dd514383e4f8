------------------------------- MODULE MCSync -------------------------------
(***************************************************************************)
(* Instances of SyncEngine for TLC: two devices, a few contents, and       *)
(* budgets that let each rare event happen often enough to matter.         *)
(***************************************************************************)
EXTENDS SyncEngine, TLC

\* Every path folds to itself.
SameFold == [p \in Path |-> p]

\* Every path folds to every other: they differ in case only.
OneFold == [p \in Path |-> 0]

\* A breaker that never fires, and one that any destructive operation fires.
QuietTuning == [floor |-> 50, maxFiles |-> 100, fraction |-> 1, fractionOf |-> 1,
                window |-> 1]
EagerTuning == [floor |-> 0, maxFiles |-> 1, fraction |-> 1, fractionOf |-> 1,
                window |-> 1]

KeepAll == [d \in Device |-> 3]

\* Devices that disagree: one keeps a version, the other none.
KeepUneven == [d \in Device |-> IF d = 1 THEN 1 ELSE 0]

WholeVault == {Path}

TwoProfiles == {Path, {}}

Symmetric == Permutations(Hash)

NoFaults == [f \in Fault |-> 0]

\* One of each of these events.
Once(faults) == [f \in Fault |-> IF f \in faults THEN 1 ELSE 0]

Quiet == {NoFaults}

\* Deletions, and jobs that end anywhere.  Restarts from a state file older
\* than the memory was; a storage that loses its newest generation, and a person
\* who accepts that, or drops the base; a user who brings old content back.
\* Entries forgotten, with copies released, a profile changed in between or
\* files that are there and cannot be read; a profile narrowed and widened.
BudgetRestarts == {Once({"delete", "abandon"}),
                   Once({"crash", "unsaved", "rollback"}),
                   Once({"rollback", "forgetBase"}),
                   Once({"crash", "restore", "forgetBase"}),
                   Once({"forget", "release"}),
                   Once({"forget", "profile"}),
                   Once({"forget", "unreadable"}),
                   [NoFaults EXCEPT !["profile"] = 2]}

\* A breaker that asks while the world moves, files that cannot be moved or
\* read, tombstones that expire.
BudgetConfirm == {[Once({"delete", "locked"}) EXCEPT !["preview"] = 2]}

\* An edit while a pull trashes what another user deleted.
BudgetHeld == {Once({"delete"})}
=============================================================================

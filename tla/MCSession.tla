------------------------------ MODULE MCSession ------------------------------
(***************************************************************************)
(* Instances of Session for TLC: bounds on the rare events.  Each line of  *)
(* PassBudgets is one question; together they are one run.                 *)
(***************************************************************************)
EXTENDS Session

Given(budget) == [r \in Rare |-> IF r \in DOMAIN budget THEN budget[r] ELSE 0]

PassBudgets == {
    \* unlocks, dialogs, locks, a command and reads that hang
    Given([submit |-> 2, lock |-> 1, chore |-> 1, hang |-> 1]),
    \* the location moves under an unlock
    Given([submit |-> 1, ticket |-> 1, field |-> 1, fail |-> 1, unload |-> 1]),
    \* the plugin goes away; another device creates the vault and publishes
    Given([submit |-> 2, unload |-> 1, metered |-> 1, other |-> 2]),
    \* the shared profile
    Given([submit |-> 1, lock |-> 1, flip |-> 2, choose |-> 1, other |-> 1]),
    \* questions
    Given([submit |-> 1, ask |-> 3]),
    \* edits, with no idle pull, on a network that syncs are not started on
    Given([submit |-> 1, change |-> 2, metered |-> 1, clock |-> 1]),
    \* edits, with no idle pull, and syncs that fail
    Given([submit |-> 1, change |-> 2, fail |-> 1, clock |-> 1]),
    Given([submit |-> 1, change |-> 2, lost |-> 1]),
    \* edits, with the idle pull, on a network that is lost
    Given([submit |-> 1, change |-> 1, lost |-> 1, fail |-> 1, clock |-> 1, idlePull |-> 1]),
    \* the idle pull is turned on
    Given([submit |-> 1, change |-> 1, retime |-> 1, metered |-> 1])}
=============================================================================

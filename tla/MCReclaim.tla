------------------------------ MODULE MCReclaim ------------------------------
(***************************************************************************)
(* Instances of Reclaim for TLC.                                           *)
(***************************************************************************)
EXTENDS Reclaim

Given(budget) == [f \in Fault |-> IF f \in DOMAIN budget THEN budget[f] ELSE 0]

\* Objects adopted beside a sweep, from a storage that may not answer; content
\* swept and uploaded again after a mark that was not written; jobs that stop
\* half way; clocks that jump; short lists.
SafeBudgets == {
    Given([publish |-> 3, command |-> 2, content |-> 1, adopt |-> 1, overlap |-> 1,
           unanswered |-> 1]),
    Given([publish |-> 3, command |-> 2, content |-> 1, again |-> 1, unsaved |-> 1]),
    Given([publish |-> 2, command |-> 2, content |-> 2, overlap |-> 1, stop |-> 1]),
    Given([publish |-> 2, command |-> 2, content |-> 1, overlap |-> 1, jump |-> 1]),
    Given([publish |-> 3, command |-> 2, content |-> 1, short |-> 1])}

\* A mark that could not be written, and content swept and uploaded again.
UnsavedMark == {
    Given([publish |-> 3, command |-> 3, content |-> 1, again |-> 1, overlap |-> 1, unsaved |-> 1])}
=============================================================================

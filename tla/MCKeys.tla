-------------------------------- MODULE MCKeys --------------------------------
(***************************************************************************)
(* Instances of VaultKeys for TLC.                                         *)
(***************************************************************************)
EXTENDS VaultKeys, TLC

Faults(budget) == [f \in Fault |-> IF f \in DOMAIN budget THEN budget[f] ELSE 0]

AllHonoured == {"ifNoneMatch", "ifMatch"}

\* The keyfile, and two contents under each salt.
SmallKeys == {0} \cup {Address(s, n) : s \in Salt, n \in Contents}

Alike == Permutations(Client)

\* Each line is one question; together they are one run.
PassBudgets == {
    \* 404s for what is there, an answer lost
    Faults([lost |-> 1, lie |-> 2]),
    \* every attempt of a request lost
    Faults([lost |-> 2]),
    \* a captive portal
    Faults([page |-> 1, lost |-> 1]),
    \* listings, with objects stored and swept between their pages
    Faults([torn |-> 1, delete |-> 1]),
    \* a client ends
    Faults([crash |-> 1, lost |-> 1])}
=============================================================================

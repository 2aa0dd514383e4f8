----------------------------- MODULE MCHashCache -----------------------------
(***************************************************************************)
(* Instances of HashCache for TLC: two contents of one length and one of   *)
(* another, a timestamp that lasts two ticks and a second that does too.   *)
(***************************************************************************)
EXTENDS HashCache

Lengths == [c \in Content |-> IF c = 3 THEN 2 ELSE 1]

Given(budget) == [r \in Rare |-> IF r \in DOMAIN budget THEN budget[r] ELSE 0]

\* Saves beside pulls and pushes; other devices that publish twice; a restart
\* and a re-hash between them.
Saves == {Given([edit |-> 2, other |-> 1]),
          Given([edit |-> 1, other |-> 2]),
          Given([edit |-> 1, other |-> 1, crash |-> 1, rehash |-> 1])}

\* A restart, then a re-hash.
Rehash == {Given([crash |-> 1, rehash |-> 1])}
=============================================================================

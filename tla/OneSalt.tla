------------------------------- MODULE OneSalt -------------------------------
(***************************************************************************)
(* What the keyfile promises: a vault gets one salt, once, and a device    *)
(* derives its keys from that salt or has none                             *)
(* (packages/crypto/src/keyfile.ts, openVaultCrypto).                      *)
(***************************************************************************)
CONSTANTS Client, Salt, Nothing

VARIABLES salt, key

Init == salt = Nothing /\ key = [c \in Client |-> Nothing]

Choose == salt = Nothing /\ salt' \in Salt /\ UNCHANGED key

Derive(c) ==
    /\ salt # Nothing /\ key[c] = Nothing
    /\ key' = [key EXCEPT ![c] = salt]
    /\ UNCHANGED salt

Forget(c) == key' = [key EXCEPT ![c] = Nothing] /\ UNCHANGED salt

Next == Choose \/ \E c \in Client : Derive(c) \/ Forget(c)

Spec == Init /\ [][Next]_<<salt, key>>
=============================================================================

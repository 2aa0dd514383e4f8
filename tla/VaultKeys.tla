------------------------------ MODULE VaultKeys ------------------------------
(***************************************************************************)
(* openVaultCrypto of packages/crypto/src/keyfile.ts, on an S3 storage:    *)
(* several devices load or create the keyfile, the only copy of the salt   *)
(* all keys of a vault derive from, and then store, list and sweep objects *)
(* under those keys.                                                       *)
(*                                                                         *)
(* Key 0 is the keyfile and its body the salt.  An object's key is a keyed *)
(* hash of its content, so it says under which salt it was written.        *)
(***************************************************************************)
EXTENDS ObjectStore

CONSTANTS
    MaxSalts,     \* bound: salts ever generated
    Contents,     \* contents a device may store, 1..n with n < 10
    Large         \* those above multipartThreshold

KeyFile == 0
Salt == 1..MaxSalts

Address(salt, n) == 10 * salt + n
SaltOf(k) == k \div 10

ASSUME KeysAssumption ==
    /\ MaxSalts \in Nat /\ Nothing \notin Nat
    /\ Contents \subseteq 1..9
    /\ KeyFile \in Key
    /\ \A salt \in Salt, n \in Contents : Address(salt, n) \in Key

VARIABLES
    pc,           \* [Client -> where openVaultCrypto is]
    key,          \* [Client -> the salt its keys derive from, or Nothing]
    drawn         \* salts generated so far

keyVars == <<pc, key, drawn>>
vars == <<storeVars, keyVars>>

Init ==
    /\ StoreInit
    /\ pc = [c \in Client |-> "closed"]
    /\ key = [c \in Client |-> Nothing]
    /\ drawn = 0

To(c, where) == pc' = [pc EXCEPT ![c] = where]

Stop(c) == To(c, "closed") /\ UNCHANGED key

\* The params parsed and affordable, the keys derive from what was read.
Learn(c) ==
    /\ key' = [key EXCEPT ![c] = objects[KeyFile]]
    /\ To(c, "open")

OnlyReads == UNCHANGED <<objects, uploads, op, mess, removed, throughout>>

Open(c) ==
    /\ pc[c] = "closed"
    /\ To(c, "first")
    /\ UNCHANGED <<storeVars, key, drawn>>

\* A GET of the keyfile; `absent` is where a 404 leads, true or not.
Look(c, absent) ==
    /\ \/ objects[KeyFile] # Nothing /\ Learn(c) /\ UNCHANGED left
       \/ objects[KeyFile] = Nothing /\ absent /\ UNCHANGED left
       \/ objects[KeyFile] # Nothing /\ Spend("lie") /\ absent
       \/ (Spend("lost") \/ Spend("page")) /\ Stop(c)
    /\ OnlyReads /\ UNCHANGED drawn

FirstLook(c) == pc[c] = "first" /\ Look(c, To(c, "second") /\ UNCHANGED key)

\* Gate 1: one more read before believing it is not there.
SecondLook(c) == pc[c] = "second" /\ Look(c, To(c, "gate") /\ UNCHANGED key)

\* refuseIfVaultHasContent lists one key and stops.
VaultHasContent == Present # {}

(***************************************************************************)
(* Gate 2: ciphertext without a salt is never a vault to initialize, and a *)
(* person may not have asked for a new one.                                *)
(***************************************************************************)
Gate(c) ==
    /\ pc[c] = "gate"
    /\ \/ /\ Stop(c)
          /\ UNCHANGED <<storeVars, drawn>>
       \/ /\ ~VaultHasContent /\ drawn < MaxSalts
          /\ drawn' = drawn + 1
          /\ Goes(c, PutOp(KeyFile, drawn + 1, TRUE, FALSE))
          /\ To(c, "creating")
          /\ UNCHANGED <<objects, uploads, mess, removed, throughout, left, key>>

\* Mutation of Created: it was stored, so it is ours that won.
TrustOwn(c) ==
    /\ pc[c] = "creating" /\ op[c].phase \in Ended
    /\ Goes(c, NoOp)
    /\ IF op[c].phase = "failed" THEN Stop(c)
       ELSE To(c, "open") /\ key' = [key EXCEPT ![c] = op[c].body]
    /\ UNCHANGED <<objects, uploads, mess, removed, throughout, left, drawn>>

\* Stored, or somebody else's was first: either way it is read back.
Created(c) ==
    /\ pc[c] = "creating" /\ op[c].phase \in Ended
    /\ Goes(c, NoOp)
    /\ To(c, IF op[c].phase = "failed" THEN "closed" ELSE "reading")
    /\ UNCHANGED <<objects, uploads, mess, removed, throughout, left, key, drawn>>

ReadBack(c) == pc[c] = "reading" /\ Look(c, Stop(c))

---------------------------------------------------------------------------
(* What an open device does with its keys.                                 *)

(***************************************************************************)
(* applyRemoteOps: an object the probe finds is not stored again; when the *)
(* probe is not answered the put is guarded, where it can be.              *)
(***************************************************************************)
Upload(c) ==
    /\ pc[c] = "open"
    /\ \E n \in Contents :
         LET k == Address(key[c], n) IN
         \/ /\ objects[k] = Nothing
            /\ Goes(c, PutOp(k, key[c], FALSE, n \in Large)) /\ UNCHANGED left
         \/ Spend("lost") /\ Goes(c, PutOp(k, key[c], TRUE, n \in Large))
    /\ To(c, "working")
    /\ UNCHANGED <<objects, uploads, mess, removed, throughout, key, drawn>>

List(c) ==
    /\ pc[c] = "open"
    /\ ListStart(c)
    /\ To(c, "working")
    /\ UNCHANGED <<key, drawn>>

Worked(c) ==
    /\ pc[c] = "working" /\ op[c].phase \in Ended
    /\ Goes(c, NoOp)
    /\ To(c, "open")
    /\ UNCHANGED <<objects, uploads, mess, removed, throughout, left, key, drawn>>

SweepObject(c) ==
    /\ pc[c] = "open"
    /\ \E n \in Contents : Delete(Address(key[c], n))
    /\ UNCHANGED keyVars

\* The process ends, with what it had in flight.
Crash(c) ==
    /\ pc[c] # "closed"
    /\ Spend("crash")
    /\ To(c, "closed")
    /\ key' = [key EXCEPT ![c] = Nothing]
    /\ Goes(c, NoOp)
    /\ mess' = mess \cup {<<i, "crash">> : i \in op[c].mine}
    /\ UNCHANGED <<objects, uploads, removed, throughout, drawn>>

Step(c) ==
    \/ Open(c) \/ FirstLook(c) \/ SecondLook(c) \/ Gate(c) \/ Created(c) \/ ReadBack(c)
    \/ Upload(c) \/ List(c) \/ Worked(c) \/ SweepObject(c) \/ Crash(c)
    \/ Request(c) /\ UNCHANGED keyVars

Next == \E c \in Client : Step(c)

Spec == Init /\ [][Next]_vars

---------------------------------------------------------------------------
(***************************************************************************)
(* Where the backend honours conditional writes, devices that open a new   *)
(* vault at once, over lost answers, retries and 404s for what is there,   *)
(* agree on one salt, chosen once.                                         *)
(***************************************************************************)
Abstract == INSTANCE OneSalt WITH salt <- objects[KeyFile]

SaltChosenOnce == Abstract!Spec

(***************************************************************************)
(* What is stored can be read with the salt that is stored: no object was  *)
(* written under a salt that another one replaced.                         *)
(***************************************************************************)
Readable == \A k \in Present : SaltOf(k) = objects[KeyFile]
=============================================================================

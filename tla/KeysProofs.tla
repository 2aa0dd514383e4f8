------------------------------ MODULE KeysProofs ------------------------------
(***************************************************************************)
(* Proofs about VaultKeys, for every number of clients, salts, contents,   *)
(* faults and retries.  On a backend that honours conditional writes one   *)
(* salt is chosen, once, and every object is one it can read; on any, what *)
(* a put stores is there and what a listing returns is whole.              *)
(***************************************************************************)
EXTENDS VaultKeys, FiniteSetTheorems, WellFoundedInduction, TLAPS

(***************************************************************************)
(* The inductive invariant.  A put that may still write is the guarded one *)
(* of a keyfile, or one of an object under the salt that is stored.  Once  *)
(* there is a salt nothing replaces it, and until then nobody has keys and *)
(* nothing but keyfiles is being written.                                  *)
(***************************************************************************)
Writes(o) == o.phase \in {"putting", "confirming", "initiating", "tidying", "sweeping",
                          "parting", "completing", "aborting"}

KeyFilePut(o) == /\ o.key = KeyFile /\ o.guarded = TRUE /\ o.id = 0
                 /\ o.phase \in {"putting", "confirming"}
                 /\ o.body \in Salt

ObjectPut(o, salt) == /\ o.key # KeyFile /\ o.key \in Key
                      /\ o.body \in Salt /\ o.body = salt /\ SaltOf(o.key) = salt

Sound(o, salt) == Writes(o) => KeyFilePut(o) \/ ObjectPut(o, salt)

\* A record with the fields of an operation.
Record(o) ==
    o = [phase |-> o.phase, key |-> o.key, body |-> o.body, guarded |-> o.guarded,
         tries |-> o.tries, id |-> o.id, mine |-> o.mine, strays |-> o.strays,
         sent |-> o.sent, torn |-> o.torn, token |-> o.token, seen |-> o.seen]

Shape == /\ objects = [k \in Key |-> objects[k]]
         /\ op = [c \in Client |-> op[c]]
         /\ key = [c \in Client |-> key[c]]
         /\ pc = [c \in Client |-> pc[c]]
         /\ drawn \in Nat
         /\ \A c \in Client : Record(op[c])

SaltKept == objects[KeyFile] \in Salt \cup {Nothing}

KeyedWhenOpen == \A c \in Client : pc[c] \in {"open", "working"} => key[c] # Nothing

KeysAgree == \A c \in Client : key[c] # Nothing => key[c] = objects[KeyFile]

PutsSound == \A c \in Client : Sound(op[c], objects[KeyFile])

Inv == Shape /\ SaltKept /\ KeyedWhenOpen /\ KeysAgree /\ PutsSound /\ Readable

(***************************************************************************)
(* Arithmetic of keys.                                                     *)
(***************************************************************************)
LEMMA AddressSalt ==
    ASSUME NEW s \in Salt, NEW n \in Contents
    PROVE  /\ Address(s, n) \in Key /\ Address(s, n) # KeyFile
           /\ SaltOf(Address(s, n)) = s
  <1>1. s \in Nat /\ n \in 1..9  BY KeysAssumption DEF Salt
  <1>2. (10 * s + n) \div 10 = s  BY <1>1
  <1> QED  BY <1>1, <1>2, KeysAssumption DEF Address, SaltOf, KeyFile

\* An object key is made under some salt, and no salt is Nothing.
LEMMA KeysAreNumbers == ASSUME NEW k \in Key PROVE SaltOf(k) \in Nat /\ SaltOf(k) # Nothing
  BY StoreAssumption, KeysAssumption DEF SaltOf

\* A salt is never mistaken for no salt.
LEMMA SaltsAreNumbers == Nothing \notin Salt
  BY KeysAssumption DEF Salt

\* A vault nobody has opened satisfies the invariant.
THEOREM InitInv == Init => Inv
  <1> SUFFICES ASSUME Init PROVE Inv  OBVIOUS
  <1> USE DEF Init, StoreInit
  <1>1. KeyFile \in Key  BY KeysAssumption
  <1>2. objects[KeyFile] = Nothing  BY <1>1
  <1>3. Shape  BY DEF Shape, Record, NoOp
  <1>4. KeysAgree /\ KeyedWhenOpen  BY DEF KeysAgree, KeyedWhenOpen
  <1>5. PutsSound  BY DEF PutsSound, Sound, Writes, NoOp
  <1>6. Readable  BY DEF Readable, Present
  <1> QED  BY <1>2, <1>3, <1>4, <1>5, <1>6 DEF Inv, SaltKept

---------------------------------------------------------------------------
(* A request's step: what it makes of the operation.                       *)

Continues(o, next) ==
    /\ Record(next)
    /\ Writes(next) \/ next.phase = "stored"
         => Writes(o) /\ next.key = o.key /\ next.body = o.body
    /\ Writes(next) /\ KeyFilePut(o) => KeyFilePut(next)
    /\ next.phase = "stored" => o.phase \in {"putting", "confirming", "completing"}
    /\ next.phase \in {"paging", "listed"} => o.phase = "paging"

\* What an update of other fields keeps.
Keeps(o, next) == Record(next) /\ next.key = o.key /\ next.body = o.body

\* An update of one field but key and body keeps both.
LEMMA Updates ==
    ASSUME NEW o, Record(o), NEW v
    PROVE  /\ Keeps(o, [o EXCEPT !.phase = v])  /\ Keeps(o, [o EXCEPT !.tries = v])
           /\ Keeps(o, [o EXCEPT !.id = v])     /\ Keeps(o, [o EXCEPT !.mine = v])
           /\ Keeps(o, [o EXCEPT !.strays = v]) /\ Keeps(o, [o EXCEPT !.sent = v])
           /\ Keeps(o, [o EXCEPT !.torn = v])   /\ Keeps(o, [o EXCEPT !.token = v])
           /\ Keeps(o, [o EXCEPT !.seen = v])
  BY DEF Keeps, Record

\* And so do the pairs of updates a listing makes.
LEMMA UpdateTwice ==
    ASSUME NEW o, Record(o), NEW v, NEW w
    PROVE  /\ Keeps(o, [o EXCEPT !.phase = v, !.strays = w])
           /\ Keeps(o, [[o EXCEPT !.seen = v] EXCEPT !.phase = w])
           /\ Keeps(o, [[o EXCEPT !.seen = v] EXCEPT !.token = w])
  <1>1. Keeps(o, [o EXCEPT !.phase = v, !.strays = w])
    <2> DEFINE y == [o EXCEPT !.phase = v]
    <2>1. Keeps(o, y)  BY Updates
    <2>2. [o EXCEPT !.phase = v, !.strays = w] = [y EXCEPT !.strays = w]  OBVIOUS
    <2> HIDE DEF y
    <2>3. Keeps(y, [y EXCEPT !.strays = w])  BY <2>1, Updates DEF Keeps
    <2> QED  BY <2>1, <2>2, <2>3 DEF Keeps
  <1>2. ASSUME NEW y, Keeps(o, y)
        PROVE  Keeps(o, [y EXCEPT !.phase = w]) /\ Keeps(o, [y EXCEPT !.token = w])
    <2>1. Keeps(y, [y EXCEPT !.phase = w]) /\ Keeps(y, [y EXCEPT !.token = w])
      BY <1>2, Updates DEF Keeps
    <2> QED  BY <1>2, <2>1 DEF Keeps
  <1>3. Keeps(o, [o EXCEPT !.seen = v])  BY Updates
  <1> QED  BY <1>1, <1>2, <1>3

\* The two updates that set more: of initiate, and of a part.
LEMMA UpdateMore ==
    ASSUME NEW o, Record(o), NEW phase, NEW id, NEW mine, NEW tries, NEW sent
    PROVE  /\ Keeps(o, [o EXCEPT !.phase = phase, !.id = id, !.mine = mine, !.tries = tries])
           /\ Keeps(o, [o EXCEPT !.sent = sent, !.tries = tries, !.phase = phase])
  <1>1. ASSUME NEW y, Keeps(o, y)
        PROVE  /\ \A v : Keeps(o, [y EXCEPT !.phase = v]) /\ Keeps(o, [y EXCEPT !.mine = v])
               /\ \A v : Keeps(o, [y EXCEPT !.id = v]) /\ Keeps(o, [y EXCEPT !.tries = v])
    <2> SUFFICES ASSUME NEW v
                 PROVE  /\ Keeps(o, [y EXCEPT !.phase = v]) /\ Keeps(o, [y EXCEPT !.mine = v])
                        /\ Keeps(o, [y EXCEPT !.id = v]) /\ Keeps(o, [y EXCEPT !.tries = v])
      OBVIOUS
    <2>1. Record(y)  BY <1>1 DEF Keeps
    <2>2. /\ Keeps(y, [y EXCEPT !.phase = v]) /\ Keeps(y, [y EXCEPT !.mine = v])
          /\ Keeps(y, [y EXCEPT !.id = v]) /\ Keeps(y, [y EXCEPT !.tries = v])
      BY <2>1, Updates
    <2> QED  BY <1>1, <2>2 DEF Keeps
  <1>2. Keeps(o, [o EXCEPT !.phase = phase, !.id = id, !.mine = mine, !.tries = tries])
    <2> DEFINE a == [o EXCEPT !.phase = phase]
               b == [a EXCEPT !.id = id]
               d == [b EXCEPT !.mine = mine]
    <2>1. [o EXCEPT !.phase = phase, !.id = id, !.mine = mine, !.tries = tries]
            = [d EXCEPT !.tries = tries]
      OBVIOUS
    <2>2. Keeps(o, a)  BY Updates
    <2> HIDE DEF a
    <2>3. Keeps(o, b)  BY <1>1, <2>2
    <2> HIDE DEF b
    <2>4. Keeps(o, d)  BY <1>1, <2>3
    <2> HIDE DEF d
    <2>5. Keeps(o, [d EXCEPT !.tries = tries])  BY <1>1, <2>4
    <2> QED  BY <2>1, <2>5
  <1>3. Keeps(o, [o EXCEPT !.sent = sent, !.tries = tries, !.phase = phase])
    <2> DEFINE a == [o EXCEPT !.sent = sent]
               b == [a EXCEPT !.tries = tries]
    <2>1. [o EXCEPT !.sent = sent, !.tries = tries, !.phase = phase]
            = [b EXCEPT !.phase = phase]
      OBVIOUS
    <2>2. Keeps(o, a)  BY Updates
    <2> HIDE DEF a
    <2>3. Keeps(o, b)  BY <1>1, <2>2
    <2> HIDE DEF b
    <2>4. Keeps(o, [b EXCEPT !.phase = phase])  BY <1>1, <2>3
    <2> QED  BY <2>1, <2>4
  <1> QED  BY <1>2, <1>3

\* What follows from a sound operation is sound.
LEMMA ContinuesSound ==
    ASSUME NEW o, NEW next, NEW salt, Sound(o, salt), Continues(o, next)
    PROVE  Sound(next, salt)
  BY DEF Sound, Continues, ObjectPut

\* withRetry sends the same request or ends the operation.
LEMMA RetriedContinues ==
    ASSUME NEW o, Record(o), NEW exhausted, KeyFilePut(o) => exhausted = "failed",
           exhausted \in {"failed", "aborting"}, Writes(o)
    PROVE  Continues(o, Retried(o, exhausted))
  BY DEF Record, Retried, Continues, Writes, KeyFilePut

\* Only the operation of this client changes.
LEMMA GoesTo ==
    ASSUME Shape, NEW c \in Client, NEW o, Goes(c, o)
    PROVE  op'[c] = o /\ op' = [op EXCEPT ![c] = op'[c]]
  BY DEF Shape, Goes

\* A PUT sends the same body again or ends (storage.ts, put).
LEMMA PutContinues ==
    ASSUME Shape, NEW c \in Client, Put(c)
    PROVE  Continues(op[c], op'[c]) /\ op' = [op EXCEPT ![c] = op'[c]]
  <1> DEFINE o == op[c]
             refused == o.guarded /\ objects[o.key] # Nothing
  <1> HIDE DEF refused
  <1>1. Record(o) /\ Writes(o) /\ o.phase = "putting"  BY DEF Shape, Put, Writes
  <1>2. CASE Goes(c, [o EXCEPT !.phase = IF refused THEN "exists" ELSE "stored"])
    BY <1>1, <1>2, GoesTo DEF Continues, Record, Writes
  <1>3. CASE Goes(c, Retried(o, "failed"))
    BY <1>1, <1>3, GoesTo, RetriedContinues
  <1>4. CASE Goes(c, [o EXCEPT !.phase = "confirming"])
    BY <1>1, <1>4, GoesTo DEF Continues, Record, Writes, KeyFilePut
  <1> QED  BY <1>2, <1>3, <1>4 DEF Put, refused

\* confirmStored leads back to the same body or ends.
LEMMA ConfirmContinues ==
    ASSUME Shape, NEW c \in Client, Confirm(c)
    PROVE  Continues(op[c], op'[c]) /\ op' = [op EXCEPT ![c] = op'[c]]
  <1> DEFINE o == op[c]
             again == [o EXCEPT !.phase = IF o.id = 0 THEN "putting" ELSE "completing"]
  <1>1. Record(o) /\ Writes(o) /\ o.phase = "confirming"  BY DEF Shape, Confirm, Writes
  <1>2. Thrown(o) \in {"failed", "aborting"} /\ (KeyFilePut(o) => Thrown(o) = "failed")
    BY DEF Thrown, KeyFilePut
  <1>3. CASE Goes(c, [o EXCEPT !.phase = IF Confirmed(o) THEN "stored" ELSE Thrown(o)])
    <2>1. op'[c] = [o EXCEPT !.phase = "stored"] \/ op'[c] = [o EXCEPT !.phase = Thrown(o)]
      BY <1>3, GoesTo
    <2> QED  BY <1>1, <1>2, <1>3, <2>1, GoesTo DEF Continues, Record, Writes
  <1>4. CASE Goes(c, Retried(again, Thrown(o)))
    <2>1. Record(again) /\ Writes(again) /\ (KeyFilePut(o) <=> KeyFilePut(again))
          /\ again.key = o.key /\ again.body = o.body
      BY <1>1 DEF Record, Writes, KeyFilePut
    <2>2. Continues(again, Retried(again, Thrown(o)))  BY <1>2, <2>1, RetriedContinues
    <2>3. Continues(o, Retried(again, Thrown(o)))
      BY <1>1, <2>1, <2>2 DEF Continues
    <2> QED  BY <1>4, <2>3, GoesTo
  <1> QED  BY <1>3, <1>4 DEF Confirm

\* A multipart upload keeps its key and body to its end (multipartPut).
LEMMA MultipartContinues ==
    ASSUME Shape, NEW c \in Client,
           Initiate(c) \/ Tidy(c) \/ Sweep(c) \/ Part(c) \/ Complete(c) \/ AbortOwn(c)
    PROVE  Continues(op[c], op'[c]) /\ op' = [op EXCEPT ![c] = op'[c]]
  <1> DEFINE o == op[c]
  <1>1. Record(o)  BY DEF Shape
  <1>2. ~KeyFilePut(o) /\ Writes(o)
    BY DEF Initiate, Tidy, Sweep, Part, Complete, AbortOwn, KeyFilePut, Writes
  <1>3. CASE Initiate(c)
    <2> DEFINE known(ids) == [o EXCEPT !.mine = ids]
    <2>1. ASSUME NEW ids, Goes(c, Retried(known(ids), "failed"))
          PROVE  Continues(o, op'[c]) /\ op' = [op EXCEPT ![c] = op'[c]]
      <3>1. /\ Record(known(ids)) /\ Writes(known(ids))
            /\ known(ids).key = o.key /\ known(ids).body = o.body
        BY <1>1, <1>2 DEF Record, Writes
      <3>2. Continues(known(ids), Retried(known(ids), "failed"))
        BY <3>1, RetriedContinues
      <3>3. Continues(o, Retried(known(ids), "failed"))
        BY <1>2, <3>1, <3>2 DEF Continues
      <3> QED  BY <2>1, <3>3, GoesTo
    <2>2. ASSUME NEW ids, NEW i, NEW phase, phase \in {"tidying", "parting"},
                 Goes(c, [o EXCEPT !.phase = phase, !.id = i, !.mine = ids, !.tries = 0])
          PROVE  Continues(o, op'[c]) /\ op' = [op EXCEPT ![c] = op'[c]]
      <3> DEFINE x == [o EXCEPT !.phase = phase, !.id = i, !.mine = ids, !.tries = 0]
      <3>1. Keeps(o, x)  BY <1>1, UpdateMore
      <3>2. op'[c] = x /\ op' = [op EXCEPT ![c] = op'[c]]  BY <2>2, GoesTo
      <3>3. x.phase = phase  BY <1>1 DEF Record
      <3> HIDE DEF x
      <3> QED  BY <1>2, <2>2, <3>1, <3>2, <3>3 DEF Continues, Keeps
    <2>3. ASSUME Goes(c, [o EXCEPT !.phase = "tidying"])
          PROVE  Continues(o, op'[c]) /\ op' = [op EXCEPT ![c] = op'[c]]
      BY <1>1, <1>2, <2>3, GoesTo DEF Continues, Record, Writes
    <2> QED  BY <1>3, <2>1, <2>2, <2>3 DEF Initiate
  <1>4. CASE Tidy(c)
    <2>1. ASSUME NEW ids, Goes(c, [o EXCEPT !.phase = "sweeping", !.strays = ids])
          PROVE  Continues(o, op'[c]) /\ op' = [op EXCEPT ![c] = op'[c]]
      <3> DEFINE x == [o EXCEPT !.phase = "sweeping", !.strays = ids]
      <3>1. Keeps(o, x)  BY <1>1, UpdateTwice
      <3>2. op'[c] = x /\ op' = [op EXCEPT ![c] = op'[c]]  BY <2>1, GoesTo
      <3> QED  BY <1>2, <3>1, <3>2 DEF Continues, Keeps
    <2>2. ASSUME Goes(c, AfterTidying(o))
          PROVE  Continues(o, op'[c]) /\ op' = [op EXCEPT ![c] = op'[c]]
      BY <1>1, <1>2, <2>2, GoesTo DEF AfterTidying, Continues, Record, Writes
    <2> QED  BY <1>4, <2>1, <2>2 DEF Tidy
  <1>5. CASE Sweep(c)
    <2> DEFINE i == Min(o.strays)
    <2> HIDE DEF i
    <2>1. Goes(c, AfterTidying(o)) \/ Goes(c, [o EXCEPT !.strays = @ \ {i}])
      BY <1>5 DEF Sweep, i
    <2> QED  BY <1>1, <1>2, <2>1, GoesTo DEF AfterTidying, Continues, Record, Writes
  <1>6. CASE Part(c)
    <2> DEFINE next == IF o.sent + 1 = Parts THEN "completing" ELSE "parting"
               sent == [o EXCEPT !.sent = @ + 1, !.tries = 0, !.phase = next]
    <2>1. next \in {"completing", "parting"}  OBVIOUS
    <2> HIDE DEF next
    <2>2. \/ Goes(c, sent) \/ Goes(c, [o EXCEPT !.phase = "aborting"])
          \/ Goes(c, Retried(o, "aborting")) \/ Goes(c, [sent EXCEPT !.torn = TRUE])
      BY <1>6 DEF Part, next
    <2>3. CASE Goes(c, sent)
      <3>1. Keeps(o, sent)  BY <1>1, UpdateMore
      <3>2. op'[c] = sent /\ op' = [op EXCEPT ![c] = op'[c]]  BY <2>3, GoesTo
      <3>3. sent.phase = next  BY <1>1 DEF Record
      <3> HIDE DEF sent
      <3> QED  BY <1>2, <2>1, <3>1, <3>2, <3>3 DEF Continues, Keeps
    <2>4. CASE Goes(c, [o EXCEPT !.phase = "aborting"])
      BY <1>1, <1>2, <2>4, GoesTo DEF Continues, Record, Writes
    <2>5. CASE Goes(c, Retried(o, "aborting"))
      BY <1>1, <1>2, <2>5, GoesTo, RetriedContinues
    <2>6. CASE Goes(c, [sent EXCEPT !.torn = TRUE])
      <3> DEFINE torn == [sent EXCEPT !.torn = TRUE]
      <3>1. Keeps(o, sent)  BY <1>1, UpdateMore
      <3>2. op'[c] = torn /\ op' = [op EXCEPT ![c] = op'[c]]  BY <2>6, GoesTo
      <3>3. sent.phase = next  BY <1>1 DEF Record
      <3> HIDE DEF sent
      <3>4. Keeps(sent, torn)  BY <3>1, Updates DEF Keeps
      <3>5. torn.phase = next  BY <3>1, <3>3 DEF Keeps, Record
      <3> HIDE DEF torn
      <3> QED  BY <1>2, <2>1, <3>1, <3>2, <3>4, <3>5 DEF Continues, Keeps
    <2> QED  BY <2>2, <2>3, <2>4, <2>5, <2>6
  <1>7. CASE Complete(c)
    <2>1. /\ o.phase = "completing"
          /\ \/ Goes(c, [o EXCEPT !.phase = "stored"])
             \/ Goes(c, [o EXCEPT !.phase = "aborting"])
             \/ Goes(c, Retried(o, "aborting"))
             \/ Goes(c, [o EXCEPT !.phase = "confirming"])
      BY <1>7 DEF Complete
    <2>2. CASE Goes(c, Retried(o, "aborting"))
      BY <1>1, <1>2, <2>2, GoesTo, RetriedContinues
    <2> QED  BY <1>1, <1>2, <2>1, <2>2, GoesTo DEF Continues, Record, Writes
  <1>8. CASE AbortOwn(c)
    BY <1>1, <1>2, <1>8, GoesTo DEF AbortOwn, Continues, Record, Writes
  <1> QED  BY <1>3, <1>4, <1>5, <1>6, <1>7, <1>8

\* A listing never turns into a write (list).
LEMMA ListPageContinues ==
    ASSUME Shape, NEW c \in Client, ListPage(c)
    PROVE  Continues(op[c], op'[c]) /\ op' = [op EXCEPT ![c] = op'[c]]
  <1> DEFINE o == op[c]
  <1>1. Record(o) /\ o.phase = "paging"  BY DEF Shape, ListPage
  <1>2. ASSUME NEW seen, Goes(c, [[o EXCEPT !.seen = seen] EXCEPT !.phase = "listed"])
        PROVE  Continues(o, op'[c]) /\ op' = [op EXCEPT ![c] = op'[c]]
    <2> DEFINE x == [[o EXCEPT !.seen = seen] EXCEPT !.phase = "listed"]
    <2>1. Keeps(o, x)  BY <1>1, UpdateTwice
    <2>2. x.phase = "listed"  BY <1>1 DEF Record
    <2>3. op'[c] = x /\ op' = [op EXCEPT ![c] = op'[c]]  BY <1>2, GoesTo
    <2> HIDE DEF x
    <2> QED  BY <1>1, <2>1, <2>2, <2>3 DEF Continues, Keeps, Writes
  <1>3. ASSUME NEW seen, NEW token, Goes(c, [[o EXCEPT !.seen = seen] EXCEPT !.token = token])
        PROVE  Continues(o, op'[c]) /\ op' = [op EXCEPT ![c] = op'[c]]
    <2> DEFINE x == [[o EXCEPT !.seen = seen] EXCEPT !.token = token]
    <2>1. Keeps(o, x)  BY <1>1, UpdateTwice
    <2>2. x.phase = "paging"  BY <1>1 DEF Record
    <2>3. op'[c] = x /\ op' = [op EXCEPT ![c] = op'[c]]  BY <1>3, GoesTo
    <2> HIDE DEF x
    <2> QED  BY <1>1, <2>1, <2>2, <2>3 DEF Continues, Keeps, Writes
  <1>4. ASSUME Goes(c, [o EXCEPT !.phase = "failed"])
        PROVE  Continues(o, op'[c]) /\ op' = [op EXCEPT ![c] = op'[c]]
    BY <1>1, <1>4, GoesTo DEF Continues, Record, Writes
  <1> QED  BY <1>2, <1>3, <1>4 DEF ListPage, TornPage

\* No request changes what an operation writes, or where.
LEMMA RequestContinues ==
    ASSUME Shape, NEW c \in Client, Request(c)
    PROVE  Continues(op[c], op'[c]) /\ op' = [op EXCEPT ![c] = op'[c]]
  BY PutContinues, ConfirmContinues, MultipartContinues, ListPageContinues DEF Request

---------------------------------------------------------------------------
(* The other steps: what starts and what ends an operation.                *)

\* A client without an operation writes nothing.
LEMMA NoOpRests == Record(NoOp) /\ ~Writes(NoOp)
  BY DEF Record, NoOp, Writes

\* A listing writes nothing.
LEMMA PagingRests ==
    /\ Record([NoOp EXCEPT !.phase = "paging"]) /\ ~Writes([NoOp EXCEPT !.phase = "paging"])
  <1>1. Keeps(NoOp, [NoOp EXCEPT !.phase = "paging"])  BY NoOpRests, Updates
  <1>2. [NoOp EXCEPT !.phase = "paging"].phase = "paging"  BY DEF NoOp
  <1> QED  BY <1>1, <1>2 DEF Keeps, Writes

\* The operation a put starts as.
LEMMA PutOpIs ==
    ASSUME NEW k, NEW body, NEW guarded, NEW large
    PROVE  /\ Record(PutOp(k, body, guarded, large))
           /\ PutOp(k, body, guarded, large).key = k
           /\ PutOp(k, body, guarded, large).body = body
           /\ PutOp(k, body, guarded, large).id = 0
           /\ PutOp(k, body, guarded, large).mine = {}
           /\ PutOp(k, body, guarded, large).tries = 0
           /\ PutOp(k, body, guarded, large).guarded = (guarded /\ ConditionalWrites)
           /\ PutOp(k, body, guarded, large).phase =
                IF large /\ ~(guarded /\ ConditionalWrites) THEN "initiating" ELSE "putting"
  <1> DEFINE phase == IF large /\ ~(guarded /\ ConditionalWrites) THEN "initiating"
                      ELSE "putting"
             g == guarded /\ ConditionalWrites
             w == [NoOp EXCEPT !.phase = phase]
             x == [w EXCEPT !.key = k]
             y == [x EXCEPT !.body = body]
             z == [y EXCEPT !.guarded = g]
  <1>1. PutOp(k, body, guarded, large) = z  BY DEF PutOp
  <1> HIDE DEF phase, g
  <1>2. Record(NoOp) /\ NoOp.id = 0 /\ NoOp.mine = {} /\ NoOp.tries = 0
    BY NoOpRests DEF NoOp
  <1>3. Record(w) /\ w.id = 0 /\ w.mine = {} /\ w.tries = 0 /\ w.phase = phase  BY <1>2 DEF Record
  <1> HIDE DEF w
  <1>4. Record(x) /\ x.id = 0 /\ x.mine = {} /\ x.tries = 0 /\ x.phase = phase /\ x.key = k
    BY <1>3 DEF Record
  <1> HIDE DEF x
  <1>5. /\ Record(y) /\ y.id = 0 /\ y.mine = {} /\ y.tries = 0
        /\ y.phase = phase /\ y.key = k /\ y.body = body
    BY <1>4 DEF Record
  <1> HIDE DEF y
  <1>6. /\ Record(z) /\ z.id = 0 /\ z.mine = {} /\ z.tries = 0
        /\ z.phase = phase /\ z.key = k /\ z.body = body /\ z.guarded = g
    BY <1>5 DEF Record
  <1> HIDE DEF z
  <1> QED  BY <1>1, <1>6 DEF phase, g

\* The put of a new salt starts out guarded (openVaultCrypto, ifNoneMatch).
LEMMA KeyFilePutStarts ==
    ASSUME ConditionalWrites, NEW salt \in Salt, NEW stored
    PROVE  Record(PutOp(KeyFile, salt, TRUE, FALSE))
           /\ Sound(PutOp(KeyFile, salt, TRUE, FALSE), stored)
  <1> DEFINE yes == TRUE
             no == FALSE
             o == PutOp(KeyFile, salt, yes, no)
  <1>1. yes /\ ~no  OBVIOUS
  <1> HIDE DEF yes, no
  <1>2. /\ Record(o) /\ o.key = KeyFile /\ o.body = salt /\ o.id = 0
        /\ o.guarded = (yes /\ ConditionalWrites)
        /\ o.phase = IF no /\ ~(yes /\ ConditionalWrites) THEN "initiating" ELSE "putting"
    BY PutOpIs
  <1>3. o.guarded = TRUE /\ o.phase = "putting"  BY <1>1, <1>2
  <1> HIDE DEF o
  <1>4. Sound(o, stored)  BY <1>2, <1>3 DEF Sound, KeyFilePut
  <1> QED  BY <1>2, <1>4 DEF o, yes, no

\* An object is put under the salt its key was made with.
LEMMA ObjectPutStarts ==
    ASSUME NEW salt \in Salt, NEW n \in Contents, NEW guarded, NEW large
    PROVE  /\ Record(PutOp(Address(salt, n), salt, guarded, large))
           /\ Sound(PutOp(Address(salt, n), salt, guarded, large), salt)
  <1> DEFINE o == PutOp(Address(salt, n), salt, guarded, large)
  <1>1. Record(o) /\ o.key = Address(salt, n) /\ o.body = salt
    BY PutOpIs
  <1> HIDE DEF o
  <1>2. Sound(o, salt)  BY <1>1, AddressSalt DEF Sound, ObjectPut
  <1> QED  BY <1>1, <1>2 DEF o

(***************************************************************************)
(* A request writes the keyfile only if there is none, and objects only    *)
(* under the salt that is stored.                                          *)
(***************************************************************************)
LEMMA RequestObjects ==
    ASSUME Inv, NEW c \in Client, Request(c)
    PROVE  \/ objects' = objects
           \/ /\ objects' = [objects EXCEPT ![op[c].key] = op[c].body]
              /\ \/ KeyFilePut(op[c]) /\ objects[KeyFile] = Nothing
                 \/ ObjectPut(op[c], objects[KeyFile])
  <1> DEFINE o == op[c]
  <1>1. Sound(o, objects[KeyFile])  BY DEF Inv, PutsSound
  <1>2. CASE Put(c)
    <2>1. Writes(o)  BY <1>2 DEF Put, Writes
    <2>2. CASE KeyFilePut(o)
      <3>1. CASE objects[KeyFile] = Nothing
        <4>1. objects' \in {objects, [objects EXCEPT ![o.key] = o.body]}
          BY <1>2 DEF Put
        <4> QED  BY <2>2, <3>1, <4>1
      <3>2. CASE objects[KeyFile] # Nothing
        <4>1. o.guarded /\ objects[o.key] # Nothing  BY <2>2, <3>2 DEF KeyFilePut
        <4>2. objects' = objects  BY <1>2, <4>1 DEF Put
        <4> QED  BY <4>2
      <3> QED  BY <3>1, <3>2
    <2>3. CASE ObjectPut(o, objects[KeyFile])
      <3>1. objects' \in {objects, [objects EXCEPT ![o.key] = o.body]}
        BY <1>2 DEF Put
      <3> QED  BY <2>3, <3>1
    <2> QED  BY <1>1, <2>1, <2>2, <2>3 DEF Sound
  <1>3. CASE Complete(c)
    <2>1. Writes(o) /\ ~KeyFilePut(o)  BY <1>3 DEF Complete, Writes, KeyFilePut
    <2>2. ObjectPut(o, objects[KeyFile])  BY <1>1, <2>1 DEF Sound
    <2>3. objects' \in {objects, [objects EXCEPT ![o.key] = o.body]}
      BY <1>3 DEF Complete
    <2> QED  BY <2>2, <2>3
  <1>4. CASE ~Put(c) /\ ~Complete(c)
    BY <1>4 DEF Request, Confirm, Initiate, Tidy, Sweep, Part, AbortOwn, ListPage
  <1> QED  BY <1>2, <1>3, <1>4

(***************************************************************************)
(* What a step does to operations, to objects, and to keys.                *)
(***************************************************************************)
LEMMA StepOps ==
    ASSUME Inv, ConditionalWrites, NEW c \in Client, Step(c)
    PROVE  /\ op' = op \/ op' = [op EXCEPT ![c] = op'[c]]
           /\ Record(op'[c]) /\ Sound(op'[c], objects[KeyFile])
  <1>1. Shape /\ Record(op[c]) /\ Sound(op[c], objects[KeyFile])
    BY DEF Inv, Shape, PutsSound
  <1>2. CASE UNCHANGED op
    BY <1>1, <1>2
  <1>3. ASSUME NEW o, Goes(c, o), Record(o), Sound(o, objects[KeyFile])
        PROVE  /\ op' = [op EXCEPT ![c] = op'[c]]
               /\ Record(op'[c]) /\ Sound(op'[c], objects[KeyFile])
    BY <1>1, <1>3, GoesTo
  <1>4. CASE Goes(c, NoOp)
    BY <1>3, <1>4, NoOpRests DEF Sound
  <1>5. CASE Request(c)
    BY <1>1, <1>5, RequestContinues, ContinuesSound DEF Continues
  <1>6. CASE Open(c) \/ FirstLook(c) \/ SecondLook(c) \/ ReadBack(c) \/ SweepObject(c)
    BY <1>2, <1>6 DEF Open, FirstLook, SecondLook, ReadBack, SweepObject, Look, OnlyReads,
                      Delete, storeVars
  <1>7. CASE Created(c) \/ Worked(c) \/ Crash(c)
    BY <1>4, <1>7 DEF Created, Worked, Crash
  <1>8. CASE Gate(c)
    <2>1. CASE UNCHANGED storeVars  BY <1>2, <2>1 DEF storeVars
    <2>2. CASE drawn < MaxSalts /\ Goes(c, PutOp(KeyFile, drawn + 1, TRUE, FALSE))
      <3>1. drawn + 1 \in Salt  BY <1>1, <2>2, KeysAssumption DEF Shape, Salt
      <3> QED  BY <1>3, <2>2, <3>1, KeyFilePutStarts
    <2> QED  BY <1>8, <2>1, <2>2 DEF Gate
  <1>9. CASE Upload(c)
    <2>1. key[c] \in Salt /\ key[c] = objects[KeyFile]
      BY <1>9 DEF Upload, Inv, KeysAgree, KeyedWhenOpen, SaltKept
    <2>2. PICK n \in Contents :
            \/ Goes(c, PutOp(Address(key[c], n), key[c], FALSE, n \in Large))
            \/ Goes(c, PutOp(Address(key[c], n), key[c], TRUE, n \in Large))
      BY <1>9 DEF Upload
    <2>3. PICK guarded : Goes(c, PutOp(Address(key[c], n), key[c], guarded, n \in Large))
      BY <2>2
    <2> QED  BY <1>3, <2>1, <2>3, ObjectPutStarts
  <1>10. CASE List(c)
    BY <1>3, <1>10, PagingRests DEF List, ListStart, Sound
  <1> QED  BY <1>5, <1>6, <1>7, <1>8, <1>9, <1>10 DEF Step

\* Only a guarded put of the keyfile, an object's put and a sweep change objects.
LEMMA StepObjects ==
    ASSUME Inv, NEW c \in Client, Step(c)
    PROVE  \/ objects' = objects
           \/ /\ UNCHANGED key
              /\ objects' = [objects EXCEPT ![op[c].key] = op[c].body]
              /\ \/ KeyFilePut(op[c]) /\ objects[KeyFile] = Nothing
                 \/ ObjectPut(op[c], objects[KeyFile])
           \/ /\ UNCHANGED key
              /\ \E k \in Key \ {KeyFile} : objects' = [objects EXCEPT ![k] = Nothing]
  <1>1. CASE Request(c) /\ UNCHANGED keyVars
    BY <1>1, RequestObjects DEF keyVars
  <1>2. CASE SweepObject(c)
    BY <1>2 DEF SweepObject, Delete, Present, KeyFile, keyVars
  <1>3. CASE ~SweepObject(c) /\ ~(Request(c) /\ UNCHANGED keyVars)
    BY <1>3 DEF Step, Open, FirstLook, SecondLook, Gate, Created, ReadBack, Upload, List,
                Worked, Crash, Look, OnlyReads, ListStart, storeVars
  <1> QED  BY <1>1, <1>2, <1>3

\* A device takes its keys from the stored salt, or loses them with its process.
LEMMA StepKeys ==
    ASSUME Shape, KeyedWhenOpen, NEW c \in Client, Step(c)
    PROVE  /\ \/ key' = key
              \/ key' = [key EXCEPT ![c] = Nothing]
              \/ objects[KeyFile] # Nothing /\ key' = [key EXCEPT ![c] = objects[KeyFile]]
           /\ pc' = pc \/ \E where : pc' = [pc EXCEPT ![c] = where]
           /\ pc'[c] \in {"open", "working"} => key'[c] # Nothing
           /\ drawn' \in Nat
  <1>1. /\ pc = [d \in Client |-> pc[d]] /\ key = [d \in Client |-> key[d]] /\ drawn \in Nat
        /\ pc[c] \in {"open", "working"} => key[c] # Nothing
    BY DEF Shape, KeyedWhenOpen
  <1>2. ASSUME NEW where, To(c, where)
        PROVE  pc' = [pc EXCEPT ![c] = where] /\ pc'[c] = where
    BY <1>1, <1>2 DEF To
  <1>3. CASE objects[KeyFile] # Nothing /\ Learn(c) /\ UNCHANGED drawn
    BY <1>1, <1>2, <1>3 DEF Learn
  <1>4. CASE UNCHANGED key /\ UNCHANGED drawn
             /\ \E where : To(c, where) /\ where \notin {"open", "working"}
    BY <1>1, <1>2, <1>4
  <1>5. CASE Open(c) \/ FirstLook(c) \/ SecondLook(c) \/ ReadBack(c)
    BY <1>3, <1>4, <1>5 DEF Open, FirstLook, SecondLook, ReadBack, Look, Stop
  <1>6. CASE Gate(c)
    <2>1. CASE Stop(c) /\ UNCHANGED drawn  BY <1>4, <2>1 DEF Stop
    <2>2. CASE drawn' = drawn + 1 /\ To(c, "creating") /\ UNCHANGED key
      BY <1>1, <1>2, <2>2
    <2> QED  BY <1>6, <2>1, <2>2 DEF Gate
  <1>7. CASE Created(c)
    BY <1>4, <1>7 DEF Created
  <1>8. CASE Upload(c) \/ List(c) \/ Worked(c)
    <2>1. pc[c] \in {"open", "working"} /\ UNCHANGED <<key, drawn>>
          /\ (To(c, "working") \/ To(c, "open"))
      BY <1>8 DEF Upload, List, Worked
    <2> QED  BY <1>1, <1>2, <2>1
  <1>9. CASE SweepObject(c) \/ (Request(c) /\ UNCHANGED keyVars)
    BY <1>1, <1>9 DEF SweepObject, keyVars
  <1>10. CASE Crash(c)
    BY <1>1, <1>2, <1>10 DEF Crash
  <1> QED  BY <1>5, <1>6, <1>7, <1>8, <1>9, <1>10 DEF Step

\* Whoever is open has keys (openVaultCrypto returns them or throws).
LEMMA KeyedNext ==
    ASSUME Shape, KeyedWhenOpen, NEW c \in Client, Step(c)
    PROVE  KeyedWhenOpen'
  <1> SUFFICES ASSUME NEW d \in Client, pc'[d] \in {"open", "working"}
               PROVE  key'[d] # Nothing
    BY DEF KeyedWhenOpen
  <1>1. CASE d = c  BY <1>1, StepKeys
  <1>2. CASE d # c
    <2>1. pc'[d] = pc[d] /\ key'[d] = key[d]  BY <1>2, StepKeys DEF Shape
    <2> QED  BY <2>1 DEF KeyedWhenOpen
  <1> QED  BY <1>1, <1>2

---------------------------------------------------------------------------
(* The invariant is inductive, and a step is one of OneSalt.               *)

\* A stored salt is never replaced; while one is stored nobody's keys change with it.
LEMMA SaltStays ==
    ASSUME Inv, NEW c \in Client, Step(c)
    PROVE  /\ objects' = [k \in Key |-> objects'[k]]
           /\ objects[KeyFile] # Nothing => objects'[KeyFile] = objects[KeyFile]
           /\ objects'[KeyFile] \in Salt \cup {Nothing}
           /\ objects'[KeyFile] # objects[KeyFile] => UNCHANGED key
  <1>1. KeyFile \in Key  BY KeysAssumption
  <1>2. objects = [k \in Key |-> objects[k]] /\ objects[KeyFile] \in Salt \cup {Nothing}
    BY DEF Inv, Shape, SaltKept
  <1> QED  BY <1>1, <1>2, StepObjects DEF KeyFilePut, ObjectPut

\* Before there is a salt there are no keys, no objects and no objects on their way.
LEMMA NoKeysYet ==
    ASSUME Inv, objects[KeyFile] = Nothing
    PROVE  /\ Present = {}
           /\ \A c \in Client : key[c] = Nothing
           /\ \A o : ~ObjectPut(o, objects[KeyFile])
  <1>1. \A k \in Key : SaltOf(k) # Nothing  BY KeysAreNumbers
  <1>2. Present \subseteq Key  BY DEF Present
  <1> QED  BY <1>1, <1>2, SaltsAreNumbers DEF Inv, Readable, KeysAgree, ObjectPut

\* Every step of a client keeps the invariant.
LEMMA InvStep ==
    ASSUME Inv, ConditionalWrites, NEW c \in Client, Step(c)
    PROVE  Inv'
  <1>1. Shape'
    BY StepOps, StepKeys, SaltStays DEF Inv, Shape
  <1>2. SaltKept'
    BY SaltStays DEF SaltKept
  <1>3. KeysAgree' /\ KeyedWhenOpen'
    <2>1. KeyedWhenOpen'  BY KeyedNext DEF Inv
    <2>2. SUFFICES ASSUME NEW d \in Client, key'[d] # Nothing
                   PROVE  key'[d] = objects'[KeyFile]
      BY <2>1 DEF KeysAgree
    <2>3. key[d] # Nothing => key[d] = objects[KeyFile]
      BY DEF Inv, KeysAgree
    <2>4. key = [e \in Client |-> key[e]]
      BY DEF Inv, Shape
    <2>5. key'[d] = objects[KeyFile] /\ objects[KeyFile] # Nothing
      BY <2>2, <2>3, <2>4, StepKeys DEF Inv
    <2> QED  BY <2>5, SaltStays
  <1>4. PutsSound'
    <2> SUFFICES ASSUME NEW d \in Client PROVE Sound(op'[d], objects'[KeyFile])
      BY DEF PutsSound
    <2>1. Sound(op'[d], objects[KeyFile])
      <3>1. Sound(op[d], objects[KeyFile]) /\ op = [e \in Client |-> op[e]]
        BY DEF Inv, PutsSound, Shape
      <3> QED  BY <3>1, StepOps
    <2>2. CASE objects[KeyFile] = Nothing
      BY <2>1, <2>2, NoKeysYet DEF Sound
    <2>3. CASE objects[KeyFile] # Nothing
      BY <2>1, <2>3, SaltStays
    <2> QED  BY <2>2, <2>3
  <1>5. Readable'
    <2> SUFFICES ASSUME NEW k \in Key \ {0}, objects'[k] # Nothing
                 PROVE  SaltOf(k) = objects'[KeyFile]
      BY DEF Readable, Present
    <2>1. objects = [j \in Key |-> objects[j]] /\ KeyFile \in Key /\ k # KeyFile
      BY KeysAssumption DEF Inv, Shape, KeyFile
    <2>2. objects[k] # Nothing => SaltOf(k) = objects[KeyFile]
      BY DEF Inv, Readable, Present
    <2>3. SaltOf(k) = objects[KeyFile]
      <3>1. CASE objects' = objects  BY <2>2, <3>1
      <3>2. CASE objects' = [objects EXCEPT ![op[c].key] = op[c].body]
                 /\ KeyFilePut(op[c])
        BY <2>1, <2>2, <3>2 DEF KeyFilePut
      <3>3. CASE objects' = [objects EXCEPT ![op[c].key] = op[c].body]
                 /\ ObjectPut(op[c], objects[KeyFile])
        BY <2>1, <2>2, <3>3 DEF ObjectPut
      <3>4. CASE \E j \in Key \ {KeyFile} : objects' = [objects EXCEPT ![j] = Nothing]
        BY <2>1, <2>2, <3>4
      <3> QED  BY <3>1, <3>2, <3>3, <3>4, StepObjects
    <2>4. objects[KeyFile] # Nothing  BY <2>3, KeysAreNumbers
    <2> QED  BY <2>3, <2>4, SaltStays
  <1> QED  BY <1>1, <1>2, <1>3, <1>4, <1>5 DEF Inv

\* The invariant is inductive.
LEMMA InvNext == ASSUME Inv, ConditionalWrites, [Next]_vars PROVE Inv'
  <1>1. CASE \E c \in Client : Step(c)  BY <1>1, InvStep
  <1>2. CASE UNCHANGED vars
    BY <1>2 DEF vars, storeVars, keyVars, Inv, Shape, SaltKept, KeyedWhenOpen, KeysAgree,
                PutsSound, Readable, Present
  <1> QED  BY <1>1, <1>2 DEF Next

(***************************************************************************)
(* Everything stored can be read with the salt that is stored: on a        *)
(* backend that honours conditional writes no object is ever written under *)
(* a salt that another one replaced (openVaultCrypto, gates 1 and 2, and   *)
(* the guarded put that is read back).                                     *)
(***************************************************************************)
THEOREM SpecReadable == ConditionalWrites => (Spec => []Readable)
  <1> SUFFICES ASSUME ConditionalWrites PROVE Spec => []Readable  OBVIOUS
  <1>1. Init => Inv  BY InitInv
  <1>2. Inv /\ [Next]_vars => Inv'  BY InvNext
  <1>3. Inv => Readable  BY DEF Inv
  <1> QED  BY <1>1, <1>2, <1>3, PTL DEF Spec

\* A new vault is one without a salt.
LEMMA InitRefines == Init => Abstract!Init
  BY KeysAssumption DEF Init, StoreInit, Abstract!Init

\* A step chooses the salt, derives or forgets keys, or is none of OneSalt's.
LEMMA StepRefines ==
    ASSUME Inv, [Next]_vars
    PROVE  [Abstract!Next]_<<objects[KeyFile], key>>
  <1>1. CASE UNCHANGED vars
    BY <1>1 DEF vars, storeVars, keyVars
  <1>2. ASSUME NEW c \in Client, Step(c)
        PROVE  [Abstract!Next]_<<objects[KeyFile], key>>
    <2>1. CASE objects'[KeyFile] # objects[KeyFile]
      <3>1. Abstract!Choose  BY <1>2, <2>1, SaltStays DEF Abstract!Choose
      <3> QED  BY <3>1 DEF Abstract!Next
    <2>2. CASE objects'[KeyFile] = objects[KeyFile]
      <3>1. CASE key' = key  BY <2>2, <3>1
      <3>2. CASE key' = [key EXCEPT ![c] = Nothing]
        BY <2>2, <3>2 DEF Abstract!Next, Abstract!Forget
      <3>3. CASE objects[KeyFile] # Nothing /\ key' = [key EXCEPT ![c] = objects[KeyFile]]
        <4>1. CASE key[c] = Nothing
          BY <2>2, <3>3, <4>1 DEF Abstract!Next, Abstract!Derive
        <4>2. CASE key[c] # Nothing
          <5>1. key' = key  BY <3>3, <4>2 DEF Inv, KeysAgree, Shape
          <5> QED  BY <2>2, <5>1
        <4> QED  BY <4>1, <4>2
      <3> QED  BY <1>2, <3>1, <3>2, <3>3, StepKeys DEF Inv
    <2> QED  BY <2>1, <2>2
  <1> QED  BY <1>1, <1>2 DEF Next

(***************************************************************************)
(* The refinement: devices that open a vault at the same time, over lost   *)
(* answers, retries, false 404s and captive portals, choose one salt,      *)
(* once, and derive their keys from no other (OneSalt).                    *)
(***************************************************************************)
THEOREM SpecRefines == ConditionalWrites => (Spec => SaltChosenOnce)
  <1> SUFFICES ASSUME ConditionalWrites PROVE Spec => SaltChosenOnce  OBVIOUS
  <1>1. Init => Inv  BY InitInv
  <1>2. Inv /\ [Next]_vars => Inv'  BY InvNext
  <1>3. Init => Abstract!Init  BY InitRefines
  <1>4. Inv /\ [Next]_vars => [Abstract!Next]_<<objects[KeyFile], key>>  BY StepRefines
  <1> QED  BY <1>1, <1>2, <1>3, <1>4, PTL DEF Spec, SaltChosenOnce, Abstract!Spec

---------------------------------------------------------------------------
(* What a put and a listing return, whatever the backend honours.          *)

(***************************************************************************)
(* The inductive invariant of a put and of a listing.  Nothing but salts   *)
(* is ever a body, so what is written is there.  What was there all along  *)
(* is on a page already given, or comes after the token of the next one.   *)
(***************************************************************************)
SaltsOnly == /\ \A k \in Key : objects[k] \in Salt \cup {Nothing}
             /\ \A c \in Client : key[c] \in Salt \cup {Nothing}

Sent(o) == Writes(o) \/ o.phase = "stored" => o.key \in Key /\ o.body \in Salt

PutsSent == \A c \in Client : Sent(op[c])

\* There is a last key, which makes a page of the first few have one too.
Bounded == \E top \in Nat : \A k \in Present : k <= top

Ahead(c) ==
    op[c].phase = "paging"
        => /\ op[c].token \in Nat
           /\ throughout[c] \subseteq Present
           /\ \A k \in throughout[c] : k \in op[c].seen \/ k > op[c].token

ListsAhead == /\ throughout = [c \in Client |-> throughout[c]]
              /\ Bounded
              /\ \A c \in Client : Ahead(c)

Stores == Shape /\ SaltsOnly /\ KeyedWhenOpen /\ PutsSent
Returns == Stores /\ StoredIsThere /\ ListsAhead /\ ListWhole

\* A vault nobody has opened satisfies it.
LEMMA InitReturns == Init => Returns
  <1> SUFFICES ASSUME Init PROVE Returns  OBVIOUS
  <1>1. Shape /\ KeyedWhenOpen  BY InitInv DEF Inv
  <1> USE DEF Init, StoreInit
  <1>2. /\ objects = [k \in Key |-> Nothing] /\ key = [c \in Client |-> Nothing]
        /\ \A c \in Client : op[c] = NoOp /\ throughout[c] = {}
    OBVIOUS
  <1>3. NoOp.phase = "none"  BY DEF NoOp
  <1>4. SaltsOnly  BY <1>2 DEF SaltsOnly
  <1>5. PutsSent /\ StoredIsThere  BY <1>2, <1>3 DEF PutsSent, Sent, Writes, StoredIsThere
  <1>6. Present = {}  BY <1>2 DEF Present
  <1>7. Bounded
    <2>1. \A k \in Present : k <= 0  BY <1>6
    <2> QED  BY <2>1 DEF Bounded
  <1>8. ListsAhead /\ ListWhole  BY <1>2, <1>3, <1>7 DEF ListsAhead, Ahead, ListWhole
  <1> QED  BY <1>1, <1>4, <1>5, <1>8 DEF Returns, Stores

\* A salt generated or derived from starts a put of itself.
LEMMA PutOpSent ==
    ASSUME NEW k \in Key, NEW body \in Salt, NEW guarded, NEW large
    PROVE  /\ Record(PutOp(k, body, guarded, large)) /\ Sent(PutOp(k, body, guarded, large))
           /\ PutOp(k, body, guarded, large).phase \in {"initiating", "putting"}
  BY PutOpIs DEF Sent

(***************************************************************************)
(* A step changes only its client's operation; what goes on writing, or    *)
(* is returned as stored, was sent; and only a put's own request makes it  *)
(* stored, only a listing's makes it a listing.                            *)
(***************************************************************************)
LEMMA StepSends ==
    ASSUME Stores, NEW c \in Client, Step(c)
    PROVE  /\ op' = op \/ op' = [op EXCEPT ![c] = op'[c]]
           /\ Record(op'[c]) /\ Sent(op'[c])
           /\ op'[c].phase = "stored"
                => op' = op \/ (op'[c].key = op[c].key
                                /\ (Put(c) \/ Confirm(c) \/ Complete(c)))
           /\ op'[c].phase \in {"paging", "listed"} => op' = op \/ ListStart(c) \/ ListPage(c)
  <1>1. Shape /\ Record(op[c]) /\ Sent(op[c])
    BY DEF Stores, Shape, PutsSent
  <1>2. CASE UNCHANGED op
    BY <1>1, <1>2
  <1>3. ASSUME NEW o, Goes(c, o), Record(o), Sent(o),
               o.phase \notin {"stored", "paging", "listed"}
        PROVE  /\ op' = [op EXCEPT ![c] = op'[c]]
               /\ Record(op'[c]) /\ Sent(op'[c])
               /\ op'[c].phase \notin {"stored", "paging", "listed"}
    BY <1>1, <1>3, GoesTo
  <1>4. CASE Goes(c, NoOp)
    <2>1. NoOp.phase = "none"  BY DEF NoOp
    <2>2. Record(NoOp) /\ Sent(NoOp)  BY <2>1, NoOpRests DEF Sent
    <2> QED  BY <1>3, <1>4, <2>1, <2>2
  <1>5. CASE Request(c)
    <2>1. Continues(op[c], op'[c]) /\ op' = [op EXCEPT ![c] = op'[c]]
      BY <1>1, <1>5, RequestContinues
    <2>2. Record(op'[c]) /\ Sent(op'[c])
      BY <1>1, <2>1 DEF Continues, Sent
    <2>3. ASSUME op'[c].phase = "stored"
          PROVE  op'[c].key = op[c].key /\ (Put(c) \/ Confirm(c) \/ Complete(c))
      <3>1. op'[c].key = op[c].key /\ op[c].phase \in {"putting", "confirming", "completing"}
        BY <2>1, <2>3 DEF Continues
      <3>2. ~Initiate(c) /\ ~Tidy(c) /\ ~Sweep(c) /\ ~Part(c) /\ ~AbortOwn(c) /\ ~ListPage(c)
        BY <3>1 DEF Initiate, Tidy, Sweep, Part, AbortOwn, ListPage
      <3> QED  BY <1>5, <3>1, <3>2 DEF Request
    <2>4. ASSUME op'[c].phase \in {"paging", "listed"}
          PROVE  ListPage(c)
      <3>1. op[c].phase = "paging"  BY <2>1, <2>4 DEF Continues
      <3>2. /\ ~Put(c) /\ ~Confirm(c) /\ ~Complete(c)
            /\ ~Initiate(c) /\ ~Tidy(c) /\ ~Sweep(c) /\ ~Part(c) /\ ~AbortOwn(c)
        BY <3>1 DEF Put, Confirm, Complete, Initiate, Tidy, Sweep, Part, AbortOwn
      <3> QED  BY <1>5, <3>2 DEF Request
    <2> QED  BY <2>1, <2>2, <2>3, <2>4
  <1>6. CASE Open(c) \/ FirstLook(c) \/ SecondLook(c) \/ ReadBack(c) \/ SweepObject(c)
    BY <1>2, <1>6 DEF Open, FirstLook, SecondLook, ReadBack, SweepObject, Look, OnlyReads,
                      Delete, storeVars
  <1>7. CASE Created(c) \/ Worked(c) \/ Crash(c)
    BY <1>4, <1>7 DEF Created, Worked, Crash
  <1>8. CASE Gate(c)
    <2>1. CASE UNCHANGED storeVars  BY <1>2, <2>1 DEF storeVars
    <2>2. CASE drawn < MaxSalts /\ Goes(c, PutOp(KeyFile, drawn + 1, TRUE, FALSE))
      <3>1. drawn + 1 \in Salt /\ KeyFile \in Key
        BY <1>1, <2>2, KeysAssumption DEF Shape, Salt
      <3> QED  BY <1>3, <2>2, <3>1, PutOpSent
    <2> QED  BY <1>8, <2>1, <2>2 DEF Gate
  <1>9. CASE Upload(c)
    <2>1. key[c] \in Salt
      BY <1>9 DEF Upload, Stores, KeyedWhenOpen, SaltsOnly
    <2>2. PICK n \in Contents :
            \/ Goes(c, PutOp(Address(key[c], n), key[c], FALSE, n \in Large))
            \/ Goes(c, PutOp(Address(key[c], n), key[c], TRUE, n \in Large))
      BY <1>9 DEF Upload
    <2>3. PICK guarded : Goes(c, PutOp(Address(key[c], n), key[c], guarded, n \in Large))
      BY <2>2
    <2> QED  BY <1>3, <2>1, <2>3, PutOpSent, AddressSalt
  <1>10. CASE List(c)
    <2>1. ListStart(c)  BY <1>10 DEF List
    <2>2. op'[c] = [NoOp EXCEPT !.phase = "paging"] /\ op' = [op EXCEPT ![c] = op'[c]]
      BY <1>1, <2>1, GoesTo DEF ListStart
    <2>3. Record(op'[c]) /\ Sent(op'[c]) /\ op'[c].phase = "paging"
      <3>1. [NoOp EXCEPT !.phase = "paging"].phase = "paging"  BY DEF NoOp
      <3> QED  BY <2>2, <3>1, PagingRests DEF Sent
    <2> QED  BY <2>1, <2>2, <2>3
  <1> QED  BY <1>5, <1>6, <1>7, <1>8, <1>9, <1>10 DEF Step

(***************************************************************************)
(* What a step does to the bucket: nothing, a salt or an object written    *)
(* whole, or an object swept, which is remembered.                         *)
(***************************************************************************)
LEMMA StepBucket ==
    ASSUME Stores, NEW c \in Client, Step(c)
    PROVE  \/ UNCHANGED <<objects, removed>>
           \/ /\ UNCHANGED <<removed, key>>
              /\ \E k \in Key, body \in Salt : objects' = [objects EXCEPT ![k] = body]
           \/ /\ UNCHANGED key
              /\ \E k \in Key : /\ objects' = [objects EXCEPT ![k] = Nothing]
                                /\ removed' = removed \cup {k}
  <1>1. CASE Put(c) /\ UNCHANGED keyVars
    <2>1. op[c].key \in Key /\ op[c].body \in Salt
      BY <1>1 DEF Put, Stores, PutsSent, Sent, Writes
    <2>2. objects' \in {objects, [objects EXCEPT ![op[c].key] = op[c].body]} /\ UNCHANGED removed
      BY <1>1 DEF Put
    <2> QED  BY <1>1, <2>1, <2>2 DEF keyVars
  <1>2. CASE Complete(c) /\ UNCHANGED keyVars
    <2>1. op[c].key \in Key /\ op[c].body \in Salt
      BY <1>2 DEF Complete, Stores, PutsSent, Sent, Writes
    <2>2. objects' \in {objects, [objects EXCEPT ![op[c].key] = op[c].body]} /\ UNCHANGED removed
      BY <1>2 DEF Complete
    <2> QED  BY <1>2, <2>1, <2>2 DEF keyVars
  <1>3. CASE SweepObject(c)
    BY <1>3 DEF SweepObject, Delete, Present, keyVars
  <1>4. CASE Request(c) /\ ~Put(c) /\ ~Complete(c)
    BY <1>4 DEF Request, Confirm, Initiate, Tidy, Sweep, Part, AbortOwn, ListPage
  <1>5. CASE ~SweepObject(c) /\ ~(Request(c) /\ UNCHANGED keyVars)
    BY <1>5 DEF Step, Open, FirstLook, SecondLook, Gate, Created, ReadBack, Upload, List,
                Worked, Crash, Look, OnlyReads, ListStart, storeVars
  <1> QED  BY <1>1, <1>2, <1>3, <1>4, <1>5 DEF Step

\* No body but a salt, and no key but from one.
LEMMA SaltsNext == ASSUME Stores, NEW c \in Client, Step(c) PROVE SaltsOnly'
  <1>1. /\ objects = [k \in Key |-> objects[k]] /\ key = [d \in Client |-> key[d]]
        /\ \A k \in Key : objects[k] \in Salt \cup {Nothing}
        /\ \A d \in Client : key[d] \in Salt \cup {Nothing}
        /\ KeyFile \in Key
    BY KeysAssumption DEF Stores, Shape, SaltsOnly
  <1>2. \A k \in Key : objects'[k] \in Salt \cup {Nothing}
    <2>1. CASE objects' = objects  BY <1>1, <2>1
    <2>2. CASE \E k \in Key, body \in Salt : objects' = [objects EXCEPT ![k] = body]
      BY <1>1, <2>2
    <2>3. CASE \E k \in Key : objects' = [objects EXCEPT ![k] = Nothing]
      BY <1>1, <2>3
    <2> QED  BY <2>1, <2>2, <2>3, StepBucket
  <1>3. \A d \in Client : key'[d] \in Salt \cup {Nothing}
    <2>1. \/ key' = key
          \/ key' = [key EXCEPT ![c] = Nothing]
          \/ key' = [key EXCEPT ![c] = objects[KeyFile]]
      BY StepKeys DEF Stores
    <2> QED  BY <1>1, <2>1
  <1> QED  BY <1>2, <1>3 DEF SaltsOnly

\* The part of the invariant about puts is inductive by itself.
LEMMA StoresNext == ASSUME Stores, NEW c \in Client, Step(c) PROVE Stores'
  <1>1. Shape'
    <2>1. objects' = [k \in Key |-> objects'[k]]
      <3>1. objects = [k \in Key |-> objects[k]]  BY DEF Stores, Shape
      <3>2. CASE objects' = objects  BY <3>1, <3>2
      <3>3. CASE \E k \in Key : \E body : objects' = [objects EXCEPT ![k] = body]
        BY <3>1, <3>3
      <3> QED  BY <3>2, <3>3, StepBucket
    <2> QED  BY <2>1, StepSends, StepKeys DEF Stores, Shape
  <1>2. PutsSent'
    <2>1. op = [d \in Client |-> op[d]] /\ \A d \in Client : Sent(op[d])
      BY DEF Stores, Shape, PutsSent
    <2>2. \A d \in Client : Sent(op'[d])  BY <2>1, StepSends
    <2> QED  BY <2>2 DEF PutsSent
  <1> QED  BY <1>1, <1>2, SaltsNext, KeyedNext DEF Stores

\* withRetry leads back to where the request was made, or where it gives up.
LEMMA RetriedPhase ==
    ASSUME NEW o, Record(o), NEW exhausted
    PROVE  Retried(o, exhausted).phase \in {o.phase, exhausted}
  BY DEF Record, Retried

\* What a request makes stored is there: put, or asked for (confirmStored).
LEMMA StoredNow ==
    ASSUME Stores, NEW c \in Client, Put(c) \/ Confirm(c) \/ Complete(c),
           op'[c].phase = "stored"
    PROVE  objects'[op[c].key] # Nothing
  <1> DEFINE o == op[c]
  <1>1. /\ Shape /\ Record(o) /\ o.key \in Key /\ o.body \in Salt /\ o.body # Nothing
        /\ objects = [k \in Key |-> objects[k]]
    BY SaltsAreNumbers
       DEF Stores, Shape, PutsSent, Sent, Writes, Put, Confirm, Complete
  <1>2. CASE Put(c)
    <2>1. ~Goes(c, Retried(o, "failed"))
      <3>1. SUFFICES ASSUME Goes(c, Retried(o, "failed")) PROVE FALSE  OBVIOUS
      <3>2. op'[c] = Retried(o, "failed") /\ o.phase = "putting"
        BY <1>1, <1>2, <3>1, GoesTo DEF Put
      <3> QED  BY <1>1, <3>2, RetriedPhase
    <2>2. ~Goes(c, [o EXCEPT !.phase = "confirming"])
      <3>1. SUFFICES ASSUME Goes(c, [o EXCEPT !.phase = "confirming"]) PROVE FALSE  OBVIOUS
      <3>2. op'[c] = [o EXCEPT !.phase = "confirming"]  BY <1>1, <3>1, GoesTo
      <3> QED  BY <1>1, <3>2 DEF Record
    <2> DEFINE refused == o.guarded /\ objects[o.key] # Nothing
    <2>3. /\ objects' = IF refused THEN objects ELSE [objects EXCEPT ![o.key] = o.body]
          /\ Goes(c, [o EXCEPT !.phase = IF refused THEN "exists" ELSE "stored"])
      BY <1>2, <2>1, <2>2 DEF Put
    <2> HIDE DEF refused
    <2>4. ~refused
      <3>1. op'[c] = [o EXCEPT !.phase = IF refused THEN "exists" ELSE "stored"]
        BY <1>1, <2>3, GoesTo
      <3> QED  BY <1>1, <3>1 DEF Record
    <2> QED  BY <1>1, <2>3, <2>4
  <1>3. CASE Confirm(c)
    <2> DEFINE again == [o EXCEPT !.phase = IF o.id = 0 THEN "putting" ELSE "completing"]
    <2>1. Thrown(o) \in {"failed", "aborting"}  BY DEF Thrown
    <2>2. ~Goes(c, Retried(again, Thrown(o)))
      <3>1. SUFFICES ASSUME Goes(c, Retried(again, Thrown(o))) PROVE FALSE  OBVIOUS
      <3>2. Record(again) /\ again.phase \in {"putting", "completing"}
        BY <1>1 DEF Record
      <3>3. op'[c] = Retried(again, Thrown(o))  BY <1>1, <3>1, GoesTo
      <3> HIDE DEF again
      <3>4. op'[c].phase \in {again.phase, Thrown(o)}  BY <3>2, <3>3, RetriedPhase
      <3> QED  BY <2>1, <3>2, <3>4
    <2>3. Goes(c, [o EXCEPT !.phase = IF Confirmed(o) THEN "stored" ELSE Thrown(o)])
      BY <1>3, <2>2 DEF Confirm
    <2>4. op'[c] = [o EXCEPT !.phase = IF Confirmed(o) THEN "stored" ELSE Thrown(o)]
      BY <1>1, <2>3, GoesTo
    <2>5. Confirmed(o)  BY <1>1, <2>1, <2>4 DEF Record
    <2>6. objects' = objects  BY <1>3 DEF Confirm
    <2> QED  BY <2>5, <2>6 DEF Confirmed
  <1>4. CASE Complete(c)
    <2>1. o.phase = "completing"  BY <1>4 DEF Complete
    <2>2. ~Goes(c, Retried(o, "aborting"))
      <3>1. SUFFICES ASSUME Goes(c, Retried(o, "aborting")) PROVE FALSE  OBVIOUS
      <3>2. op'[c] = Retried(o, "aborting")  BY <1>1, <3>1, GoesTo
      <3> QED  BY <1>1, <2>1, <3>2, RetriedPhase
    <2>3. ASSUME NEW phase, phase \in {"aborting", "confirming"},
                 Goes(c, [o EXCEPT !.phase = phase])
          PROVE  FALSE
      <3>1. op'[c] = [o EXCEPT !.phase = phase]  BY <1>1, <2>3, GoesTo
      <3> QED  BY <1>1, <2>3, <3>1 DEF Record
    <2>4. objects' = [objects EXCEPT ![o.key] = o.body]
      BY <1>4, <2>2, <2>3 DEF Complete
    <2> QED  BY <1>1, <2>4
  <1> QED  BY <1>2, <1>3, <1>4

\* A put that has returned goes on vouching for its object.
LEMMA StoredNext ==
    ASSUME Stores, StoredIsThere, NEW c \in Client, Step(c)
    PROVE  StoredIsThere'
  <1> SUFFICES ASSUME NEW d \in Client, op'[d].phase = "stored"
               PROVE  objects'[op'[d].key] # Nothing \/ op'[d].key \in removed'
    BY DEF StoredIsThere
  <1>1. CASE op'[d] = op[d]
    <2> DEFINE k == op[d].key
    <2>1. k \in Key /\ (objects[k] # Nothing \/ k \in removed)
      BY <1>1 DEF Stores, PutsSent, Sent, StoredIsThere
    <2>2. objects = [j \in Key |-> objects[j]]  BY DEF Stores, Shape
    <2> HIDE DEF k
    <2>3. ASSUME UNCHANGED <<objects, removed>>
          PROVE  objects'[k] # Nothing \/ k \in removed'
      BY <2>1, <2>3
    <2>4. ASSUME /\ UNCHANGED removed
                 /\ \E j \in Key, body \in Salt : objects' = [objects EXCEPT ![j] = body]
          PROVE  objects'[k] # Nothing \/ k \in removed'
      <3>1. PICK j \in Key, body \in Salt : objects' = [objects EXCEPT ![j] = body]
        BY <2>4
      <3> QED  BY <2>1, <2>2, <2>4, <3>1, SaltsAreNumbers
    <2>5. ASSUME \E j \in Key : /\ objects' = [objects EXCEPT ![j] = Nothing]
                                /\ removed' = removed \cup {j}
          PROVE  objects'[k] # Nothing \/ k \in removed'
      BY <2>1, <2>2, <2>5
    <2>6. objects'[k] # Nothing \/ k \in removed'
      BY <2>3, <2>4, <2>5, StepBucket
    <2> QED  BY <1>1, <2>6 DEF k
  <1>2. CASE op'[d] # op[d]
    <2>1. d = c /\ op' # op  BY <1>2, StepSends DEF Stores, Shape
    <2>2. op'[c].key = op[c].key /\ (Put(c) \/ Confirm(c) \/ Complete(c))
      BY <2>1, StepSends
    <2> QED  BY <2>1, <2>2, StoredNow
  <1> QED  BY <1>1, <1>2

---------------------------------------------------------------------------
(* Listings.                                                               *)

\* A set of naturals that is not empty has a least element.
LEMMA LeastKey ==
    ASSUME NEW S \in SUBSET Nat, S # {}
    PROVE  \E x \in S : \A y \in S : x <= y
  <1>1. PICK x \in S : \A y \in S : ~(<<y, x>> \in OpToRel(<, Nat))
    BY NatLessThanWellFounded, WFMin
  <1>2. ASSUME NEW y \in S PROVE x <= y
    <2>1. x \in Nat /\ y \in Nat /\ ~(y < x)  BY <1>1 DEF OpToRel
    <2> QED  BY <2>1
  <1> QED  BY <1>2

\* A bounded one has a greatest, which Max is.
LEMMA MaxKey ==
    ASSUME NEW S \in SUBSET Nat, S # {}, NEW top \in Nat, \A x \in S : x <= top
    PROVE  Max(S) \in S /\ \A y \in S : y <= Max(S)
  <1> DEFINE gaps == {top - x : x \in S}
  <1>1. gaps \in SUBSET Nat /\ gaps # {}
    <2>1. \A x \in S : top - x \in Nat  OBVIOUS
    <2> QED  BY <2>1
  <1>2. PICK b \in gaps : \A g \in gaps : b <= g  BY <1>1, LeastKey
  <1>3. PICK x \in S : b = top - x  OBVIOUS
  <1>4. \A y \in S : x >= y
    <2> SUFFICES ASSUME NEW y \in S PROVE x >= y  OBVIOUS
    <2>1. x \in Nat /\ y \in Nat /\ top - x <= top - y  BY <1>2, <1>3
    <2> QED  BY <2>1
  <1>5. Max(S) \in S /\ \A y \in S : Max(S) >= y
    BY <1>3, <1>4 DEF Max
  <1>6. \A y \in S : y \in Nat /\ Max(S) \in Nat  BY <1>5
  <1> QED  BY <1>5, <1>6

(***************************************************************************)
(* What a page leaves out comes after what it gives, so its last key is a  *)
(* token that skips nothing (ListObjectsV2, as list follows it).           *)
(***************************************************************************)
LEMMA PageFirst ==
    ASSUME NEW rest \in SUBSET Nat, NEW top \in Nat, \A k \in rest : k <= top,
           FirstOf(rest, PageSize) # rest
    PROVE  /\ Max(FirstOf(rest, PageSize)) \in Nat
           /\ \A k \in rest : \/ k \in FirstOf(rest, PageSize)
                              \/ k > Max(FirstOf(rest, PageSize))
  <1> DEFINE page == FirstOf(rest, PageSize)
             below(k) == {j \in rest : j < k}
  <1>1. /\ PageSize \in Nat /\ PageSize > 0
        /\ \A k : k \in page <=> k \in rest /\ Cardinality(below(k)) < PageSize
    BY StoreAssumption DEF FirstOf
  <1>2. page \subseteq rest /\ rest # {}  BY <1>1
  <1>3. PICK least \in rest : \A k \in rest : least <= k  BY <1>2, LeastKey
  <1>4. least \in page
    <2>1. below(least) = {}
      <3>1. ASSUME NEW k \in rest PROVE ~(k < least)
        <4>1. k \in Nat /\ least \in Nat /\ least <= k  BY <1>3
        <4> QED  BY <4>1
      <3> QED  BY <3>1
    <2> QED  BY <1>1, <2>1, FS_EmptySet
  <1> HIDE DEF page
  <1>5. Max(page) \in page /\ \A k \in page : k <= Max(page)
    BY <1>2, <1>4, MaxKey
  <1>6. ASSUME NEW k \in rest, ~(k > Max(page)) PROVE k \in page
    <2> DEFINE m == Max(page)
    <2>1. m \in Nat /\ k \in Nat /\ k <= m /\ Cardinality(below(m)) < PageSize
      <3>1. m \in page /\ m \in Nat /\ k \in Nat /\ ~(k > m)  BY <1>2, <1>5, <1>6
      <3> QED  BY <1>1, <3>1
    <2> HIDE DEF m
    <2>2. below(m) \in SUBSET Nat /\ \A j \in below(m) : j <= m
      <3>1. ASSUME NEW j \in rest, j < m PROVE j \in Nat /\ j <= m  BY <2>1, <3>1
      <3> QED  BY <3>1
    <2>3. IsFiniteSet(below(m))  BY <2>1, <2>2, FS_BoundedSetOfNaturals
    <2>4. below(k) \in SUBSET below(m)
      <3>1. ASSUME NEW j \in rest, j < k PROVE j < m
        <4>1. j \in Nat  OBVIOUS
        <4> QED  BY <2>1, <3>1, <4>1
      <3> QED  BY <3>1
    <2> HIDE DEF below
    <2>5. Cardinality(below(k)) <= Cardinality(below(m)) /\ IsFiniteSet(below(k))
      BY <2>3, <2>4, FS_Subset
    <2>6. Cardinality(below(k)) \in Nat /\ Cardinality(below(m)) \in Nat
      BY <2>3, <2>5, FS_CardinalityType
    <2>7. Cardinality(below(k)) < PageSize  BY <1>1, <2>1, <2>5, <2>6
    <2> QED  BY <1>1, <2>7 DEF below
  <1> QED  BY <1>2, <1>5, <1>6 DEF page

(***************************************************************************)
(* What a step does to what was there all along: nothing where nothing is  *)
(* stored or swept, else it loses what is swept; a listing starts afresh.  *)
(***************************************************************************)
LEMMA StepThroughout ==
    ASSUME NEW c \in Client, Step(c)
    PROVE  UNCHANGED <<objects, throughout>> \/ StillThere \/ ListStart(c)
  <1>1. CASE Put(c) \/ Complete(c) \/ SweepObject(c)
    BY <1>1 DEF Put, Complete, SweepObject, Delete
  <1>2. CASE Request(c) /\ ~Put(c) /\ ~Complete(c)
    BY <1>2 DEF Request, Confirm, Initiate, Tidy, Sweep, Part, AbortOwn, ListPage
  <1>3. CASE List(c)
    BY <1>3 DEF List
  <1>4. CASE Open(c) \/ FirstLook(c) \/ SecondLook(c) \/ Gate(c) \/ Created(c) \/ ReadBack(c)
             \/ Upload(c) \/ Worked(c) \/ Crash(c)
    BY <1>4 DEF Open, FirstLook, SecondLook, Gate, Created, ReadBack, Upload, Worked, Crash,
                Look, OnlyReads, storeVars
  <1> QED  BY <1>1, <1>2, <1>3, <1>4 DEF Step

\* A step adds at most one key, so there still is a last one.
LEMMA BoundedNext == ASSUME Stores, Bounded, NEW c \in Client, Step(c) PROVE Bounded'
  <1>1. PICK top \in Nat : \A k \in Present : k <= top  BY DEF Bounded
  <1>2. objects = [k \in Key |-> objects[k]] /\ Key \subseteq Nat
    BY StoreAssumption DEF Stores, Shape
  <1>3. PICK new \in Nat : \A k \in Present' : k \in Present \/ k = new
    <2>1. CASE objects' = objects  BY <2>1 DEF Present
    <2>2. CASE \E k \in Key, body \in Salt : objects' = [objects EXCEPT ![k] = body]
      <3>1. PICK k \in Key, body \in Salt : objects' = [objects EXCEPT ![k] = body]
        BY <2>2
      <3>2. \A j \in Present' : j \in Present \/ j = k  BY <1>2, <3>1 DEF Present
      <3> QED  BY <1>2, <3>2
    <2>3. CASE \E k \in Key : objects' = [objects EXCEPT ![k] = Nothing]
      <3>1. Present' \subseteq Present  BY <1>2, <2>3 DEF Present
      <3> QED  BY <3>1
    <2> QED  BY <2>1, <2>2, <2>3, StepBucket
  <1>4. top + new \in Nat /\ top <= top + new /\ new <= top + new  OBVIOUS
  <1> HIDE DEF Bounded
  <1>5. ASSUME NEW k \in Present' PROVE k <= top + new
    <2>1. k \in Nat  BY <1>2 DEF Present
    <2>2. CASE k \in Present  BY <1>1, <1>4, <2>1, <2>2
    <2>3. CASE k = new  BY <1>4, <2>3
    <2> QED  BY <1>3, <2>2, <2>3
  <1> QED  BY <1>4, <1>5 DEF Bounded

\* Where a page leads: to the next with its last key as token, or to the end.
LEMMA PageGoes ==
    ASSUME Shape, NEW c \in Client, ListPage(c), op'[c].phase \in {"paging", "listed"}
    PROVE  LET rest == {k \in Present : k > op[c].token}
               page == FirstOf(rest, PageSize)
           IN  /\ op'[c].seen = op[c].seen \cup page
               /\ \/ rest = page /\ op'[c].phase = "listed"
                  \/ /\ rest # page /\ op'[c].phase = "paging"
                     /\ op'[c].token = Max(page)
  <1> DEFINE o == op[c]
             rest == {k \in Present : k > o.token}
             page == FirstOf(rest, PageSize)
             given == [o EXCEPT !.seen = @ \cup page]
  <1> HIDE DEF rest, page
  <1>1. Record(o) /\ o.phase = "paging"  BY DEF Shape, ListPage
  <1>2. /\ Record(given) /\ given.seen = o.seen \cup page /\ given.phase = "paging"
        /\ given.token = o.token
    BY <1>1 DEF Record
  <1>3. ~Goes(c, [o EXCEPT !.phase = "failed"])
    <2>1. SUFFICES ASSUME Goes(c, [o EXCEPT !.phase = "failed"]) PROVE FALSE  OBVIOUS
    <2>2. op'[c] = [o EXCEPT !.phase = "failed"]  BY <2>1, GoesTo
    <2> QED  BY <1>1, <2>2 DEF Record
  <1>4. \/ rest = page /\ Goes(c, [given EXCEPT !.phase = "listed"])
        \/ rest # page /\ Goes(c, [given EXCEPT !.token = Max(page)])
    BY <1>3 DEF ListPage, TornPage, rest, page
  <1> HIDE DEF given
  <1>5. ASSUME Goes(c, [given EXCEPT !.phase = "listed"])
        PROVE  op'[c].seen = o.seen \cup page /\ op'[c].phase = "listed"
    <2>1. op'[c] = [given EXCEPT !.phase = "listed"]  BY <1>5, GoesTo
    <2> QED  BY <1>2, <2>1 DEF Record
  <1>6. ASSUME NEW token, Goes(c, [given EXCEPT !.token = token])
        PROVE  op'[c].seen = o.seen \cup page /\ op'[c].phase = "paging" /\ op'[c].token = token
    <2>1. op'[c] = [given EXCEPT !.token = token]  BY <1>6, GoesTo
    <2> QED  BY <1>2, <2>1 DEF Record
  <1> QED  BY <1>4, <1>5, <1>6 DEF rest, page

\* A listing that goes on, or is returned, has missed nothing.
LEMMA PageKeeps ==
    ASSUME Returns, NEW c \in Client, ListPage(c)
    PROVE  /\ op'[c].phase = "listed" => throughout'[c] \subseteq op'[c].seen
           /\ Ahead(c)'
  <1> DEFINE rest == {k \in Present : k > op[c].token}
             page == FirstOf(rest, PageSize)
  <1>1. /\ op[c].token \in Nat /\ throughout[c] \subseteq Present
        /\ \A k \in throughout[c] : k \in op[c].seen \/ k > op[c].token
    BY DEF ListPage, Returns, ListsAhead, Ahead
  <1>2. UNCHANGED <<objects, throughout>> /\ Present' = Present
    BY DEF ListPage, Present
  <1>3. \A k \in throughout[c] : k \in op[c].seen \/ k \in rest  BY <1>1
  <1>4. page \subseteq rest  BY DEF FirstOf
  <1>5. CASE op'[c].phase = "listed"
    <2>1. op'[c].seen = op[c].seen \cup page /\ rest = page
      BY <1>5, PageGoes DEF Returns, Stores
    <2> HIDE DEF page, rest
    <2> QED  BY <1>2, <1>3, <1>5, <2>1 DEF Ahead
  <1>6. CASE op'[c].phase = "paging"
    <2>1. /\ op'[c].seen = op[c].seen \cup page /\ rest # page
          /\ op'[c].token = Max(page)
      BY <1>6, PageGoes DEF Returns, Stores
    <2>2. PICK top \in Nat : \A k \in Present : k <= top
      BY DEF Returns, ListsAhead, Bounded
    <2>3. rest \in SUBSET Nat /\ \A k \in rest : k <= top
      BY <2>2, StoreAssumption DEF Present
    <2> HIDE DEF rest
    <2>4. Max(page) \in Nat /\ \A k \in rest : k \in page \/ k > Max(page)
      BY <2>1, <2>2, <2>3, PageFirst
    <2> HIDE DEF page
    <2>5. \A k \in throughout'[c] : k \in op'[c].seen \/ k > op'[c].token
      BY <1>2, <1>3, <2>1, <2>4
    <2> QED  BY <1>1, <1>2, <1>6, <2>1, <2>4, <2>5 DEF Ahead
  <1>7. CASE op'[c].phase \notin {"paging", "listed"}
    BY <1>7 DEF Ahead
  <1> QED  BY <1>5, <1>6, <1>7

\* A listing that starts has everything ahead of it.
LEMMA StartAhead ==
    ASSUME Stores, NEW c \in Client, ListStart(c),
           throughout = [d \in Client |-> throughout[d]]
    PROVE  op'[c].phase = "paging" /\ Ahead(c)'
  <1>1. op'[c] = [NoOp EXCEPT !.phase = "paging"]
    BY GoesTo DEF Stores, ListStart
  <1>2. op'[c].phase = "paging" /\ op'[c].token = 0
    BY <1>1 DEF NoOp
  <1>3. throughout'[c] = Present /\ Present' = Present
    BY DEF ListStart, Present
  <1>4. \A k \in Present : k > 0
    <2>1. ASSUME NEW k \in Present PROVE k > 0
      <3>1. k \in Nat /\ k # 0  BY StoreAssumption DEF Present
      <3> QED  BY <3>1
    <2> QED  BY <2>1
  <1> QED  BY <1>2, <1>3, <1>4 DEF Ahead

\* What other clients store and sweep leaves nothing behind a listing's token.
LEMMA OthersAhead ==
    ASSUME Returns, NEW d \in Client, op'[d] = op[d],
           throughout'[d] \subseteq throughout[d],
           throughout'[d] \subseteq Present' \/ UNCHANGED objects
    PROVE  /\ op'[d].phase = "listed" => throughout'[d] \subseteq op'[d].seen
           /\ Ahead(d)'
  <1>1. op'[d].phase = "listed" => throughout'[d] \subseteq op'[d].seen
    BY DEF Returns, ListWhole
  <1>2. ASSUME op'[d].phase = "paging"
        PROVE  /\ op'[d].token \in Nat
               /\ throughout'[d] \subseteq Present'
               /\ \A k \in throughout'[d] : k \in op'[d].seen \/ k > op'[d].token
    <2>1. /\ op[d].token \in Nat /\ throughout[d] \subseteq Present
          /\ \A k \in throughout[d] : k \in op[d].seen \/ k > op[d].token
      BY <1>2 DEF Returns, ListsAhead, Ahead
    <2>2. UNCHANGED objects => Present' = Present  BY DEF Present
    <2> QED  BY <2>1, <2>2
  <1> QED  BY <1>1, <1>2 DEF Ahead

\* Every step keeps what a put and a listing return true.
LEMMA ReturnsStep == ASSUME Returns, NEW c \in Client, Step(c) PROVE Returns'
  <1>1. Stores' /\ StoredIsThere' /\ Bounded'
    BY StoresNext, StoredNext, BoundedNext DEF Returns, ListsAhead
  <1>2. throughout = [d \in Client |-> throughout[d]]  BY DEF Returns, ListsAhead
  <1>3. throughout' = [d \in Client |-> throughout'[d]]
    BY <1>2, StepThroughout DEF StillThere, ListStart
  <1>4. ASSUME NEW d \in Client
        PROVE  /\ op'[d].phase = "listed" => throughout'[d] \subseteq op'[d].seen
               /\ Ahead(d)'
    <2>1. CASE op'[d] = op[d] /\ ~(d = c /\ (ListStart(c) \/ ListPage(c)))
      <3>1. /\ throughout'[d] \subseteq throughout[d]
            /\ throughout'[d] \subseteq Present' \/ UNCHANGED objects
        <4>1. CASE UNCHANGED <<objects, throughout>>  BY <4>1
        <4>2. CASE StillThere  BY <4>2 DEF StillThere
        <4>3. CASE ListStart(c)  BY <1>2, <2>1, <4>3 DEF ListStart
        <4> QED  BY <4>1, <4>2, <4>3, StepThroughout
      <3> QED  BY <2>1, <3>1, OthersAhead
    <2>2. CASE d = c /\ ListPage(c)
      BY <2>2, PageKeeps
    <2>3. CASE d = c /\ ListStart(c)
      BY <1>2, <2>3, StartAhead DEF Returns
    <2>4. CASE op'[d] # op[d] /\ ~(d = c /\ (ListStart(c) \/ ListPage(c)))
      <3>1. d = c /\ op' # op  BY <2>4, StepSends DEF Returns, Stores, Shape
      <3>2. op'[d].phase \notin {"paging", "listed"}
        BY <2>4, <3>1, StepSends DEF Returns
      <3> QED  BY <3>2 DEF Ahead
    <2> QED  BY <2>1, <2>2, <2>3, <2>4
  <1> QED  BY <1>1, <1>3, <1>4 DEF Returns, ListsAhead, ListWhole

\* It is inductive.
LEMMA ReturnsNext == ASSUME Returns, [Next]_vars PROVE Returns'
  <1>1. CASE \E c \in Client : Step(c)  BY <1>1, ReturnsStep
  <1>2. CASE UNCHANGED vars
    BY <1>2 DEF vars, storeVars, keyVars, Returns, Stores, Shape, SaltsOnly, KeyedWhenOpen,
                PutsSent, StoredIsThere, ListsAhead, Bounded, Ahead, ListWhole, Present
  <1> QED  BY <1>1, <1>2 DEF Next

(***************************************************************************)
(* A put that returns stored something: whatever is lost, retried, torn or *)
(* answered by a portal, with clients that crash and sweep, and on any     *)
(* backend, the object is there, or was until it was swept (S3Storage.put, *)
(* confirmStored, multipartPut).                                           *)
(***************************************************************************)
THEOREM StoredObjectsAreThere == Spec => []StoredIsThere
  <1>1. Init => Returns  BY InitReturns
  <1>2. Returns /\ [Next]_vars => Returns'  BY ReturnsNext
  <1>3. Returns => StoredIsThere  BY DEF Returns
  <1> QED  BY <1>1, <1>2, <1>3, PTL DEF Spec

(***************************************************************************)
(* A listing that is returned is whole, whatever the size of its pages and *)
(* whatever other clients store and sweep between them (S3Storage.list).   *)
(***************************************************************************)
THEOREM ListingsAreWhole == Spec => []ListWhole
  <1>1. Init => Returns  BY InitReturns
  <1>2. Returns /\ [Next]_vars => Returns'  BY ReturnsNext
  <1>3. Returns => ListWhole  BY DEF Returns
  <1> QED  BY <1>1, <1>2, <1>3, PTL DEF Spec

---------------------------------------------------------------------------
(* Multipart uploads: whose they are, and what becomes of them.            *)

(***************************************************************************)
(* The inductive invariant of NoStray.  An upload that exists was begun by *)
(* a client's put, which still has its id in `mine`, or is excused         *)
(* (Begun).  Past its cleanup a put answers for one upload only, and what  *)
(* has ended for none (Tidied).  A client that is not working has none     *)
(* (Resting).                                                              *)
(***************************************************************************)
Excused(i) == \E m \in mess : m[1] = i
Settled(i) == i \in Ids(uploads) => Excused(i)

OthersSettled(o) == \A i \in o.mine \ {o.id} : Settled(i)

Tidied(o) ==
    /\ o.mine \subseteq 1..MaxUploads /\ o.tries \in Nat
    /\ o.phase = "putting" => o.mine = {} /\ o.id = 0
    /\ o.phase = "confirming" => (o.id = 0 /\ o.mine = {}) \/ (o.id \in o.mine /\ OthersSettled(o))
    /\ o.phase = "initiating" => o.id = 0 /\ (o.tries = 0 => o.mine = {})
    /\ o.phase \in {"tidying", "sweeping"} => o.id = 0 \/ o.id \in o.mine
    /\ o.phase = "sweeping" => \A i \in o.mine \ {o.id} : Settled(i) \/ i \in o.strays
    /\ o.phase \in {"parting", "completing", "aborting"} => o.id \in o.mine /\ OthersSettled(o)
    /\ o.phase \in Ended \cup {"paging"} => \A i \in o.mine : Settled(i)
    /\ \A u \in uploads : u.id \in o.mine => u.key = o.key

Begun == \A u \in uploads : Excused(u.id) \/ \E c \in Client : u.id \in op[c].mine

Resting == \A c \in Client :
             pc[c] \notin {"creating", "working"} => op[c].phase = "none" /\ op[c].mine = {}

Cleans == Shape /\ (\A c \in Client : Tidied(op[c])) /\ Begun /\ Resting

\* It implies NoStray: what has ended has only excused uploads.
LEMMA CleansNoStray == Cleans => NoStray
  <1> SUFFICES ASSUME Cleans, NEW u \in uploads, ~Excused(u.id)
               PROVE  \E c \in Client : u.id \in op[c].mine /\ op[c].phase \notin Ended
    BY DEF NoStray, Excused
  <1>1. PICK c \in Client : u.id \in op[c].mine  BY DEF Cleans, Begun
  <1>2. u.id \in Ids(uploads)  BY DEF Ids
  <1>3. op[c].phase \notin Ended  BY <1>1, <1>2 DEF Cleans, Tidied, Settled
  <1> QED  BY <1>1, <1>3

\* Before anything is put there are no uploads.
LEMMA InitCleans == Init => Cleans
  <1> SUFFICES ASSUME Init PROVE Cleans  OBVIOUS
  <1>1. Shape  BY InitInv DEF Inv
  <1>2. uploads = {} /\ \A c \in Client : op[c] = NoOp  BY DEF Init, StoreInit
  <1>3. NoOp.phase = "none" /\ NoOp.mine = {} /\ NoOp.tries = 0 /\ NoOp.id = 0  BY DEF NoOp
  <1>4. \A c \in Client : Tidied(op[c])  BY <1>2, <1>3 DEF Tidied
  <1>5. Begun /\ Resting  BY <1>2, <1>3 DEF Begun, Resting
  <1> QED  BY <1>1, <1>4, <1>5 DEF Cleans

\* The fields an operation keeps when its phase, or its phase and tries, move.
Same(o, next) == next.id = o.id /\ next.mine = o.mine /\ next.key = o.key

\* A new phase changes nothing else.
LEMMA PhaseOnly ==
    ASSUME NEW o, Record(o), NEW phase
    PROVE  LET x == [o EXCEPT !.phase = phase]
           IN  Record(x) /\ Same(o, x) /\ x.phase = phase /\ x.tries = o.tries
               /\ x.strays = o.strays
  BY DEF Record, Same

\* A retry counts, giving up starts counting again.
LEMMA RetriedIs ==
    ASSUME NEW o, Record(o), o.tries \in Nat, NEW exhausted
    PROVE  LET x == Retried(o, exhausted)
           IN  /\ Same(o, x) /\ x.tries \in Nat
               /\ \/ o.tries < MaxRetries /\ x.phase = o.phase /\ x.tries # 0
                  \/ ~(o.tries < MaxRetries) /\ x.phase = exhausted
  <1>1. CASE o.tries < MaxRetries
    <2>1. Retried(o, exhausted) = [o EXCEPT !.tries = o.tries + 1]  BY <1>1 DEF Retried
    <2> QED  BY <1>1, <2>1 DEF Record, Same
  <1>2. CASE ~(o.tries < MaxRetries)
    <2> DEFINE y == [o EXCEPT !.phase = exhausted]
    <2>1. Record(y) /\ Same(o, y) /\ y.phase = exhausted  BY PhaseOnly
    <2>2. Retried(o, exhausted) = [y EXCEPT !.tries = 0]  BY <1>2 DEF Retried
    <2> HIDE DEF y
    <2>3. Same(y, [y EXCEPT !.tries = 0]) /\ [y EXCEPT !.tries = 0].phase = y.phase
          /\ [y EXCEPT !.tries = 0].tries = 0
      BY <2>1 DEF Record, Same
    <2> QED  BY <1>2, <2>1, <2>2, <2>3 DEF Same
  <1> QED  BY <1>1, <1>2

(***************************************************************************)
(* What a request does to the uploads: the server gives one a new id, or   *)
(* some are gone.                                                          *)
(***************************************************************************)
Grows(c) == \E i \in 1..MaxUploads : /\ i \notin Known
                                     /\ uploads' = uploads \cup {[id |-> i, key |-> op[c].key]}

\* The server's id is a new one.
LEMMA NewIdIsNew ==
    ASSUME (1..MaxUploads) \ Known # {}
    PROVE  NewId \in 1..MaxUploads /\ NewId \notin Known
  BY DEF NewId

\* And what is excused remains so.
LEMMA UploadsStep ==
    ASSUME NEW c \in Client, Step(c)
    PROVE  /\ uploads' \subseteq uploads \/ (Initiate(c) /\ Grows(c))
           /\ mess \subseteq mess'
  <1>1. CASE Initiate(c)
    <2>1. uploads' = uploads \/ uploads' = uploads \cup {[id |-> NewId, key |-> op[c].key]}
      BY <1>1 DEF Initiate
    <2>2. mess \subseteq mess'  BY <1>1 DEF Initiate
    <2>3. NewId \in 1..MaxUploads /\ NewId \notin Known
      BY <1>1, NewIdIsNew DEF Initiate
    <2> QED  BY <1>1, <2>1, <2>2, <2>3 DEF Grows
  <1>2. CASE Put(c) \/ Confirm(c) \/ Tidy(c) \/ Part(c) \/ ListPage(c)
    BY <1>2 DEF Put, Confirm, Tidy, Part, ListPage
  <1>3. CASE Sweep(c) \/ Complete(c) \/ AbortOwn(c)
    BY <1>3 DEF Sweep, Complete, AbortOwn, Without
  <1>4. CASE ~Request(c)
    BY <1>4 DEF Step, Open, FirstLook, SecondLook, Gate, Created, ReadBack, Upload, List,
                Worked, SweepObject, Crash, Look, OnlyReads, ListStart, Delete, storeVars
  <1> QED  BY <1>1, <1>2, <1>3, <1>4 DEF Request

\* An upload whose id a client knows is not made again, nor does it lose its excuse.
LEMMA SettledStays ==
    ASSUME NEW c \in Client, Step(c), NEW i, i \in Known
    PROVE  /\ Settled(i) => Settled(i)'
           /\ Excused(i) => Excused(i)'
           /\ \A u \in uploads' : u.id = i => u \in uploads
  <1>1. Excused(i) => Excused(i)'  BY UploadsStep DEF Excused
  <1>2. \A u \in uploads' : u.id = i => u \in uploads
    <2>1. CASE uploads' \subseteq uploads  BY <2>1
    <2>2. CASE Grows(c)
      <3>1. PICK j \in 1..MaxUploads : j \notin Known
                      /\ uploads' = uploads \cup {[id |-> j, key |-> op[c].key]}
        BY <2>2 DEF Grows
      <3> QED  BY <3>1
    <2> QED  BY <2>1, <2>2, UploadsStep
  <1>3. Settled(i) => Settled(i)'  BY <1>1, <1>2 DEF Settled, Ids
  <1> QED  BY <1>1, <1>2, <1>3

\* What a put has in `mine` is known.
LEMMA MineKnown == ASSUME NEW c \in Client, NEW i \in op[c].mine PROVE i \in Known
  BY DEF Known

(***************************************************************************)
(* What each request makes of its own operation.                           *)
(***************************************************************************)
TidiedNext(c) == Tidied(op[c])' /\ op[c].mine \subseteq op'[c].mine

\* Of an operation with the same uploads it is enough to look at its new phase.
LEMMA SameTidied ==
    ASSUME Cleans, NEW c \in Client, Step(c), NEW next, Same(op[c], next), next.tries \in Nat
    PROVE  /\ next.mine \subseteq 1..MaxUploads
           /\ \A u \in uploads' : u.id \in next.mine => u.key = next.key
           /\ \A i \in next.mine : Settled(i) => Settled(i)'
           /\ OthersSettled(op[c]) => OthersSettled(next)'
  <1>1. Tidied(op[c])  BY DEF Cleans
  <1>2. \A i \in next.mine : /\ Settled(i) => Settled(i)'
                             /\ \A u \in uploads' : u.id = i => u \in uploads
    BY MineKnown, SettledStays DEF Same
  <1>3. \A u \in uploads' : u.id \in next.mine => u.key = next.key
    BY <1>1, <1>2 DEF Tidied, Same
  <1> QED  BY <1>1, <1>2, <1>3 DEF Tidied, Same, OthersSettled

\* Single puts have no upload.
LEMMA PutTidied ==
    ASSUME Cleans, NEW c \in Client, Step(c), Put(c) PROVE TidiedNext(c)
  <1> DEFINE o == op[c]
  <1>1. Shape /\ Record(o) /\ Tidied(o) /\ o.phase = "putting" /\ o.mine = {} /\ o.id = 0
    BY DEF Cleans, Shape, Put, Tidied
  <1>2. o.tries \in Nat  BY <1>1 DEF Tidied
  <1>3. ASSUME NEW next, Same(o, next), next.tries \in Nat,
               next.phase \in {"putting", "confirming", "exists", "stored", "failed"},
               op'[c] = next
        PROVE  TidiedNext(c)
    BY <1>1, <1>3 DEF TidiedNext, Tidied, Same, Ended
  <1>4. ASSUME NEW phase, phase \in {"confirming", "exists", "stored"},
               Goes(c, [o EXCEPT !.phase = phase])
        PROVE  TidiedNext(c)
    <2> DEFINE x == [o EXCEPT !.phase = phase]
    <2>1. Same(o, x) /\ x.tries \in Nat /\ x.phase = phase  BY <1>1, <1>2, PhaseOnly
    <2>2. op'[c] = x  BY <1>1, <1>4, GoesTo
    <2> HIDE DEF x
    <2> QED  BY <1>3, <1>4, <2>1, <2>2
  <1>5. CASE Goes(c, Retried(o, "failed"))
    <2> DEFINE x == Retried(o, "failed")
    <2>1. Same(o, x) /\ x.tries \in Nat /\ x.phase \in {o.phase, "failed"}
      BY <1>1, <1>2, RetriedIs
    <2>2. op'[c] = x  BY <1>1, <1>5, GoesTo
    <2> HIDE DEF x
    <2> QED  BY <1>1, <1>3, <2>1, <2>2
  <1> DEFINE refused == o.guarded /\ objects[o.key] # Nothing
  <1>6. \/ Goes(c, Retried(o, "failed")) \/ Goes(c, [o EXCEPT !.phase = "confirming"])
        \/ Goes(c, [o EXCEPT !.phase = IF refused THEN "exists" ELSE "stored"])
    BY DEF Put
  <1> HIDE DEF refused
  <1> QED  BY <1>4, <1>5, <1>6

\* A put that is believed ends with its upload gone or excused (confirmStored).
LEMMA ConfirmTidied ==
    ASSUME Cleans, NEW c \in Client, Step(c), Confirm(c) PROVE TidiedNext(c)
  <1> DEFINE o == op[c]
             thrown == Thrown(o)
  <1>1. /\ Shape /\ Record(o) /\ Tidied(o) /\ o.phase = "confirming" /\ o.tries \in Nat
        /\ (o.id = 0 /\ o.mine = {}) \/ (o.id \in o.mine /\ OthersSettled(o))
        /\ o.id \in o.mine => o.id # 0
    BY DEF Cleans, Shape, Confirm, Tidied
  <1>2. thrown = IF o.id = 0 THEN "failed" ELSE "aborting"  BY DEF Thrown
  <1> HIDE DEF thrown
  <1>3. ASSUME NEW next, op'[c] = next, Same(o, next), next.tries \in Nat,
               \/ next.phase = "stored"
               \/ next.phase = thrown
               \/ next.phase = IF o.id = 0 THEN "putting" ELSE "completing"
        PROVE  TidiedNext(c)
    <2>1. /\ next.mine \subseteq 1..MaxUploads
          /\ \A u \in uploads' : u.id \in next.mine => u.key = next.key
          /\ OthersSettled(o) => OthersSettled(next)'
      BY <1>3, SameTidied
    <2>2. CASE o.id = 0 /\ o.mine = {}
      BY <1>2, <1>3, <2>1, <2>2 DEF TidiedNext, Tidied, Same, Ended
    <2>3. CASE o.id \in o.mine /\ OthersSettled(o)
      <3>1. o.id # 0 /\ next.id \in next.mine /\ next.id = o.id  BY <1>1, <1>3, <2>3 DEF Same
      <3>2. CASE next.phase = "stored"
        <4>1. Settled(next.id)'
          <5>1. uploads' = uploads  BY DEF Confirm
          <5>2. CASE Alive(o)
            <6>1. <<o.id, "believed">> \in mess'  BY <1>3, <3>2, <5>2 DEF Confirm
            <6> QED  BY <3>1, <6>1 DEF Settled, Excused
          <5>3. CASE ~Alive(o)
            BY <3>1, <5>1, <5>3 DEF Alive, Settled, Ids
          <5> QED  BY <5>2, <5>3
        <4>2. \A i \in next.mine : Settled(i)'
          BY <2>1, <2>3, <4>1 DEF OthersSettled
        <4> QED  BY <1>3, <2>1, <3>2, <4>2 DEF TidiedNext, Tidied, Ended, Same
      <3>3. CASE next.phase \in {"aborting", "completing"}
        BY <1>3, <2>1, <2>3, <3>1, <3>3 DEF TidiedNext, Tidied, Ended, Same
      <3> QED  BY <1>2, <1>3, <3>1, <3>2, <3>3
    <2> QED  BY <1>1, <2>2, <2>3
  <1>4. CASE Goes(c, [o EXCEPT !.phase = IF Confirmed(o) THEN "stored" ELSE Thrown(o)])
    <2> DEFINE phase == IF Confirmed(o) THEN "stored" ELSE Thrown(o)
               x == [o EXCEPT !.phase = phase]
    <2>1. phase = "stored" \/ phase = thrown  BY DEF thrown
    <2>2. Same(o, x) /\ x.tries \in Nat /\ x.phase = phase  BY <1>1, PhaseOnly
    <2>3. op'[c] = x  BY <1>1, <1>4, GoesTo
    <2> HIDE DEF x, phase
    <2> QED  BY <1>3, <2>1, <2>2, <2>3
  <1>5. CASE Goes(c, Retried([o EXCEPT !.phase = IF o.id = 0 THEN "putting" ELSE "completing"],
                             Thrown(o)))
    <2> DEFINE phase == IF o.id = 0 THEN "putting" ELSE "completing"
               again == [o EXCEPT !.phase = phase]
               x == Retried(again, thrown)
    <2>1. Record(again) /\ Same(o, again) /\ again.tries = o.tries /\ again.phase = phase
      BY <1>1, PhaseOnly
    <2>2. op'[c] = x  BY <1>1, <1>5, GoesTo DEF thrown
    <2> HIDE DEF again
    <2>3. Same(again, x) /\ x.tries \in Nat /\ x.phase \in {again.phase, thrown}
      BY <1>1, <2>1, RetriedIs
    <2> HIDE DEF x
    <2> QED  BY <1>3, <2>1, <2>2, <2>3 DEF Same
  <1> QED  BY <1>4, <1>5 DEF Confirm

\* Parts, their completion and the abort keep the one upload, or are done with it.
LEMMA PartTidied ==
    ASSUME Cleans, NEW c \in Client, Step(c), Part(c) \/ Complete(c) \/ AbortOwn(c)
    PROVE  TidiedNext(c)
  <1> DEFINE o == op[c]
  <1>1. /\ Shape /\ Record(o) /\ Tidied(o) /\ o.tries \in Nat
        /\ o.phase \in {"parting", "completing", "aborting"}
        /\ o.id \in o.mine /\ o.mine \subseteq 1..MaxUploads /\ OthersSettled(o)
    BY DEF Cleans, Shape, Part, Complete, AbortOwn, Tidied
  <1> PICK id : id = o.id  OBVIOUS
  <1>2. ASSUME NEW next, op'[c] = next, Same(o, next), next.tries \in Nat,
               \/ next.phase \in {"parting", "completing", "confirming", "aborting"}
               \/ next.phase \in {"stored", "failed"} /\ Settled(id)'
        PROVE  TidiedNext(c)
    <2>1. /\ next.mine \subseteq 1..MaxUploads
          /\ \A u \in uploads' : u.id \in next.mine => u.key = next.key
          /\ OthersSettled(next)' /\ next.id \in next.mine /\ next.id = id
      BY <1>1, <1>2, SameTidied DEF Same
    <2>2. CASE next.phase \in {"parting", "completing", "confirming", "aborting"}
      BY <1>2, <2>1, <2>2 DEF TidiedNext, Tidied, Ended, Same
    <2>3. CASE next.phase \in {"stored", "failed"} /\ Settled(id)'
      <3>1. \A i \in next.mine : Settled(i)'  BY <2>1, <2>3 DEF OthersSettled
      <3> QED  BY <1>2, <2>1, <2>3, <3>1 DEF TidiedNext, Tidied, Ended, Same
    <2> QED  BY <1>2, <2>2, <2>3
  <1>3. ASSUME NEW phase, Goes(c, [o EXCEPT !.phase = phase]),
               \/ phase \in {"confirming", "aborting"}
               \/ phase \in {"stored", "failed"} /\ Settled(id)'
        PROVE  TidiedNext(c)
    <2> DEFINE x == [o EXCEPT !.phase = phase]
    <2>1. Same(o, x) /\ x.tries \in Nat /\ x.phase = phase  BY <1>1, PhaseOnly
    <2>2. op'[c] = x  BY <1>1, <1>3, GoesTo
    <2> HIDE DEF x
    <2> QED  BY <1>2, <1>3, <2>1, <2>2
  <1>4. ASSUME Goes(c, Retried(o, "aborting")) PROVE TidiedNext(c)
    <2> DEFINE x == Retried(o, "aborting")
    <2>1. Same(o, x) /\ x.tries \in Nat /\ x.phase \in {o.phase, "aborting"}
      BY <1>1, RetriedIs
    <2>2. op'[c] = x  BY <1>1, <1>4, GoesTo
    <2> HIDE DEF x
    <2> QED  BY <1>1, <1>2, <2>1, <2>2
  <1>5. CASE Part(c)
    <2> DEFINE phase == IF o.sent + 1 = Parts THEN "completing" ELSE "parting"
               a == [o EXCEPT !.sent = o.sent + 1]
               b == [a EXCEPT !.tries = 0]
               sent == [b EXCEPT !.phase = phase]
               torn == [sent EXCEPT !.torn = TRUE]
    <2>1. phase \in {"completing", "parting"}  OBVIOUS
    <2>2. \/ Goes(c, sent) \/ Goes(c, torn) \/ Goes(c, [o EXCEPT !.phase = "aborting"])
          \/ Goes(c, Retried(o, "aborting"))
      BY <1>5 DEF Part
    <2> HIDE DEF phase
    <2>3. Record(a) /\ Same(o, a)  BY <1>1 DEF Record, Same
    <2> HIDE DEF a
    <2>4. Record(b) /\ Same(o, b) /\ b.tries = 0  BY <2>3 DEF Record, Same
    <2> HIDE DEF b
    <2>5. Record(sent) /\ Same(b, sent) /\ sent.tries = 0 /\ sent.phase = phase
      BY <2>4, PhaseOnly
    <2> HIDE DEF sent
    <2>6. Same(sent, torn) /\ torn.tries = 0 /\ torn.phase = phase
      BY <2>5 DEF Record, Same
    <2> HIDE DEF torn
    <2>7. CASE Goes(c, sent)
      <3>1. op'[c] = sent  BY <1>1, <2>7, GoesTo
      <3> QED  BY <1>2, <2>1, <2>4, <2>5, <3>1 DEF Same
    <2>8. CASE Goes(c, torn)
      <3>1. op'[c] = torn  BY <1>1, <2>8, GoesTo
      <3> QED  BY <1>2, <2>1, <2>4, <2>5, <2>6, <3>1 DEF Same
    <2> QED  BY <1>3, <1>4, <2>2, <2>7, <2>8
  <1>6. CASE Complete(c)
    <2>1. uploads' = Without({id}) => Settled(id)'
      BY DEF Without, Settled, Ids
    <2>2. \/ uploads' = Without({id}) /\ Goes(c, [o EXCEPT !.phase = "stored"])
          \/ Goes(c, [o EXCEPT !.phase = "aborting"]) \/ Goes(c, [o EXCEPT !.phase = "confirming"])
          \/ Goes(c, Retried(o, "aborting"))
      BY <1>6 DEF Complete
    <2> QED  BY <1>3, <1>4, <2>1, <2>2
  <1>7. CASE AbortOwn(c)
    <2>1. Goes(c, [o EXCEPT !.phase = "failed"])  BY <1>7 DEF AbortOwn
    <2>2. Settled(id)'
      <3>1. CASE uploads' = Without({id})  BY <3>1 DEF Without, Settled, Ids
      <3>2. CASE mess' = mess \cup {<<id, "cleanup">>}
        <4>1. <<id, "cleanup">> \in mess'  BY <3>2
        <4> QED  BY <4>1 DEF Settled, Excused
      <3> QED  BY <1>7, <3>1, <3>2 DEF AbortOwn
    <2> QED  BY <1>3, <2>1, <2>2
  <1> QED  BY <1>5, <1>6, <1>7

\* An upload that is begun is the client's, whether or not it was told of it.
LEMMA InitiateTidied ==
    ASSUME Cleans, NEW c \in Client, Step(c), Initiate(c)
    PROVE  TidiedNext(c) /\ \A u \in uploads' \ uploads : u.id \in op'[c].mine
  <1> DEFINE o == op[c]
  <1>1. /\ Shape /\ Record(o) /\ Tidied(o) /\ o.phase = "initiating" /\ o.tries \in Nat
        /\ o.id = 0 /\ (o.tries = 0 => o.mine = {}) /\ o.mine \subseteq 1..MaxUploads
    BY DEF Cleans, Shape, Initiate, Tidied
  <1>2. PICK new : new = NewId  OBVIOUS
  <1>3. new \in 1..MaxUploads /\ new \notin Known
    BY <1>2, NewIdIsNew DEF Initiate
  <1>4. ASSUME NEW next, op'[c] = next, next.key = o.key, next.tries \in Nat,
               \/ next.mine = o.mine /\ uploads' = uploads
               \/ next.mine = o.mine \cup {new}
                    /\ uploads' = uploads \cup {[id |-> new, key |-> o.key]},
               \/ next.phase = "initiating" /\ next.id = 0 /\ next.tries # 0
               \/ next.phase = "tidying" /\ (next.id = 0 \/ next.id \in next.mine)
               \/ next.phase = "parting" /\ next.id = new /\ next.mine = {new}
               \/ next.phase = "failed" /\ \A i \in next.mine : Excused(i)'
        PROVE  TidiedNext(c) /\ \A u \in uploads' \ uploads : u.id \in op'[c].mine
    <2>1. next.mine \subseteq 1..MaxUploads  BY <1>1, <1>3, <1>4
    <2>2. \A i \in o.mine : \A u \in uploads' : u.id = i => u \in uploads
      BY MineKnown, SettledStays
    <2>3. \A u \in uploads : u.id \in o.mine => u.key = o.key  BY <1>1 DEF Tidied
    <2>4. \A u \in uploads' : u.id \in next.mine => u.key = next.key
      <3>1. CASE next.mine = o.mine  BY <1>4, <2>2, <2>3, <3>1
      <3>2. CASE next.mine = o.mine \cup {new}
                   /\ uploads' = uploads \cup {[id |-> new, key |-> o.key]}
        <4>1. \A u \in uploads : u.id # new  BY <1>3 DEF Known, Ids
        <4> QED  BY <1>4, <2>3, <3>2, <4>1
      <3> QED  BY <1>4, <3>1, <3>2
    <2>5. next.phase = "parting" => next.id \in next.mine /\ OthersSettled(next)'
      BY <1>4 DEF OthersSettled
    <2>6. next.phase = "failed" => \A i \in next.mine : Settled(i)'
      BY <1>4 DEF Settled
    <2> QED  BY <1>4, <2>1, <2>4, <2>5, <2>6 DEF TidiedNext, Tidied, Ended
  <1>5. ASSUME NEW ids, Goes(c, Retried([o EXCEPT !.mine = ids], "failed")),
               mess' = IF o.tries < MaxRetries THEN mess
                       ELSE mess \cup {<<i, "exhausted">> : i \in ids},
               \/ ids = o.mine /\ uploads' = uploads
               \/ ids = o.mine \cup {new}
                    /\ uploads' = uploads \cup {[id |-> new, key |-> o.key]}
        PROVE  TidiedNext(c) /\ \A u \in uploads' \ uploads : u.id \in op'[c].mine
    <2> DEFINE y == [o EXCEPT !.mine = ids]
               x == Retried(y, "failed")
    <2>1. /\ Record(y) /\ y.mine = ids /\ y.id = 0 /\ y.key = o.key /\ y.tries = o.tries
          /\ y.phase = "initiating"
      BY <1>1 DEF Record
    <2>2. op'[c] = x  BY <1>1, <1>5, GoesTo
    <2> HIDE DEF y
    <2>3. /\ Same(y, x) /\ x.tries \in Nat
          /\ \/ o.tries < MaxRetries /\ x.phase = y.phase /\ x.tries # 0
             \/ ~(o.tries < MaxRetries) /\ x.phase = "failed"
      BY <1>1, <2>1, RetriedIs
    <2> HIDE DEF x
    <2>4. ~(o.tries < MaxRetries) => \A i \in ids : Excused(i)'
      <3> SUFFICES ASSUME ~(o.tries < MaxRetries), NEW i \in ids PROVE Excused(i)'
        OBVIOUS
      <3>1. <<i, "exhausted">> \in mess'  BY <1>5
      <3> QED  BY <3>1 DEF Excused
    <2> QED  BY <1>4, <1>5, <2>1, <2>2, <2>3, <2>4 DEF Same
  <1>6. ASSUME uploads' = uploads \cup {[id |-> new, key |-> o.key]},
               Goes(c, [o EXCEPT !.phase = IF o.tries > 0 THEN "tidying" ELSE "parting",
                                 !.id = new, !.mine = o.mine \cup {new}, !.tries = 0])
        PROVE  TidiedNext(c) /\ \A u \in uploads' \ uploads : u.id \in op'[c].mine
    <2> DEFINE phase == IF o.tries > 0 THEN "tidying" ELSE "parting"
               ids == o.mine \cup {new}
               d == [o EXCEPT !.phase = phase]
               e == [d EXCEPT !.id = new]
               f == [e EXCEPT !.mine = ids]
               x == [f EXCEPT !.tries = 0]
    <2>1. phase = "tidying" \/ (phase = "parting" /\ ids = {new})  BY <1>1
    <2>2. op'[c] = x  BY <1>1, <1>6, GoesTo
    <2> HIDE DEF phase, ids
    <2>3. Record(d) /\ d.phase = phase /\ d.key = o.key  BY <1>1 DEF Record
    <2> HIDE DEF d
    <2>4. Record(e) /\ e.phase = phase /\ e.key = o.key /\ e.id = new  BY <2>3 DEF Record
    <2> HIDE DEF e
    <2>5. Record(f) /\ f.phase = phase /\ f.key = o.key /\ f.id = new /\ f.mine = ids
      BY <2>4 DEF Record
    <2> HIDE DEF f
    <2>6. x.phase = phase /\ x.key = o.key /\ x.id = new /\ x.mine = ids /\ x.tries = 0
      BY <2>5 DEF Record
    <2> HIDE DEF x
    <2>7. x.mine = o.mine \cup {new} /\ x.id \in x.mine  BY <2>6 DEF ids
    <2> QED  BY <1>4, <1>6, <2>1, <2>2, <2>6, <2>7
  <1>7. ASSUME Goes(c, [o EXCEPT !.phase = "tidying"]), uploads' = uploads
        PROVE  TidiedNext(c) /\ \A u \in uploads' \ uploads : u.id \in op'[c].mine
    <2> DEFINE x == [o EXCEPT !.phase = "tidying"]
    <2>1. Same(o, x) /\ x.phase = "tidying" /\ x.tries = o.tries  BY <1>1, PhaseOnly
    <2>2. op'[c] = x  BY <1>1, <1>7, GoesTo
    <2> HIDE DEF x
    <2> QED  BY <1>1, <1>4, <1>7, <2>1, <2>2 DEF Same
  <1>8. [o EXCEPT !.mine = o.mine] = o  BY <1>1 DEF Record
  <1> QED  BY <1>2, <1>5, <1>6, <1>7, <1>8 DEF Initiate

\* The cleanup takes every upload of the key, or says which it leaves.
LEMMA TidyTidied ==
    ASSUME Cleans, NEW c \in Client, Step(c), Tidy(c) \/ Sweep(c) PROVE TidiedNext(c)
  <1> DEFINE o == op[c]
  <1>1. /\ Shape /\ Record(o) /\ Tidied(o) /\ o.phase \in {"tidying", "sweeping"}
        /\ o.tries \in Nat /\ o.mine \subseteq 1..MaxUploads /\ (o.id = 0 \/ o.id \in o.mine)
    BY DEF Cleans, Shape, Tidy, Sweep, Tidied
  <1>2. ASSUME NEW next, op'[c] = next, Same(o, next), next.tries \in Nat,
               \/ next.phase = "sweeping"
                    /\ \A i \in o.mine \ {o.id} : Settled(i)' \/ i \in next.strays
               \/ next.phase = (IF o.id = 0 THEN "failed" ELSE "parting")
                    /\ \A i \in o.mine \ {o.id} : Settled(i)'
        PROVE  TidiedNext(c)
    <2>1. /\ next.mine \subseteq 1..MaxUploads
          /\ \A u \in uploads' : u.id \in next.mine => u.key = next.key
      BY <1>2, SameTidied
    <2>2. next.id = o.id /\ next.mine = o.mine  BY <1>2 DEF Same
    <2>3. CASE /\ next.phase = "sweeping"
               /\ \A i \in o.mine \ {o.id} : Settled(i)' \/ i \in next.strays
      BY <1>1, <1>2, <2>1, <2>2, <2>3 DEF TidiedNext, Tidied, Ended
    <2>4. CASE next.phase = "parting" /\ o.id \in o.mine /\ \A i \in o.mine \ {o.id} : Settled(i)'
      BY <1>2, <2>1, <2>2, <2>4 DEF TidiedNext, Tidied, Ended, OthersSettled
    <2>5. CASE next.phase = "failed" /\ o.id = 0 /\ \A i \in o.mine \ {o.id} : Settled(i)'
      <3>1. \A i \in next.mine : Settled(i)'  BY <1>1, <2>2, <2>5
      <3> QED  BY <1>2, <2>1, <2>2, <2>5, <3>1 DEF TidiedNext, Tidied, Ended
    <2> QED  BY <1>1, <1>2, <2>3, <2>4, <2>5
  <1>3. ASSUME Goes(c, AfterTidying(o)), \A i \in o.mine \ {o.id} : Settled(i)'
        PROVE  TidiedNext(c)
    <2> DEFINE phase == IF o.id = 0 THEN "failed" ELSE "parting"
               x == [o EXCEPT !.phase = phase]
    <2>1. Same(o, x) /\ x.phase = phase /\ x.tries \in Nat  BY <1>1, PhaseOnly
    <2>2. op'[c] = x  BY <1>1, <1>3, GoesTo DEF AfterTidying
    <2> HIDE DEF x
    <2> QED  BY <1>2, <1>3, <2>1, <2>2
  <1>4. CASE Tidy(c)
    <2> DEFINE strays == {u.id : u \in {v \in uploads : v.key = o.key}} \ {o.id}
    <2>1. CASE Goes(c, [o EXCEPT !.phase = "sweeping", !.strays = strays])
               /\ UNCHANGED <<uploads, mess>>
      <3> DEFINE y == [o EXCEPT !.phase = "sweeping"]
                 x == [y EXCEPT !.strays = strays]
      <3>1. ASSUME NEW i \in o.mine \ {o.id} PROVE Settled(i)' \/ i \in strays
        <4>1. \A u \in uploads : u.id = i => u.key = o.key  BY <1>1 DEF Tidied
        <4> QED  BY <2>1, <4>1 DEF Settled, Ids
      <3>2. op'[c] = x  BY <1>1, <2>1, GoesTo
      <3> HIDE DEF strays
      <3>3. Record(y) /\ Same(o, y) /\ y.phase = "sweeping" /\ y.tries = o.tries
        BY <1>1, PhaseOnly
      <3> HIDE DEF y
      <3>4. Same(y, x) /\ x.phase = "sweeping" /\ x.tries = o.tries /\ x.strays = strays
        BY <3>3 DEF Record, Same
      <3> HIDE DEF x
      <3> QED  BY <1>1, <1>2, <3>1, <3>2, <3>3, <3>4 DEF Same
    <2>2. CASE Goes(c, AfterTidying(o))
               /\ mess' = mess \cup {<<i, "cleanup">> : i \in o.mine \ {o.id}}
      <3>1. ASSUME NEW i \in o.mine \ {o.id} PROVE Settled(i)'
        <4>1. <<i, "cleanup">> \in mess'  BY <2>2
        <4> QED  BY <4>1 DEF Settled, Excused
      <3> QED  BY <1>3, <2>2, <3>1
    <2> QED  BY <1>4, <2>1, <2>2 DEF Tidy
  <1>5. CASE Sweep(c)
    <2>1. PICK j : j = Min(o.strays)  OBVIOUS
    <2>2. \A i \in o.mine \ {o.id} : Settled(i) \/ i \in o.strays
      BY <1>1, <1>5 DEF Sweep, Tidied
    <2>3. \A i \in o.mine : Settled(i) => Settled(i)'  BY MineKnown, SettledStays
    <2>4. CASE o.strays = {} /\ Goes(c, AfterTidying(o))
      BY <1>3, <2>2, <2>3, <2>4
    <2>5. CASE /\ Goes(c, [o EXCEPT !.strays = o.strays \ {j}])
               /\ uploads' = Without({j}) \/ mess' = mess \cup {<<j, "cleanup">>}
      <3> DEFINE fewer == o.strays \ {j}
                 x == [o EXCEPT !.strays = fewer]
      <3>1. Settled(j)'
        <4>1. CASE uploads' = Without({j})  BY <4>1 DEF Without, Settled, Ids
        <4>2. CASE mess' = mess \cup {<<j, "cleanup">>}
          <5>1. <<j, "cleanup">> \in mess'  BY <4>2
          <5> QED  BY <5>1 DEF Settled, Excused
        <4> QED  BY <2>5, <4>1, <4>2
      <3>2. ASSUME NEW i \in o.mine \ {o.id} PROVE Settled(i)' \/ i \in fewer
        BY <2>2, <2>3, <3>1
      <3>3. op'[c] = x  BY <1>1, <2>5, GoesTo
      <3> HIDE DEF fewer
      <3>4. Same(o, x) /\ x.phase = o.phase /\ x.tries = o.tries /\ x.strays = fewer
        BY <1>1 DEF Record, Same
      <3>5. o.phase = "sweeping"  BY <1>5 DEF Sweep
      <3> HIDE DEF x
      <3> QED  BY <1>1, <1>2, <3>2, <3>3, <3>4, <3>5
    <2> QED  BY <1>5, <2>1, <2>4, <2>5 DEF Sweep
  <1> QED  BY <1>4, <1>5
\* A listing has no uploads of its own, or only excused ones.
LEMMA ListPageTidied ==
    ASSUME Cleans, NEW c \in Client, Step(c), ListPage(c) PROVE TidiedNext(c)
  <1> DEFINE o == op[c]
  <1>1. /\ Shape /\ Record(o) /\ Tidied(o) /\ o.phase = "paging" /\ o.tries \in Nat
        /\ \A i \in o.mine : Settled(i)
    BY DEF Cleans, Shape, ListPage, Tidied
  <1>2. ASSUME NEW next, op'[c] = next, Same(o, next), next.tries = o.tries,
               next.phase \in {"paging", "listed", "failed"}
        PROVE  TidiedNext(c)
    <2>1. /\ next.mine \subseteq 1..MaxUploads
          /\ \A u \in uploads' : u.id \in next.mine => u.key = next.key
          /\ \A i \in next.mine : Settled(i)'
      BY <1>1, <1>2, SameTidied DEF Same
    <2> QED  BY <1>1, <1>2, <2>1 DEF TidiedNext, Tidied, Same, Ended
  <1>3. ASSUME NEW seen, NEW token,
               \/ Goes(c, [[o EXCEPT !.seen = seen] EXCEPT !.phase = "listed"])
               \/ Goes(c, [[o EXCEPT !.seen = seen] EXCEPT !.token = token])
        PROVE  TidiedNext(c)
    <2> DEFINE given == [o EXCEPT !.seen = seen]
               x == [given EXCEPT !.phase = "listed"]
               y == [given EXCEPT !.token = token]
    <2>1. op'[c] = x \/ op'[c] = y  BY <1>1, <1>3, GoesTo
    <2>2. Record(given) /\ Same(o, given) /\ given.tries = o.tries /\ given.phase = o.phase
      BY <1>1 DEF Record, Same
    <2> HIDE DEF given
    <2>3. Same(given, x) /\ x.tries = given.tries /\ x.phase = "listed"  BY <2>2, PhaseOnly
    <2>4. Same(given, y) /\ y.tries = given.tries /\ y.phase = given.phase
      BY <2>2 DEF Record, Same
    <2> HIDE DEF x, y
    <2> QED  BY <1>1, <1>2, <2>1, <2>2, <2>3, <2>4 DEF Same
  <1>4. CASE Goes(c, [o EXCEPT !.phase = "failed"])
    <2> DEFINE x == [o EXCEPT !.phase = "failed"]
    <2>1. op'[c] = x  BY <1>1, <1>4, GoesTo
    <2>2. Same(o, x) /\ x.tries = o.tries /\ x.phase = "failed"  BY <1>1, PhaseOnly
    <2> HIDE DEF x
    <2> QED  BY <1>2, <2>1, <2>2
  <1> QED  BY <1>3, <1>4 DEF ListPage, TornPage

\* Whatever the request, and nothing it began is forgotten.
LEMMA RequestTidied ==
    ASSUME Cleans, NEW c \in Client, Step(c), Request(c)
    PROVE  TidiedNext(c) /\ \A u \in uploads' \ uploads : u.id \in op'[c].mine
  <1>1. CASE Initiate(c)  BY <1>1, InitiateTidied
  <1>2. CASE ~Initiate(c)
    <2>1. TidiedNext(c)
      BY <1>2, PutTidied, ConfirmTidied, PartTidied, TidyTidied, ListPageTidied DEF Request
    <2>2. uploads' \subseteq uploads  BY <1>2, UploadsStep
    <2> QED  BY <2>1, <2>2
  <1> QED  BY <1>1, <1>2

\* An operation that does not move stays tidied, whatever the others do.
LEMMA OthersTidied ==
    ASSUME Cleans, NEW c \in Client, Step(c), NEW d \in Client, op'[d] = op[d]
    PROVE  Tidied(op[d])'
  <1> PICK o : o = op[d]  OBVIOUS
  <1>1. Tidied(o) /\ op'[d] = o  BY DEF Cleans
  <1>2. \A i \in o.mine : /\ Settled(i) => Settled(i)'
                          /\ \A u \in uploads' : u.id = i => u \in uploads
    BY MineKnown, SettledStays
  <1>3. \A u \in uploads' : u.id \in o.mine => u.key = o.key  BY <1>1, <1>2 DEF Tidied
  <1>4. OthersSettled(o) => OthersSettled(o)'  BY <1>2 DEF OthersSettled
  <1>5. Tidied(o)'  BY <1>1, <1>2, <1>3, <1>4 DEF Tidied
  <1> QED  BY <1>1, <1>5 DEF Tidied

\* What a client that is not working starts, or is left with when it ends, is tidy.
LEMMA StartTidied ==
    ASSUME NEW c \in Client, NEW o, op'[c] = o, o.mine = {}, o.id = 0, o.tries = 0,
           o.phase \in {"none", "putting", "initiating", "paging"}
    PROVE  Tidied(op[c])'
  BY DEF Tidied
\* A put starts without uploads.
LEMMA PutOpFresh ==
    ASSUME NEW k, NEW body, NEW guarded, NEW large
    PROVE  LET o == PutOp(k, body, guarded, large)
           IN  o.mine = {} /\ o.id = 0 /\ o.tries = 0 /\ o.phase \in {"putting", "initiating"}
  BY PutOpIs

(***************************************************************************)
(* A step that is not a request leaves the operation, starts one without   *)
(* uploads where there was none, or drops one that has ended, or that ends *)
(* with its process, which excuses its uploads.                            *)
(***************************************************************************)
LEMMA OtherSteps ==
    ASSUME Cleans, NEW c \in Client, Step(c), ~(Request(c) /\ UNCHANGED keyVars)
    PROVE  /\ Tidied(op[c])' /\ uploads' = uploads
           /\ \A i \in op[c].mine : i \in op'[c].mine \/ Settled(i)'
           /\ pc'[c] \notin {"creating", "working"} => op'[c].phase = "none" /\ op'[c].mine = {}
  <1>1. /\ Shape /\ Tidied(op[c])
        /\ pc[c] \notin {"creating", "working"} => op[c].phase = "none" /\ op[c].mine = {}
    BY DEF Cleans, Resting
  <1>2. uploads' = uploads
    BY DEF Step, Open, FirstLook, SecondLook, Gate, Created, ReadBack, Upload, List, Worked,
           SweepObject, Crash, Look, OnlyReads, ListStart, Delete, storeVars
  <1>3. NoOp.phase = "none" /\ NoOp.mine = {} /\ NoOp.id = 0 /\ NoOp.tries = 0  BY DEF NoOp
  <1>4. CASE UNCHANGED op /\ (pc' = pc \/ pc[c] \notin {"creating", "working"})
    BY <1>1, <1>2, <1>4, OthersTidied
  <1>5. ASSUME NEW o, Goes(c, o), o.mine = {}, o.id = 0, o.tries = 0,
               \/ o.phase \in {"putting", "initiating", "paging"}
                    /\ pc[c] \notin {"creating", "working"} /\ pc'[c] \in {"creating", "working"}
               \/ o.phase = "none" /\ \A i \in op[c].mine : Settled(i)'
        PROVE  /\ Tidied(op[c])'
               /\ \A i \in op[c].mine : i \in op'[c].mine \/ Settled(i)'
               /\ pc'[c] \notin {"creating", "working"}
                    => op'[c].phase = "none" /\ op'[c].mine = {}
    BY <1>1, <1>5, GoesTo, StartTidied
  <1>6. CASE Open(c) \/ FirstLook(c) \/ SecondLook(c) \/ ReadBack(c) \/ SweepObject(c)
    <2>1. UNCHANGED op
      BY <1>6 DEF Open, FirstLook, SecondLook, ReadBack, SweepObject, Look, OnlyReads, Delete,
                  storeVars
    <2>2. pc' = pc \/ pc[c] \notin {"creating", "working"}
      BY <1>6 DEF Open, FirstLook, SecondLook, ReadBack, SweepObject, keyVars
    <2> QED  BY <1>4, <2>1, <2>2
  <1>7. CASE Created(c) \/ Worked(c)
    <2>1. Goes(c, NoOp) /\ op[c].phase \in Ended  BY <1>7 DEF Created, Worked
    <2>2. \A i \in op[c].mine : Settled(i)  BY <1>1, <2>1 DEF Tidied
    <2>3. \A i \in op[c].mine : Settled(i)'  BY <2>2, MineKnown, SettledStays
    <2> QED  BY <1>2, <1>3, <1>5, <2>1, <2>3
  <1>8. CASE Crash(c)
    <2>1. ASSUME NEW i \in op[c].mine PROVE Settled(i)'
      <3>1. <<i, "crash">> \in mess'  BY <1>8 DEF Crash
      <3> QED  BY <3>1 DEF Settled, Excused
    <2>2. Goes(c, NoOp)  BY <1>8 DEF Crash
    <2> QED  BY <1>2, <1>3, <1>5, <2>1, <2>2
  <1>9. CASE Gate(c)
    <2>1. pc[c] = "gate"  BY <1>9 DEF Gate
    <2>2. CASE UNCHANGED storeVars
      BY <1>2, <1>4, <2>1, <2>2 DEF storeVars
    <2>3. CASE Goes(c, PutOp(KeyFile, drawn + 1, TRUE, FALSE)) /\ To(c, "creating")
      <3> DEFINE o == PutOp(KeyFile, drawn + 1, TRUE, FALSE)
      <3>1. o.mine = {} /\ o.id = 0 /\ o.tries = 0 /\ o.phase \in {"putting", "initiating"}
        BY PutOpFresh
      <3>2. pc'[c] = "creating"  BY <1>1, <2>3 DEF To, Shape
      <3> HIDE DEF o
      <3> QED  BY <1>2, <1>5, <2>1, <2>3, <3>1, <3>2 DEF o
    <2> QED  BY <1>9, <2>2, <2>3 DEF Gate
  <1>10. CASE Upload(c)
    <2>1. pc[c] = "open" /\ pc'[c] = "working"  BY <1>1, <1>10 DEF Upload, To, Shape
    <2>2. PICK n \in Contents :
            \/ Goes(c, PutOp(Address(key[c], n), key[c], FALSE, n \in Large))
            \/ Goes(c, PutOp(Address(key[c], n), key[c], TRUE, n \in Large))
      BY <1>10 DEF Upload
    <2>3. PICK o : /\ Goes(c, o) /\ o.mine = {} /\ o.id = 0 /\ o.tries = 0
                   /\ o.phase \in {"putting", "initiating"}
      <3>1. ASSUME NEW o, Goes(c, o), o.mine = {}, o.id = 0, o.tries = 0,
                   o.phase \in {"putting", "initiating"}
            PROVE  \E x : /\ Goes(c, x) /\ x.mine = {} /\ x.id = 0 /\ x.tries = 0
                          /\ x.phase \in {"putting", "initiating"}
        BY <3>1
      <3> QED  BY <2>2, <3>1, PutOpFresh
    <2> QED  BY <1>2, <1>5, <2>1, <2>3
  <1>11. CASE List(c)
    <2>1. pc[c] = "open" /\ pc'[c] = "working"  BY <1>1, <1>11 DEF List, To, Shape
    <2> DEFINE o == [NoOp EXCEPT !.phase = "paging"]
    <2>2. Goes(c, o)  BY <1>11 DEF List, ListStart
    <2>3. o.mine = {} /\ o.id = 0 /\ o.tries = 0 /\ o.phase = "paging"  BY DEF NoOp
    <2> HIDE DEF o
    <2> QED  BY <1>2, <1>5, <2>1, <2>2, <2>3
  <1> QED  BY <1>6, <1>7, <1>8, <1>9, <1>10, <1>11 DEF Step

\* No step leaves an upload that nobody answers for.
LEMMA CleansStep == ASSUME Stores, Cleans, NEW c \in Client, Step(c) PROVE Cleans'
  <1>1. Shape'  BY StoresNext DEF Stores
  <1>2. ASSUME NEW d \in Client, d # c PROVE op'[d] = op[d]
    <2>1. op = [e \in Client |-> op[e]]  BY DEF Stores, Shape
    <2> QED  BY <1>2, <2>1, StepSends
  <1>3. /\ Tidied(op[c])'
        /\ \A i \in op[c].mine : i \in op'[c].mine \/ Settled(i)'
        /\ \A u \in uploads' \ uploads : u.id \in op'[c].mine
    <2>1. CASE Request(c)  BY <2>1, RequestTidied DEF TidiedNext
    <2>2. CASE ~(Request(c) /\ UNCHANGED keyVars)  BY <2>2, OtherSteps
    <2> QED  BY <2>1, <2>2
  <1>4. \A d \in Client : Tidied(op[d])'
    <2> SUFFICES ASSUME NEW d \in Client PROVE Tidied(op[d])'  OBVIOUS
    <2>1. CASE d = c  BY <1>3, <2>1
    <2>2. CASE d # c  BY <1>2, <2>2, OthersTidied
    <2> QED  BY <2>1, <2>2
  <1>5. Begun'
    <2> SUFFICES ASSUME NEW u \in uploads'
                 PROVE  Excused(u.id)' \/ \E d \in Client : u.id \in op'[d].mine
      BY DEF Begun
    <2>1. CASE u \notin uploads  BY <1>3, <2>1
    <2>2. CASE u \in uploads /\ Excused(u.id)  BY <2>2, UploadsStep DEF Excused
    <2>3. ASSUME NEW d \in Client, u.id \in op[d].mine
          PROVE  Excused(u.id)' \/ \E e \in Client : u.id \in op'[e].mine
      <3>1. CASE d # c  BY <1>2, <2>3, <3>1
      <3>2. CASE d = c  BY <1>3, <2>3, <3>2 DEF Settled, Ids
      <3> QED  BY <3>1, <3>2
    <2> QED  BY <2>1, <2>2, <2>3 DEF Cleans, Begun
  <1>6. Resting'
    <2> SUFFICES ASSUME NEW d \in Client, pc'[d] \notin {"creating", "working"}
                 PROVE  op'[d].phase = "none" /\ op'[d].mine = {}
      BY DEF Resting
    <2>1. CASE d # c
      <3>1. pc'[d] = pc[d]
        BY <2>1 DEF Step, Open, FirstLook, SecondLook, Gate, Created, ReadBack, Upload, List,
                    Worked, SweepObject, Crash, Look, Learn, Stop, To, keyVars, Stores, Shape
      <3> QED  BY <1>2, <2>1, <3>1 DEF Cleans, Resting
    <2>2. CASE d = c /\ Request(c) /\ UNCHANGED keyVars
      <3>1. op[c].phase = "none"  BY <2>2 DEF Cleans, Resting, keyVars
      <3> QED  BY <2>2, <3>1 DEF Request, Put, Confirm, Initiate, Tidy, Sweep, Part, Complete,
                                 AbortOwn, ListPage
    <2>3. CASE d = c /\ ~(Request(c) /\ UNCHANGED keyVars)  BY <2>3, OtherSteps
    <2> QED  BY <2>1, <2>2, <2>3
  <1> QED  BY <1>1, <1>4, <1>5, <1>6 DEF Cleans

\* Nor does a step of nobody.
LEMMA CleansNext == ASSUME Stores, Cleans, [Next]_vars PROVE (Stores /\ Cleans)'
  <1>1. CASE \E c \in Client : Step(c)  BY <1>1, StoresNext, CleansStep
  <1>2. CASE UNCHANGED vars
    <2>1. Stores'
      BY <1>2 DEF vars, storeVars, keyVars, Stores, Shape, SaltsOnly, KeyedWhenOpen, PutsSent
    <2>2. Shape'  BY <2>1 DEF Stores
    <2>3. UNCHANGED <<uploads, mess, op, pc>>  BY <1>2 DEF vars, storeVars, keyVars
    <2>4. Begun' /\ Resting'  BY <2>3 DEF Cleans, Begun, Resting, Excused
    <2>5. \A c \in Client : Tidied(op[c])'
      BY <2>3 DEF Cleans, Tidied, OthersSettled, Settled, Excused, Ids
    <2> QED  BY <2>1, <2>2, <2>4, <2>5 DEF Cleans
  <1> QED  BY <1>1, <1>2 DEF Next

(***************************************************************************)
(* An upload is worked on by a put, or is one that nobody could clean up:  *)
(* whatever is lost, retried, believed or crashed, the put that began it   *)
(* ends with it completed, aborted or excused (S3Storage.multipartPut,     *)
(* abortStrayUploads).                                                     *)
(***************************************************************************)
THEOREM UploadsAreAccountedFor == Spec => []NoStray
  <1>1. Init => Stores /\ Cleans  BY InitReturns, InitCleans DEF Returns
  <1>2. Stores /\ Cleans /\ [Next]_vars => (Stores /\ Cleans)'  BY CleansNext
  <1>3. Stores /\ Cleans => NoStray  BY CleansNoStray
  <1> QED  BY <1>1, <1>2, <1>3, PTL DEF Spec
=============================================================================

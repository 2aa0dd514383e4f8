----------------------------- MODULE ObjectStore -----------------------------
(***************************************************************************)
(* The S3 provider, packages/providers/s3/src: storage.ts with retry.ts,   *)
(* errors.ts and xml.ts, as several clients use it at once.                *)
(*                                                                         *)
(* A request is one step at the server.  It may be carried out or not and  *)
(* stay unanswered either way ("lost"; withRetry sends it again), and a    *)
(* captive portal may answer it 200 with a page of its own ("page").  The  *)
(* retries of a read change nothing and are not told apart from one read.  *)
(* Uploads of a large object are multipart; ids are the server's.          *)
(***************************************************************************)
EXTENDS Naturals, FiniteSets, FiniteSetsExt

CONSTANTS
    Client,
    Key,          \* what an object can be stored under, SUBSET Nat: listed in order
    Nothing,      \* no object
    Honours,      \* the conditional headers the backend honours
    MaxRetries,   \* retry.maxRetries
    Parts,        \* parts of a large object
    PageSize,     \* listPageSize
    MaxUploads,   \* bound: multipart uploads ever in progress at once
    Budgets       \* SUBSET [Fault -> Nat]: bounds on the faults, any of them

(***************************************************************************)
(* lost, page: above.  lie: a 404 for what is there.  torn: a listing that *)
(* says there is more and not where, or where it was.  crash: the client   *)
(* ends with its requests.  delete: an object is swept.                    *)
(***************************************************************************)
Fault == {"lost", "page", "lie", "torn", "crash", "delete"}

ASSUME StoreAssumption ==
    /\ Key \subseteq Nat
    /\ MaxRetries \in Nat /\ MaxUploads \in Nat
    /\ Parts \in Nat \ {0} /\ PageSize \in Nat \ {0}
    /\ Budgets \subseteq [Fault -> Nat]

VARIABLES
    objects,      \* [Key -> body or Nothing]: the bucket
    uploads,      \* multipart uploads in progress, [id, key]
    op,           \* [Client -> Op]: put, or list, in flight
    mess,         \* ghost: <<upload, why>>: nobody can be expected to abort it
    removed,      \* ghost: keys that were ever deleted
    throughout,   \* ghost: [Client -> SUBSET Key]: there since its listing began
    left          \* [Fault -> Nat]: what remains of the budget

storeVars == <<objects, uploads, op, mess, removed, throughout, left>>

NoOp == [phase |-> "none", key |-> 0, body |-> Nothing, guarded |-> FALSE, tries |-> 0,
         id |-> 0, mine |-> {}, strays |-> {}, sent |-> 0, torn |-> FALSE,
         token |-> 0, seen |-> {}]

Ended == {"none", "stored", "exists", "failed", "listed"}

Spend(f) == left[f] > 0 /\ left' = [left EXCEPT ![f] = @ - 1]

Present == {k \in Key \ {0} : objects[k] # Nothing}

StoreInit ==
    /\ objects = [k \in Key |-> Nothing]
    /\ uploads = {}
    /\ op = [c \in Client |-> NoOp]
    /\ mess = {} /\ removed = {}
    /\ throughout = [c \in Client |-> {}]
    /\ left \in Budgets

(***************************************************************************)
(* probeConditionalWrites: both headers have to be refused with a 412; a   *)
(* backend that ignores one is used as if it honoured none.                *)
(***************************************************************************)
ConditionalWrites == {"ifNoneMatch", "ifMatch"} \subseteq Honours

\* put: large bodies go multipart, unless a condition guards them.
PutOp(key, body, guarded, large) ==
    [NoOp EXCEPT !.phase = IF large /\ ~(guarded /\ ConditionalWrites) THEN "initiating"
                           ELSE "putting",
                 !.key = key, !.body = body, !.guarded = guarded /\ ConditionalWrites]

Goes(c, o) == op' = [op EXCEPT ![c] = o]

\* withRetry: the same request again, at most MaxRetries times.
Retried(o, exhausted) ==
    IF o.tries < MaxRetries THEN [o EXCEPT !.tries = @ + 1]
    ELSE [o EXCEPT !.phase = exhausted, !.tries = 0]

StillThere == throughout' = [c \in Client |-> throughout[c] \cap Present']

---------------------------------------------------------------------------
(* A single PUT.                                                           *)

Put(c) ==
    LET o == op[c]
        refused == o.guarded /\ objects[o.key] # Nothing
        carried == IF refused THEN objects ELSE [objects EXCEPT ![o.key] = o.body]
    IN  /\ o.phase = "putting"
        /\ \/ /\ objects' = carried
              /\ Goes(c, [o EXCEPT !.phase = IF refused THEN "exists" ELSE "stored"])
              /\ UNCHANGED left
           \/ Spend("lost") /\ objects' \in {objects, carried} /\ Goes(c, Retried(o, "failed"))
           \/ /\ Spend("page") /\ UNCHANGED objects
              /\ Goes(c, [o EXCEPT !.phase = "confirming"])
        /\ StillThere
        /\ UNCHANGED <<uploads, mess, removed>>

Ids(set) == {u.id : u \in set}

Alive(o) == o.id \in Ids(uploads)

\* Mutation of Confirmed: a 2xx is proof enough.
TakenForStored(o) == TRUE

\* confirmStored: a 2xx without an ETag proves nothing, the storage is asked.
Confirmed(o) == objects[o.key] # Nothing

\* What throws out of a put: a multipart upload is aborted first.
Thrown(o) == IF o.id = 0 THEN "failed" ELSE "aborting"

Confirm(c) ==
    LET o == op[c] IN
    /\ o.phase = "confirming"
    /\ \/ Goes(c, [o EXCEPT !.phase = IF Confirmed(o) THEN "stored" ELSE Thrown(o)])
          /\ UNCHANGED left
       \/ /\ Spend("lost") \/ Spend("page")
          /\ Goes(c, Retried([o EXCEPT !.phase = IF o.id = 0 THEN "putting" ELSE "completing"],
                             Thrown(o)))
    /\ mess' = IF op'[c].phase = "stored" /\ Alive(o)
               THEN mess \cup {<<o.id, "believed">>} ELSE mess
    /\ UNCHANGED <<objects, uploads, removed, throughout>>

---------------------------------------------------------------------------
(* multipartPut.                                                           *)

Known == Ids(uploads) \cup {m[1] : m \in mess}
         \cup UNION {op[c].mine \cup op[c].strays : c \in Client}

NewId == CHOOSE i \in 1..MaxUploads : i \notin Known

Without(ids) == {u \in uploads : u.id \notin ids}

\* Only a lost attempt can leave an upload whose id was never learned.
Initiate(c) ==
    LET o == op[c]
        created == uploads \cup {[id |-> NewId, key |-> o.key]}
        mine == o.mine \cup {NewId}
        again(known) == Retried([o EXCEPT !.mine = known], "failed")
        nobodys(known) == IF o.tries < MaxRetries THEN mess
                          ELSE mess \cup {<<i, "exhausted">> : i \in known}
    IN  /\ o.phase = "initiating"
        /\ (1..MaxUploads) \ Known # {}
        /\ \/ /\ uploads' = created
              /\ Goes(c, [o EXCEPT !.phase = IF o.tries > 0 THEN "tidying" ELSE "parting",
                                   !.id = NewId, !.mine = mine, !.tries = 0])
              /\ UNCHANGED <<mess, left>>
           \/ /\ Spend("lost") /\ uploads' = created
              /\ Goes(c, again(mine)) /\ mess' = nobodys(mine)
           \/ /\ Spend("lost") /\ UNCHANGED uploads
              /\ Goes(c, again(o.mine)) /\ mess' = nobodys(o.mine)
           \/ /\ Spend("page") /\ UNCHANGED <<uploads, mess>>
              /\ Goes(c, [o EXCEPT !.phase = "tidying"])
        /\ UNCHANGED <<objects, removed, throughout>>

AfterTidying(o) == [o EXCEPT !.phase = IF o.id = 0 THEN "failed" ELSE "parting"]

\* abortStrayUploads: the uploads of this key, anyone's, but the one to keep.
Tidy(c) ==
    LET o == op[c] IN
    /\ o.phase = "tidying"
    /\ \/ /\ Goes(c, [o EXCEPT !.phase = "sweeping",
                       !.strays = {u.id : u \in {v \in uploads : v.key = o.key}} \ {o.id}])
          /\ UNCHANGED <<mess, left>>
       \/ /\ Spend("lost") \/ Spend("page")
          /\ Goes(c, AfterTidying(o))
          /\ mess' = mess \cup {<<i, "cleanup">> : i \in o.mine \ {o.id}}
    /\ UNCHANGED <<objects, uploads, removed, throughout>>

Sweep(c) ==
    LET o == op[c]
        i == Min(o.strays)
        swept == [o EXCEPT !.strays = @ \ {i}]
    IN  /\ o.phase = "sweeping"
        /\ \/ /\ o.strays = {}
              /\ Goes(c, AfterTidying(o)) /\ UNCHANGED <<uploads, mess, left>>
           \/ /\ o.strays # {}
              /\ uploads' = Without({i})
              /\ Goes(c, swept) /\ UNCHANGED <<mess, left>>
           \/ /\ o.strays # {} /\ Spend("lost")
              /\ Goes(c, swept)
              /\ mess' = mess \cup {<<i, "cleanup">>} /\ UNCHANGED uploads
        /\ UNCHANGED <<objects, removed, throughout>>

\* An upload somebody else aborted answers 404, which is not retried.
Part(c) ==
    LET o == op[c]
        last == o.sent + 1 = Parts
        sent == [o EXCEPT !.sent = @ + 1, !.tries = 0,
                          !.phase = IF last THEN "completing" ELSE "parting"]
    IN  /\ o.phase = "parting"
        /\ \/ Alive(o) /\ Goes(c, sent) /\ UNCHANGED left
           \/ ~Alive(o) /\ Goes(c, [o EXCEPT !.phase = "aborting"]) /\ UNCHANGED left
           \/ Spend("lost") /\ Goes(c, Retried(o, "aborting"))
           \/ Spend("page") /\ Goes(c, [sent EXCEPT !.torn = TRUE])
        /\ UNCHANGED <<objects, uploads, mess, removed, throughout>>

\* A part with no ETag is refused here, and the refusal retried.
Complete(c) ==
    LET o == op[c]
        accepted == Alive(o) /\ ~o.torn
        whole == [objects EXCEPT ![o.key] = o.body]
    IN  /\ o.phase = "completing"
        /\ \/ /\ accepted
              /\ objects' = whole /\ uploads' = Without({o.id})
              /\ Goes(c, [o EXCEPT !.phase = "stored"]) /\ UNCHANGED left
           \/ /\ ~Alive(o)
              /\ Goes(c, [o EXCEPT !.phase = "aborting"]) /\ UNCHANGED <<objects, uploads, left>>
           \/ /\ Alive(o) /\ o.torn
              /\ Goes(c, Retried(o, "aborting")) /\ UNCHANGED <<objects, uploads, left>>
           \/ /\ Spend("lost")
              /\ \/ accepted /\ objects' = whole /\ uploads' = Without({o.id})
                 \/ UNCHANGED <<objects, uploads>>
              /\ Goes(c, Retried(o, "aborting"))
           \/ /\ Spend("page")
              /\ Goes(c, [o EXCEPT !.phase = "confirming"]) /\ UNCHANGED <<objects, uploads>>
        /\ StillThere
        /\ UNCHANGED <<mess, removed>>

\* Mutation of AbortOwn: the failure is thrown and the upload left.
LeaveOwn(c) ==
    /\ op[c].phase = "aborting"
    /\ Goes(c, [op[c] EXCEPT !.phase = "failed"])
    /\ UNCHANGED <<objects, uploads, mess, removed, throughout, left>>

\* abortUpload, best effort.
AbortOwn(c) ==
    LET o == op[c] IN
    /\ o.phase = "aborting"
    /\ Goes(c, [o EXCEPT !.phase = "failed"])
    /\ \/ uploads' = Without({o.id}) /\ UNCHANGED <<mess, left>>
       \/ Spend("lost") /\ mess' = mess \cup {<<o.id, "cleanup">>} /\ UNCHANGED uploads
    /\ UNCHANGED <<objects, removed, throughout>>

---------------------------------------------------------------------------
(* list, page by page; delete.                                             *)

FirstOf(keys, n) == {k \in keys : Cardinality({j \in keys : j < k}) < n}

\* Mutation of TornPage: no token, so that was the last page.
TornPageEnds(o, keys) == [o EXCEPT !.phase = "listed", !.seen = @ \cup keys]

\* "There is more" without a new token is refused, never a shorter list.
TornPage(o, keys) == [o EXCEPT !.phase = "failed"]

ListPage(c) ==
    LET o == op[c]
        rest == {k \in Present : k > o.token}
        page == FirstOf(rest, PageSize)
        given == [o EXCEPT !.seen = @ \cup page]
    IN  /\ o.phase = "paging"
        /\ \/ /\ rest = page
              /\ Goes(c, [given EXCEPT !.phase = "listed"]) /\ UNCHANGED left
           \/ /\ rest # page
              /\ Goes(c, [given EXCEPT !.token = Max(page)]) /\ UNCHANGED left
           \/ /\ rest # page /\ Spend("torn")
              /\ Goes(c, TornPage(o, page))
           \/ /\ Spend("lost") \/ Spend("page")     \* not a whole document: transient
              /\ Goes(c, [o EXCEPT !.phase = "failed"])
        /\ UNCHANGED <<objects, uploads, mess, removed, throughout>>

ListStart(c) ==
    /\ Goes(c, [NoOp EXCEPT !.phase = "paging"])
    /\ throughout' = [throughout EXCEPT ![c] = Present]
    /\ UNCHANGED <<objects, uploads, mess, removed, left>>

Delete(k) ==
    /\ k \in Present
    /\ Spend("delete")
    /\ objects' = [objects EXCEPT ![k] = Nothing]
    /\ removed' = removed \cup {k}
    /\ StillThere
    /\ UNCHANGED <<uploads, op, mess>>

Request(c) ==
    \/ Put(c) \/ Confirm(c) \/ Initiate(c) \/ Tidy(c) \/ Sweep(c) \/ Part(c) \/ Complete(c)
    \/ AbortOwn(c) \/ ListPage(c)

---------------------------------------------------------------------------
(***************************************************************************)
(* put returns only for an object that is there, or was until a sweep: no  *)
(* lost answer, retry or captive portal makes a manifest name an object    *)
(* that was never stored (S3Storage.put, confirmStored).                   *)
(***************************************************************************)
StoredIsThere ==
    \A c \in Client : op[c].phase = "stored"
        => objects[op[c].key] # Nothing \/ op[c].key \in removed

(***************************************************************************)
(* An upload that no put is working on is one that could not be cleaned    *)
(* up: the request for it failed, no attempt was answered, the process     *)
(* ended, or a portal answered for the bucket over another device's object *)
(* of the same content (S3Storage.multipartPut, ADR-0060).                 *)
(***************************************************************************)
NoStray ==
    \A u \in uploads :
        \/ \E m \in mess : m[1] = u.id
        \/ \E c \in Client : u.id \in op[c].mine /\ op[c].phase \notin Ended

(***************************************************************************)
(* A listing that is returned has every key that was there all along, with *)
(* other clients storing and sweeping between its pages: an incomplete one *)
(* would be a lower generation, or a set of objects wrongly unreachable    *)
(* (S3Storage.list, ADR-0039).                                             *)
(***************************************************************************)
ListWhole ==
    \A c \in Client : op[c].phase = "listed" => throughout[c] \subseteq op[c].seen

=============================================================================

--------------------------- MODULE RequestPipeline ---------------------------
(***************************************************************************)
(* The path of an authenticated request: ApiKeyService                     *)
(* (packages/auth/src/api-keys.ts), the bearer middleware and requireScope *)
(* (apps/api/src/middleware/auth.ts), the Idempotency-Key framework        *)
(* (apps/api/src/lib/idempotency.ts), and the two creating routes that use *)
(* it (customers and signing sessions).                                    *)
(*                                                                         *)
(* A handler verifies its key once, at its first step, and looks its       *)
(* idempotency key up long before it stores an answer under it.  A stored  *)
(* answer expires but its row is never deleted.  One organization.         *)
(***************************************************************************)
EXTENDS Naturals, FiniteSets

CONSTANTS
    Keys,      \* ids of api_keys rows
    NoKey,     \* no key: the origin of a key that was not rotated from another
    IdemKeys,  \* (Idempotency-Key, method, path) triples
    NoIdem,    \* a request without the header
    Payloads,  \* request bodies, told apart by their fingerprint
    NoPayload,
    Slots,     \* handlers that may be in progress
    Asked,     \* bound: the scopes and expiries clients ask new keys to have
    MaxMade    \* bound: resources created

ASSUME PipelineAssumption ==
    /\ NoKey \notin Keys
    /\ NoIdem \notin IdemKeys
    /\ NoPayload \notin Payloads
    /\ Asked \subseteq [scopes : SUBSET {"create", "keys"},
                       expiry : {"never", "ahead", "past"}]
    /\ MaxMade \in Nat

VARIABLES
    key,      \* the api_keys table
    store,    \* the idempotency_keys table
    made,     \* the customers and signing sessions created by the two routes
    answers,  \* history: the successful answers that left the server
    req       \* what each slot is doing

vars == <<key, store, made, answers, req>>

\* "create" stands for customers:write or signing:write, "keys" for
\* api_keys:write.
Scopes == {"create", "keys"}

Resources == 1 .. MaxMade
NoResource == 0

Pcs == {"idle", "lookup", "create", "store", "answer", "mint", "revoke",
        "rotate_read", "rotate_revoke", "rotate_create"}

AbsentKey == [state |-> "none", expiry |-> "never", scopes |-> {}, from |-> NoKey]
AbsentRow == [state |-> "none", print |-> NoPayload, res |-> NoResource]
NotMade == [ikey |-> NoIdem, print |-> NoPayload]
Idle == [pc |-> "idle", actor |-> NoKey, ikey |-> NoIdem, print |-> NoPayload,
         res |-> NoResource, target |-> NoKey, scopes |-> {}]

\* The type invariant of the tables and of the handlers' locals.
PipelineTypeOK ==
    /\ key \in [Keys -> [state : {"none", "active", "revoked"},
                         expiry : {"never", "ahead", "past"},
                         scopes : SUBSET Scopes, from : Keys \cup {NoKey}]]
    /\ store \in [IdemKeys -> [state : {"none", "fresh", "expired"},
                               print : Payloads \cup {NoPayload},
                               res : Resources \cup {NoResource}]]
    /\ made \in [Resources -> [ikey : IdemKeys \cup {NoIdem},
                               print : Payloads \cup {NoPayload}]]
    /\ answers \subseteq [ikey : IdemKeys \cup {NoIdem}, print : Payloads,
                          res : Resources]
    /\ req \in [Slots -> [pc : Pcs, actor : Keys \cup {NoKey},
                          ikey : IdemKeys \cup {NoIdem},
                          print : Payloads \cup {NoPayload},
                          res : Resources \cup {NoResource},
                          target : Keys \cup {NoKey}, scopes : SUBSET Scopes]]

Init ==
    /\ key = [k \in Keys |-> AbsentKey]
    /\ store = [i \in IdemKeys |-> AbsentRow]
    /\ made = [n \in Resources |-> NotMade]
    /\ answers = {}
    /\ req = [r \in Slots |-> Idle]

At(r, label) == req[r].pc = label
Goto(r, label) == req' = [req EXCEPT ![r].pc = label]
Return(r) == req' = [req EXCEPT ![r] = Idle]

\* Inserts an api_keys row with a fresh id; the raw key goes to the client.
InsertKey(scopes, expiry, from) ==
    \E k \in Keys :
        /\ key[k].state = "none"
        /\ key' = [key EXCEPT ![k] = [state |-> "active", expiry |-> expiry,
                                      scopes |-> scopes, from |-> from]]

-----------------------------------------------------------------------------
(* Authentication.                                                         *)

\* Mutant: revoked_at is not looked at.
ValidUntilExpired(k) == key[k].state # "none" /\ key[k].expiry # "past"

\* verify: found by its hash, not revoked, not expired.
Valid(k) == key[k].state = "active" /\ key[k].expiry # "past"

\* The middleware verifies the key, requireScope looks at the copy, and the
\* handler of the route starts.  From here on the key is not looked at again.
Start(r, scope, local) ==
    /\ At(r, "idle")
    /\ \E k \in Keys :
          /\ Valid(k)
          /\ scope \in key[k].scopes
          /\ req' = [req EXCEPT ![r] = [local EXCEPT !.actor = k]]
    /\ UNCHANGED <<key, store, made, answers>>

\* expires_at passes.
KeyExpires(k) ==
    /\ key[k].state # "none"
    /\ key[k].expiry = "ahead"
    /\ key' = [key EXCEPT ![k].expiry = "past"]
    /\ UNCHANGED <<store, made, answers, req>>

-----------------------------------------------------------------------------
(* The creating routes and the Idempotency-Key framework.                  *)

\* A header of fewer than 8 or more than 255 characters is as good as none.
CreateStart(r) ==
    \E i \in IdemKeys \cup {NoIdem}, p \in Payloads :
        Start(r, "create",
              [Idle EXCEPT !.pc = IF i = NoIdem THEN "create" ELSE "lookup",
                           !.ikey = i, !.print = p])

\* Mutant: the comparison with expires_at is the wrong way round.
FreshBackwards(i) == store[i].state = "expired"

\* The row that lookup finds: stored, and not expired.
Fresh(i) == store[i].state = "fresh"

\* The same payload: the stored answer is sent again and the route ends.
Replay(r) ==
    LET i == req[r].ikey
    IN  /\ At(r, "lookup")
        /\ Fresh(i)
        /\ store[i].print = req[r].print
        /\ answers' = answers \cup {[ikey |-> i, print |-> req[r].print,
                                     res |-> store[i].res]}
        /\ Return(r)
        /\ UNCHANGED <<key, store, made>>

\* Another payload: 409 idempotency_conflict.
Conflict(r) ==
    LET i == req[r].ikey
    IN  /\ At(r, "lookup")
        /\ Fresh(i)
        /\ store[i].print # req[r].print
        /\ Return(r)
        /\ UNCHANGED <<key, store, made, answers>>

LookupMiss(r) ==
    /\ At(r, "lookup")
    /\ ~Fresh(req[r].ikey)
    /\ Goto(r, "create")
    /\ UNCHANGED <<key, store, made, answers>>

\* The route does its work: here, one resource with a fresh id.  Fresh ids are
\* all alike, so the least is taken.  A payload that is refused ends in Abort.
Create(r) ==
    /\ At(r, "create")
    /\ \E n \in Resources :
          /\ made[n] = NotMade
          /\ \A m \in 1 .. n - 1 : made[m] # NotMade
          /\ made' = [made EXCEPT ![n] = [ikey |-> req[r].ikey,
                                          print |-> req[r].print]]
          /\ req' = [req EXCEPT ![r].res = n,
                                ![r].pc = IF req[r].ikey = NoIdem
                                          THEN "answer" ELSE "store"]
    /\ UNCHANGED <<key, store, answers>>

\* Stored under the unique index on organization, key, method and path.
Store(r) ==
    LET i == req[r].ikey
    IN  /\ At(r, "store")
        /\ store[i].state = "none"
        /\ store' = [store EXCEPT ![i] = [state |-> "fresh",
                                          print |-> req[r].print,
                                          res |-> req[r].res]]
        /\ Goto(r, "answer")
        /\ UNCHANGED <<key, made, answers>>

\* Mutant: a row that is there already does no harm.
StoreIgnored(r) ==
    /\ At(r, "store")
    /\ store[req[r].ikey].state # "none"
    /\ Goto(r, "answer")
    /\ UNCHANGED <<key, store, made, answers>>

\* There is a row, fresh or expired: the insert throws, and the resource that
\* was made is never answered for.
StoreRefused(r) ==
    /\ At(r, "store")
    /\ store[req[r].ikey].state # "none"
    /\ Return(r)
    /\ UNCHANGED <<key, store, made, answers>>

Answer(r) ==
    /\ At(r, "answer")
    /\ answers' = answers \cup {[ikey |-> req[r].ikey, print |-> req[r].print,
                                 res |-> req[r].res]}
    /\ Return(r)
    /\ UNCHANGED <<key, store, made>>

\* A day has passed since the answer was stored.
StoredExpires(i) ==
    /\ store[i].state = "fresh"
    /\ store' = [store EXCEPT ![i].state = "expired"]
    /\ UNCHANGED <<key, made, answers, req>>

-----------------------------------------------------------------------------
(* API keys.                                                               *)

\* Sign-up and every login insert a key of their own with all scopes.
MintRoot ==
    /\ InsertKey(Scopes, "never", NoKey)
    /\ UNCHANGED <<store, made, answers, req>>

MintStart(r) == Start(r, "keys", [Idle EXCEPT !.pc = "mint"])

\* Any number of days may be asked for: a negative one is past at once.
Mint(r) ==
    /\ At(r, "mint")
    /\ \E a \in Asked : InsertKey(a.scopes, a.expiry, NoKey)
    /\ Return(r)
    /\ UNCHANGED <<store, made, answers>>

RevokeStart(r) ==
    \E t \in Keys : Start(r, "keys", [Idle EXCEPT !.pc = "revoke", !.target = t])

\* UPDATE ... WHERE revoked_at IS NULL; without a row the answer is 404.
Revoke(r) ==
    LET t == req[r].target
    IN  /\ At(r, "revoke")
        /\ key' = IF key[t].state = "active"
                  THEN [key EXCEPT ![t].state = "revoked"] ELSE key
        /\ Return(r)
        /\ UNCHANGED <<store, made, answers>>

RotateStart(r) ==
    \E t \in Keys :
        Start(r, "keys", [Idle EXCEPT !.pc = "rotate_read", !.target = t])

\* rotate reads the key; a missing or revoked one is not found.  Whether it has
\* expired is not asked.
RotateRead(r) ==
    LET t == req[r].target
    IN  /\ At(r, "rotate_read")
        /\ IF key[t].state = "active"
           THEN req' = [req EXCEPT ![r].pc = "rotate_revoke",
                                   ![r].scopes = key[t].scopes]
           ELSE Return(r)
        /\ UNCHANGED <<key, store, made, answers>>

\* Mutant: revoke has no condition on revoked_at.
RotateRevokeBlind(r) ==
    LET t == req[r].target
    IN  /\ At(r, "rotate_revoke")
        /\ key' = [key EXCEPT ![t].state = "revoked"]
        /\ Goto(r, "rotate_create")
        /\ UNCHANGED <<store, made, answers>>

\* The same conditional update as in revoke decides between two rotations.
RotateRevoke(r) ==
    LET t == req[r].target
    IN  /\ At(r, "rotate_revoke")
        /\ IF key[t].state = "active"
           THEN /\ key' = [key EXCEPT ![t].state = "revoked"]
                /\ Goto(r, "rotate_create")
           ELSE Return(r) /\ UNCHANGED key
        /\ UNCHANGED <<store, made, answers>>

\* The successor has the scopes that were read, and no expiry.
RotateCreate(r) ==
    /\ At(r, "rotate_create")
    /\ InsertKey(req[r].scopes, "never", req[r].target)
    /\ Return(r)
    /\ UNCHANGED <<store, made, answers>>

\* A handler refuses its request, throws or dies between two steps.
Abort(r) ==
    /\ ~At(r, "idle")
    /\ Return(r)
    /\ UNCHANGED <<key, store, made, answers>>

-----------------------------------------------------------------------------

CreateStep(r) ==
    \/ CreateStart(r) \/ Replay(r) \/ Conflict(r) \/ LookupMiss(r)
    \/ Create(r) \/ Store(r) \/ StoreRefused(r) \/ Answer(r)

KeyStep(r) ==
    \/ MintStart(r) \/ Mint(r) \/ RevokeStart(r) \/ Revoke(r)
    \/ RotateStart(r) \/ RotateRead(r) \/ RotateRevoke(r) \/ RotateCreate(r)

Next ==
    \/ \E r \in Slots : CreateStep(r) \/ KeyStep(r) \/ Abort(r)
    \/ \E k \in Keys : KeyExpires(k)
    \/ \E i \in IdemKeys : StoredExpires(i)
    \/ MintRoot

Spec == Init /\ [][Next]_vars

-----------------------------------------------------------------------------
(* Properties.                                                             *)

\* Every answer names a resource that was made for that very request, and all
\* answers ever given for one Idempotency-Key name the same resource, the one
\* stored under it: duplicates may make more, but nobody is told of them.
AnswersMatchStore ==
    \A a \in answers :
        /\ made[a.res] = [ikey |-> a.ikey, print |-> a.print]
        /\ a.ikey # NoIdem => /\ store[a.ikey].state # "none"
                              /\ store[a.ikey].res = a.res
                              /\ store[a.ikey].print = a.print

MadeFor(i) == {n \in Resources : made[n] # NotMade /\ made[n].ikey = i}

\* Requests for i that found nothing stored and have not finished.
PastLookup(i) == {r \in Slots : req[r].ikey = i
                                /\ req[r].pc \in {"create", "store", "answer"}}

\* Once an answer is stored, and the requests that looked before it was are
\* over, retries make nothing more until the answer expires.
StoredMeansDone ==
    [][\A i \in IdemKeys :
          store[i].state = "fresh" /\ PastLookup(i) = {}
              => MadeFor(i)' = MadeFor(i) /\ PastLookup(i)' = {}]_vars

\* However rotations and revocations overlap, a key has at most one successor;
\* it is revoked by then, and the successor can do what it could.
OneSuccessor ==
    /\ \A j, k \in Keys : key[j].from = key[k].from /\ key[j].from # NoKey
                             => j = k
    /\ \A k \in Keys : LET t == key[k].from
                       IN  t # NoKey => /\ key[t].state = "revoked"
                                        /\ key[t].scopes = key[k].scopes

Holders(k) == {r \in Slots : req[r].actor = k}

\* A revoked key is dead once the requests it had begun are over: nothing
\* starts under it again, and no rotation brings it back.
RevokedIsDead ==
    [][\A k \in Keys :
          key[k].state = "revoked" /\ Holders(k) = {}
              => key'[k].state = "revoked" /\ Holders(k)' = {}]_vars
=============================================================================

------------------------ MODULE RequestPipeline_proofs ------------------------
(***************************************************************************)
(* Proofs about RequestPipeline, for any number of API keys, idempotency   *)
(* keys, payloads and overlapping requests.                                *)
(***************************************************************************)
EXTENDS RequestPipeline, TLAPS

KeyRow == [state : {"none", "active", "revoked"},
           expiry : {"never", "ahead", "past"},
           scopes : SUBSET Scopes, from : Keys \cup {NoKey}]
StoreRow == [state : {"none", "fresh", "expired"},
             print : Payloads \cup {NoPayload}, res : Resources \cup {NoResource}]
Resource == [ikey : IdemKeys \cup {NoIdem}, print : Payloads \cup {NoPayload}]
Given == [ikey : IdemKeys \cup {NoIdem}, print : Payloads, res : Resources]
Handler == [pc : Pcs, actor : Keys \cup {NoKey}, ikey : IdemKeys \cup {NoIdem},
            print : Payloads \cup {NoPayload}, res : Resources \cup {NoResource},
            target : Keys \cup {NoKey}, scopes : SUBSET Scopes]

LEMMA TypeParts ==
    PipelineTypeOK <=> /\ key \in [Keys -> KeyRow]
                       /\ store \in [IdemKeys -> StoreRow]
                       /\ made \in [Resources -> Resource]
                       /\ answers \subseteq Given
                       /\ req \in [Slots -> Handler]
  BY DEF PipelineTypeOK, KeyRow, StoreRow, Resource, Given, Handler

LEMMA NextTypeParts ==
    PipelineTypeOK' <=> /\ key' \in [Keys -> KeyRow]
                        /\ store' \in [IdemKeys -> StoreRow]
                        /\ made' \in [Resources -> Resource]
                        /\ answers' \subseteq Given
                        /\ req' \in [Slots -> Handler]
  BY DEF PipelineTypeOK, KeyRow, StoreRow, Resource, Given, Handler

Step(r) == CreateStep(r) \/ KeyStep(r) \/ Abort(r)

LEMMA NextCases ==
    ASSUME [Next]_vars
    PROVE  \/ \E r \in Slots : Step(r)
           \/ \E k \in Keys : KeyExpires(k)
           \/ \E i \in IdemKeys : StoredExpires(i)
           \/ MintRoot
           \/ UNCHANGED vars
  BY DEF Next, Step

-----------------------------------------------------------------------------
(* What the steps have in common.                                          *)

LEMMA ConstantRows ==
    /\ AbsentKey \in KeyRow /\ AbsentRow \in StoreRow
    /\ NotMade \in Resource /\ Idle \in Handler
  BY DEF AbsentKey, AbsentRow, NotMade, Idle, KeyRow, StoreRow, Resource,
         Handler, Pcs, NoResource

LEMMA ClientLocal ==
    ASSUME NEW i \in IdemKeys \cup {NoIdem}, NEW p \in Payloads
    PROVE  [Idle EXCEPT !.pc = IF i = NoIdem THEN "create" ELSE "lookup",
                        !.ikey = i, !.print = p] \in Handler
  BY ConstantRows DEF Handler, Pcs

\* Return, Goto and Start write the record of their own slot.
LEMMA OwnRecord ==
    ASSUME PipelineTypeOK, NEW r \in Slots
    PROVE  /\ Return(r) => req' = [req EXCEPT ![r] = Idle]
           /\ \A label \in Pcs :
                 Goto(r, label)
                    => /\ req' = [req EXCEPT ![r] = req'[r]]
                       /\ req'[r] = [req[r] EXCEPT !.pc = label]
                       /\ req'[r] \in Handler
  BY TypeParts DEF Return, Goto, Handler

LEMMA Started ==
    ASSUME PipelineTypeOK, NEW r \in Slots, NEW local \in Handler,
           NEW scope, Start(r, scope, local)
    PROVE  /\ UNCHANGED <<key, store, made, answers>>
           /\ req[r].pc = "idle"
           /\ \E k \in Keys : /\ Valid(k)
                              /\ req' = [req EXCEPT ![r] =
                                            [local EXCEPT !.actor = k]]
                              /\ [local EXCEPT !.actor = k] \in Handler
  BY DEF Start, At, Handler

LEMMA InsertKeyKeepsType ==
    ASSUME PipelineTypeOK, NEW scopes \in SUBSET Scopes,
           NEW expiry \in {"never", "ahead", "past"},
           NEW from \in Keys \cup {NoKey}, InsertKey(scopes, expiry, from)
    PROVE  key' \in [Keys -> KeyRow]
<1>1. PICK k \in Keys :
          key' = [key EXCEPT ![k] = [state |-> "active", expiry |-> expiry,
                                     scopes |-> scopes, from |-> from]]
  BY DEF InsertKey
<1>2. [state |-> "active", expiry |-> expiry, scopes |-> scopes,
       from |-> from] \in KeyRow
  BY DEF KeyRow
<1> QED
  BY <1>1, <1>2, TypeParts

-----------------------------------------------------------------------------
(* The inductive invariant of types and answers.                           *)
(*                                                                         *)
(* An answer is sent from what the handler has in its hands or from the    *)
(* stored row; neither type correctness nor AnswersMatchStore is inductive *)
(* without knowing what these are at each step.                            *)

CreatePcs == {"lookup", "create", "store", "answer"}

TargetPcs == {"revoke", "rotate_read", "rotate_revoke", "rotate_create"}

HandlerInv(r) ==
    LET h == req[r]
    IN  /\ h.pc \in TargetPcs => h.target \in Keys
        /\ h.pc \in CreatePcs => h.print \in Payloads
        /\ h.pc \in {"lookup", "store"} => h.ikey \in IdemKeys
        /\ h.pc \in {"store", "answer"}
              => /\ h.res \in Resources
                 /\ made[h.res] = [ikey |-> h.ikey, print |-> h.print]
        /\ h.pc = "answer" /\ h.ikey # NoIdem
              => /\ store[h.ikey].state # "none"
                 /\ store[h.ikey].res = h.res
                 /\ store[h.ikey].print = h.print

StoreInv(i) ==
    store[i].state # "none"
       => /\ store[i].print \in Payloads
          /\ store[i].res \in Resources
          /\ made[store[i].res] = [ikey |-> i, print |-> store[i].print]

AnswersInv ==
    /\ PipelineTypeOK
    /\ AnswersMatchStore
    /\ \A i \in IdemKeys : StoreInv(i)
    /\ \A r \in Slots : HandlerInv(r)

LEMMA InitAnswers == Init => AnswersInv
<1> SUFFICES ASSUME Init PROVE AnswersInv
  OBVIOUS
<1>1. PipelineTypeOK
  BY TypeParts, ConstantRows DEF Init
<1>2. \A i \in IdemKeys : StoreInv(i)
  BY DEF Init, StoreInv, AbsentRow
<1>3. \A r \in Slots : HandlerInv(r)
  BY DEF Init, HandlerInv, CreatePcs, TargetPcs, TargetPcs, Idle
<1> QED
  BY <1>1, <1>2, <1>3 DEF AnswersInv, AnswersMatchStore, Init

\* Resources and stored answers stay what they are.
Kept ==
    /\ \A n \in Resources : made[n] # NotMade => made'[n] = made[n]
    /\ \A i \in IdemKeys : store[i].state # "none"
          => /\ store'[i].state # "none"
             /\ store'[i].res = store[i].res
             /\ store'[i].print = store[i].print

LEMMA LittleToKnow ==
    ASSUME NEW r \in Slots, req'[r].pc \notin CreatePcs,
           req'[r].pc \in TargetPcs => req'[r].target \in Keys
    PROVE  HandlerInv(r)'
  BY DEF HandlerInv, CreatePcs, TargetPcs

LEMMA KeptSuffices ==
    ASSUME AnswersInv, Kept, PipelineTypeOK', NEW r \in Slots,
           req' = [req EXCEPT ![r] = req'[r]], HandlerInv(r)',
           \A i \in IdemKeys : store'[i] # store[i] => StoreInv(i)',
           \A a \in answers' \ answers :
              /\ made'[a.res] = [ikey |-> a.ikey, print |-> a.print]
              /\ a.ikey # NoIdem => /\ store'[a.ikey].state # "none"
                                    /\ store'[a.ikey].res = a.res
                                    /\ store'[a.ikey].print = a.print
    PROVE  AnswersInv'
<1> USE DEF AnswersInv
<1>1. NoPayload \notin Payloads /\ NoIdem \notin IdemKeys
  BY PipelineAssumption
<1>2. \A n \in Resources : made[n].print \in Payloads => made'[n] = made[n]
  BY <1>1 DEF Kept, NotMade
<1>3. ASSUME NEW i \in IdemKeys PROVE StoreInv(i)'
  BY <1>2, <1>3 DEF StoreInv
<1>4. ASSUME NEW s \in Slots PROVE HandlerInv(s)'
  <2>1. CASE s = r
    BY <2>1
  <2>2. CASE s # r
    <3>1. req'[s] = req[s] /\ HandlerInv(s) /\ req[s] \in Handler
      BY <2>2, TypeParts
    <3>2. req[s].ikey # NoIdem => req[s].ikey \in IdemKeys
      BY <3>1 DEF Handler
    <3> QED
      BY <3>1, <3>2, <1>2 DEF HandlerInv, CreatePcs, TargetPcs, Kept
  <2> QED
    BY <2>1, <2>2
<1>5. AnswersMatchStore'
  <2> SUFFICES ASSUME NEW a \in answers'
               PROVE  /\ made'[a.res] = [ikey |-> a.ikey, print |-> a.print]
                      /\ a.ikey # NoIdem => /\ store'[a.ikey].state # "none"
                                            /\ store'[a.ikey].res = a.res
                                            /\ store'[a.ikey].print = a.print
    BY DEF AnswersMatchStore
  <2>1. CASE a \in answers
    <3>1. a \in Given
      BY <2>1, TypeParts
    <3>2. /\ a.res \in Resources /\ a.print \in Payloads
          /\ a.ikey # NoIdem => a.ikey \in IdemKeys
      BY <3>1 DEF Given
    <3> QED
      BY <2>1, <3>2, <1>2 DEF AnswersMatchStore, Kept
  <2> QED
    BY <2>1
<1> QED
  BY <1>3, <1>4, <1>5

LEMMA CreateStepAnswers ==
    ASSUME AnswersInv, NEW r \in Slots, CreateStep(r)
    PROVE  AnswersInv'
<1> USE DEF AnswersInv
<1>0. /\ NoPayload \notin Payloads /\ NoIdem \notin IdemKeys
      /\ HandlerInv(r) /\ req[r] \in Handler /\ Idle \in Handler
      /\ Idle.pc \notin CreatePcs \cup TargetPcs
  BY PipelineAssumption, TypeParts, ConstantRows DEF Idle, CreatePcs, TargetPcs
<1>1. CASE CreateStart(r)
  <2>1. PICK i \in IdemKeys \cup {NoIdem}, p \in Payloads :
            Start(r, "create",
                  [Idle EXCEPT !.pc = IF i = NoIdem THEN "create" ELSE "lookup",
                               !.ikey = i, !.print = p])
    BY <1>1 DEF CreateStart
  <2> DEFINE local == [Idle EXCEPT
                          !.pc = IF i = NoIdem THEN "create" ELSE "lookup",
                          !.ikey = i, !.print = p]
  <2>2. local \in Handler
    BY ClientLocal
  <2>3. PICK k \in Keys : /\ req' = [req EXCEPT ![r] = [local EXCEPT !.actor = k]]
                          /\ [local EXCEPT !.actor = k] \in Handler
    BY <2>1, <2>2, Started
  <2>4. UNCHANGED <<key, store, made, answers>>
    BY <2>1, <2>2, Started
  <2>5. PipelineTypeOK' /\ Kept
    BY <2>3, <2>4, TypeParts, NextTypeParts DEF Kept
  <2>6. HandlerInv(r)'
    <3>1. req'[r] = [local EXCEPT !.actor = k]
      BY <2>3, TypeParts
    <3> QED
      BY <3>1, <2>2 DEF HandlerInv, CreatePcs, TargetPcs, Handler
  <2> QED
    BY <2>3, <2>4, <2>5, <2>6, KeptSuffices, TypeParts
<1>2. CASE Replay(r)
  <2>1. /\ req[r].ikey \in IdemKeys /\ req[r].print \in Payloads
        /\ StoreInv(req[r].ikey) /\ store[req[r].ikey].state # "none"
        /\ store[req[r].ikey].print = req[r].print
    BY <1>0, <1>2 DEF Replay, At, Fresh, HandlerInv, CreatePcs, TargetPcs
  <2>2. [ikey |-> req[r].ikey, print |-> req[r].print,
         res |-> store[req[r].ikey].res] \in Given
    BY <2>1 DEF StoreInv, Given
  <2>3. /\ req' = [req EXCEPT ![r] = Idle] /\ UNCHANGED <<key, store, made>>
        /\ answers' = answers \cup {[ikey |-> req[r].ikey, print |-> req[r].print,
                                     res |-> store[req[r].ikey].res]}
    BY <1>2, OwnRecord DEF Replay
  <2>4. PipelineTypeOK' /\ Kept
    BY <1>0, <2>2, <2>3, TypeParts, NextTypeParts DEF Kept
  <2>5. HandlerInv(r)'
    BY <1>0, <2>3, TypeParts, LittleToKnow
  <2>6. /\ req' = [req EXCEPT ![r] = req'[r]]
        /\ \A i \in IdemKeys : store'[i] # store[i] => StoreInv(i)'
    BY <1>0, <2>3, TypeParts
  <2>7. \A a \in answers' \ answers :
           /\ made'[a.res] = [ikey |-> a.ikey, print |-> a.print]
           /\ a.ikey # NoIdem => /\ store'[a.ikey].state # "none"
                                 /\ store'[a.ikey].res = a.res
                                 /\ store'[a.ikey].print = a.print
    BY <2>1, <2>3 DEF StoreInv
  <2> QED
    BY <2>4, <2>5, <2>6, <2>7, KeptSuffices
<1>3. CASE Conflict(r) \/ StoreRefused(r)
  <2>1. /\ req' = [req EXCEPT ![r] = Idle]
        /\ UNCHANGED <<key, store, made, answers>>
    BY <1>3, OwnRecord DEF Conflict, StoreRefused
  <2>2. PipelineTypeOK' /\ Kept
    BY <1>0, <2>1, TypeParts, NextTypeParts DEF Kept
  <2>3. HandlerInv(r)'
    BY <1>0, <2>1, TypeParts, LittleToKnow
  <2> QED
    BY <2>1, <2>2, <2>3, KeptSuffices, TypeParts
<1>4. CASE LookupMiss(r)
  <2>1. /\ req' = [req EXCEPT ![r] = req'[r]] /\ req'[r] \in Handler
        /\ req'[r] = [req[r] EXCEPT !.pc = "create"]
        /\ UNCHANGED <<key, store, made, answers>>
    BY <1>4, OwnRecord DEF LookupMiss, Pcs
  <2>2. PipelineTypeOK' /\ Kept
    BY <2>1, TypeParts, NextTypeParts DEF Kept
  <2>3. HandlerInv(r)'
    BY <1>0, <1>4, <2>1 DEF LookupMiss, At, HandlerInv, CreatePcs, TargetPcs, Handler
  <2> QED
    BY <2>1, <2>2, <2>3, KeptSuffices, TypeParts
<1>5. CASE Create(r)
  <2>1. PICK n \in Resources :
            /\ made[n] = NotMade
            /\ made' = [made EXCEPT ![n] = [ikey |-> req[r].ikey,
                                            print |-> req[r].print]]
            /\ req' = [req EXCEPT ![r].res = n,
                                  ![r].pc = IF req[r].ikey = NoIdem
                                            THEN "answer" ELSE "store"]
            /\ UNCHANGED <<key, store, answers>>
    BY <1>5 DEF Create
  <2>2. /\ req' = [req EXCEPT ![r] = req'[r]]
        /\ req'[r] = [req[r] EXCEPT !.res = n,
                                    !.pc = IF req[r].ikey = NoIdem
                                           THEN "answer" ELSE "store"]
    BY <2>1, TypeParts
  <2>3. req'[r] \in Handler
    BY <1>0, <2>2 DEF Handler, Pcs
  <2>4. [ikey |-> req[r].ikey, print |-> req[r].print] \in Resource
    BY <1>0 DEF Handler, Resource
  <2>5. PipelineTypeOK' /\ Kept
    BY <2>1, <2>2, <2>3, <2>4, TypeParts, NextTypeParts DEF Kept
  <2>6. HandlerInv(r)'
    <3>1. made'[n] = [ikey |-> req[r].ikey, print |-> req[r].print]
      BY <2>1, TypeParts
    <3>2. req[r].print \in Payloads
      BY <1>0, <1>5 DEF Create, At, HandlerInv, CreatePcs
    <3>3. /\ req'[r].pc = IF req[r].ikey = NoIdem THEN "answer" ELSE "store"
          /\ req'[r].res = n
          /\ req'[r].ikey = req[r].ikey /\ req'[r].print = req[r].print
      BY <1>0, <2>2 DEF Handler
    <3>4. req[r].ikey # NoIdem => req[r].ikey \in IdemKeys
      BY <1>0 DEF Handler
    <3> QED
      BY <3>1, <3>2, <3>3, <3>4 DEF HandlerInv, CreatePcs, TargetPcs
  <2> QED
    BY <2>1, <2>2, <2>5, <2>6, KeptSuffices, TypeParts
<1>6. CASE Store(r)
  <2>1. /\ req' = [req EXCEPT ![r] = req'[r]] /\ req'[r] \in Handler
        /\ req'[r] = [req[r] EXCEPT !.pc = "answer"]
        /\ UNCHANGED <<key, made, answers>>
        /\ store[req[r].ikey].state = "none"
        /\ store' = [store EXCEPT ![req[r].ikey] =
                        [state |-> "fresh", print |-> req[r].print,
                         res |-> req[r].res]]
    BY <1>6, OwnRecord DEF Store, Pcs
  <2>2. /\ req[r].ikey \in IdemKeys /\ req[r].print \in Payloads
        /\ req[r].res \in Resources
        /\ made[req[r].res] = [ikey |-> req[r].ikey, print |-> req[r].print]
    BY <1>0, <1>6 DEF Store, At, HandlerInv, CreatePcs, TargetPcs
  <2>3. [state |-> "fresh", print |-> req[r].print, res |-> req[r].res]
           \in StoreRow
    BY <2>2 DEF StoreRow
  <2>4. PipelineTypeOK' /\ Kept
    BY <2>1, <2>3, TypeParts, NextTypeParts DEF Kept
  <2>5. store'[req[r].ikey] = [state |-> "fresh", print |-> req[r].print,
                               res |-> req[r].res]
    BY <2>1, <2>2, TypeParts
  <2>6. HandlerInv(r)'
    BY <1>0, <2>1, <2>2, <2>5 DEF HandlerInv, CreatePcs, TargetPcs, Handler
  <2>7. StoreInv(req[r].ikey)'
    BY <2>1, <2>2, <2>5 DEF StoreInv
  <2> QED
    BY <2>1, <2>2, <2>4, <2>6, <2>7, KeptSuffices, TypeParts
<1>7. CASE Answer(r)
  <2>1. /\ req' = [req EXCEPT ![r] = Idle] /\ UNCHANGED <<key, store, made>>
        /\ answers' = answers \cup {[ikey |-> req[r].ikey, print |-> req[r].print,
                                     res |-> req[r].res]}
    BY <1>7, OwnRecord DEF Answer
  <2>2. /\ req[r].print \in Payloads /\ req[r].res \in Resources
        /\ made[req[r].res] = [ikey |-> req[r].ikey, print |-> req[r].print]
        /\ req[r].ikey # NoIdem => /\ store[req[r].ikey].state # "none"
                                   /\ store[req[r].ikey].res = req[r].res
                                   /\ store[req[r].ikey].print = req[r].print
    BY <1>0, <1>7 DEF Answer, At, HandlerInv, CreatePcs, TargetPcs
  <2>3. [ikey |-> req[r].ikey, print |-> req[r].print, res |-> req[r].res]
           \in Given
    BY <1>0, <2>2 DEF Given, Handler
  <2>4. PipelineTypeOK' /\ Kept
    BY <1>0, <2>1, <2>3, TypeParts, NextTypeParts DEF Kept
  <2>5. HandlerInv(r)'
    BY <1>0, <2>1, TypeParts, LittleToKnow
  <2>6. /\ req' = [req EXCEPT ![r] = req'[r]]
        /\ \A i \in IdemKeys : store'[i] # store[i] => StoreInv(i)'
    BY <1>0, <2>1, TypeParts
  <2>7. \A a \in answers' \ answers :
           /\ made'[a.res] = [ikey |-> a.ikey, print |-> a.print]
           /\ a.ikey # NoIdem => /\ store'[a.ikey].state # "none"
                                 /\ store'[a.ikey].res = a.res
                                 /\ store'[a.ikey].print = a.print
    BY <2>1, <2>2
  <2> QED
    BY <2>4, <2>5, <2>6, <2>7, KeptSuffices
<1> QED
  BY <1>1, <1>2, <1>3, <1>4, <1>5, <1>6, <1>7 DEF CreateStep
-----------------------------------------------------------------------------
(* The other steps, seen from the creating routes.                         *)

KeyPcs == {"idle", "mint", "revoke", "rotate_read", "rotate_revoke",
           "rotate_create"}

\* A key handler or an abort leaves the tables of the creating routes alone.
LEMMA KeyStepAside ==
    ASSUME PipelineTypeOK, NEW r \in Slots, HandlerInv(r),
           KeyStep(r) \/ Abort(r)
    PROVE  /\ UNCHANGED <<store, made, answers>>
           /\ key' \in [Keys -> KeyRow]
           /\ req' = [req EXCEPT ![r] = req'[r]]
           /\ req'[r] \in Handler /\ req'[r].pc \in KeyPcs
           /\ req'[r].pc \in TargetPcs => req'[r].target \in Keys
<1> DEFINE Goal == /\ UNCHANGED <<store, made, answers>>
                   /\ key' \in [Keys -> KeyRow]
                   /\ req' = [req EXCEPT ![r] = req'[r]]
                   /\ req'[r] \in Handler /\ req'[r].pc \in KeyPcs
                   /\ req'[r].pc \in TargetPcs => req'[r].target \in Keys
<1>0. /\ Idle \in Handler /\ Idle.pc = "idle" /\ req[r] \in Handler
      /\ key \in [Keys -> KeyRow]
  BY ConstantRows, TypeParts DEF Idle
<1>1. ASSUME Return(r)
      PROVE  /\ req' = [req EXCEPT ![r] = req'[r]]
             /\ req'[r] \in Handler /\ req'[r].pc \in KeyPcs
             /\ req'[r].pc \in TargetPcs => req'[r].target \in Keys
  <2>1. req' = [req EXCEPT ![r] = Idle] /\ req \in [Slots -> Handler]
    BY <1>1, OwnRecord, TypeParts
  <2>2. req'[r] = Idle
    BY <2>1
  <2> QED
    BY <1>0, <2>1, <2>2 DEF KeyPcs, TargetPcs
<1>2. ASSUME NEW local \in Handler, local.pc \in KeyPcs,
             local.pc \in TargetPcs => local.target \in Keys,
             Start(r, "keys", local)
      PROVE  Goal
  <2>1. PICK n \in Keys : /\ req' = [req EXCEPT ![r] = [local EXCEPT !.actor = n]]
                          /\ [local EXCEPT !.actor = n] \in Handler
    BY <1>2, Started
  <2>2. UNCHANGED <<key, store, made, answers>>
    BY <1>2, Started
  <2>3. req'[r] = [local EXCEPT !.actor = n]
    BY <2>1, TypeParts
  <2>4. req'[r].pc = local.pc /\ req'[r].target = local.target
    BY <2>3 DEF Handler
  <2> QED
    BY <1>0, <1>2, <2>1, <2>2, <2>3, <2>4
<1>3. CASE MintStart(r)
  <2>1. /\ [Idle EXCEPT !.pc = "mint"] \in Handler
        /\ [Idle EXCEPT !.pc = "mint"].pc = "mint"
    BY <1>0 DEF Handler, Pcs
  <2> QED
    BY <1>2, <1>3, <2>1 DEF MintStart, KeyPcs, TargetPcs
<1>4. CASE RevokeStart(r) \/ RotateStart(r)
  <2>1. PICK t \in Keys, label \in {"revoke", "rotate_read"} :
            Start(r, "keys", [Idle EXCEPT !.pc = label, !.target = t])
    BY <1>4 DEF RevokeStart, RotateStart
  <2>2. /\ [Idle EXCEPT !.pc = label, !.target = t] \in Handler
        /\ [Idle EXCEPT !.pc = label, !.target = t].pc = label
        /\ [Idle EXCEPT !.pc = label, !.target = t].target = t
    BY <1>0 DEF Handler, Pcs
  <2> QED
    BY <1>2, <2>1, <2>2 DEF KeyPcs
<1>5. CASE Mint(r)
  <2>1. PICK a \in Asked : InsertKey(a.scopes, a.expiry, NoKey)
    BY <1>5 DEF Mint
  <2>2. /\ a.scopes \in SUBSET Scopes
        /\ a.expiry \in {"never", "ahead", "past"}
    BY PipelineAssumption DEF Scopes
  <2>3. key' \in [Keys -> KeyRow]
    BY <2>1, <2>2, InsertKeyKeepsType
  <2> QED
    BY <1>1, <1>5, <2>3 DEF Mint
<1>6. CASE Revoke(r)
  <2>1. key' \in [Keys -> KeyRow]
    <3>1. req[r].target \in Keys
      BY <1>6 DEF Revoke, At, HandlerInv, TargetPcs
    <3> QED
      BY <1>0, <1>6, <3>1 DEF Revoke, KeyRow
  <2> QED
    BY <1>1, <1>6, <2>1 DEF Revoke
<1>7. CASE RotateRead(r)
  <2>1. UNCHANGED <<key, store, made, answers>>
    BY <1>7 DEF RotateRead
  <2>2. CASE key[req[r].target].state = "active"
    <3>1. req' = [req EXCEPT ![r].pc = "rotate_revoke",
                             ![r].scopes = key[req[r].target].scopes]
      BY <1>7, <2>2 DEF RotateRead
    <3>2. /\ req' = [req EXCEPT ![r] = req'[r]]
          /\ req'[r] = [req[r] EXCEPT !.pc = "rotate_revoke",
                                      !.scopes = key[req[r].target].scopes]
      BY <3>1, TypeParts
    <3>3. req[r].target \in Keys
      BY <1>7 DEF RotateRead, At, HandlerInv, TargetPcs
    <3>4. key[req[r].target].scopes \in SUBSET Scopes
      BY <1>0, <3>3 DEF KeyRow
    <3>5. /\ req'[r] \in Handler /\ req'[r].pc = "rotate_revoke"
          /\ req'[r].target = req[r].target
      BY <1>0, <3>2, <3>4 DEF Handler, Pcs
    <3> QED
      BY <1>0, <2>1, <3>2, <3>5, <3>3 DEF KeyPcs
  <2> QED
    BY <1>0, <1>1, <1>7, <2>1, <2>2 DEF RotateRead
<1>8. CASE RotateRevoke(r)
  <2>1. key' \in [Keys -> KeyRow]
    <3>1. req[r].target \in Keys
      BY <1>8 DEF RotateRevoke, At, HandlerInv, TargetPcs
    <3> QED
      BY <1>0, <1>8, <3>1 DEF RotateRevoke, KeyRow
  <2>2. /\ req' = [req EXCEPT ![r] = req'[r]]
        /\ req'[r] \in Handler /\ req'[r].pc \in KeyPcs
        /\ req'[r].pc \in TargetPcs => req'[r].target \in Keys
    <3>1. CASE Return(r)
      BY <1>1, <3>1
    <3>2. CASE Goto(r, "rotate_create")
      <4>1. req[r].target \in Keys
        BY <1>8 DEF RotateRevoke, At, HandlerInv, TargetPcs
      <4>2. /\ req' = [req EXCEPT ![r] = req'[r]] /\ req'[r] \in Handler
            /\ req'[r] = [req[r] EXCEPT !.pc = "rotate_create"]
        BY <3>2, OwnRecord DEF Pcs
      <4>3. req'[r].pc = "rotate_create" /\ req'[r].target = req[r].target
        BY <1>0, <4>2 DEF Handler
      <4> QED
        BY <4>1, <4>2, <4>3 DEF KeyPcs
    <3> QED
      BY <1>8, <3>1, <3>2 DEF RotateRevoke
  <2> QED
    BY <1>8, <2>1, <2>2 DEF RotateRevoke
<1>9. CASE RotateCreate(r)
  <2>1. key' \in [Keys -> KeyRow]
    BY <1>0, <1>9, InsertKeyKeepsType DEF RotateCreate, Handler
  <2> QED
    BY <1>1, <1>9, <2>1 DEF RotateCreate
<1>10. CASE Abort(r)
  BY <1>0, <1>1, <1>10 DEF Abort
<1> QED
  BY <1>3, <1>4, <1>5, <1>6, <1>7, <1>8, <1>9, <1>10 DEF KeyStep

LEMMA MintRootTypes ==
    ASSUME PipelineTypeOK, MintRoot
    PROVE  key' \in [Keys -> KeyRow]
  BY InsertKeyKeepsType DEF MintRoot

LEMMA KeyExpiresTypes ==
    ASSUME PipelineTypeOK, NEW k \in Keys, KeyExpires(k)
    PROVE  key' \in [Keys -> KeyRow]
  BY TypeParts DEF KeyExpires, KeyRow

LEMMA NextAnswers == AnswersInv /\ [Next]_vars => AnswersInv'
<1> SUFFICES ASSUME AnswersInv, [Next]_vars PROVE AnswersInv'
  OBVIOUS
<1> USE DEF AnswersInv
<1>1. ASSUME UNCHANGED <<store, made, answers, req>>, key' \in [Keys -> KeyRow]
      PROVE  AnswersInv'
  <2>1. PipelineTypeOK'
    BY <1>1, TypeParts, NextTypeParts
  <2> QED
    BY <1>1, <2>1 DEF AnswersMatchStore, StoreInv, HandlerInv
<1>2. ASSUME NEW r \in Slots, Step(r) PROVE AnswersInv'
  <2>1. CASE CreateStep(r)
    BY <2>1, CreateStepAnswers
  <2>2. CASE KeyStep(r) \/ Abort(r)
    <3>1. PipelineTypeOK' /\ Kept
      BY <2>2, KeyStepAside, TypeParts, NextTypeParts DEF Kept
    <3>2. HandlerInv(r)'
      BY <2>2, KeyStepAside, LittleToKnow DEF KeyPcs, CreatePcs
    <3> QED
      BY <2>2, <3>1, <3>2, KeyStepAside, KeptSuffices
  <2> QED
    BY <1>2, <2>1, <2>2 DEF Step
<1>3. ASSUME NEW i \in IdemKeys, StoredExpires(i) PROVE AnswersInv'
  <2>1. /\ UNCHANGED <<key, made, answers, req>>
        /\ store[i].state = "fresh"
        /\ store' = [store EXCEPT ![i].state = "expired"]
    BY <1>3 DEF StoredExpires
  <2>2. /\ store' \in [IdemKeys -> StoreRow]
        /\ \A j \in IdemKeys :
              /\ store[j].state # "none" <=> store'[j].state # "none"
              /\ store'[j].res = store[j].res /\ store'[j].print = store[j].print
    BY <2>1, TypeParts DEF StoreRow
  <2>3. PipelineTypeOK'
    BY <2>1, <2>2, TypeParts, NextTypeParts
  <2>4. ASSUME NEW r \in Slots PROVE HandlerInv(r)'
    <3>1. /\ req[r].ikey # NoIdem => req[r].ikey \in IdemKeys
          /\ HandlerInv(r) /\ req' = req /\ made' = made
      BY <2>1, TypeParts DEF Handler
    <3>2. req[r].ikey # NoIdem
             => /\ store'[req[r].ikey].res = store[req[r].ikey].res
                /\ store'[req[r].ikey].print = store[req[r].ikey].print
                /\ store[req[r].ikey].state # "none"
                      => store'[req[r].ikey].state # "none"
      BY <2>2, <3>1
    <3> QED
      BY <3>1, <3>2 DEF HandlerInv
  <2>5. AnswersMatchStore'
    <3>1. \A a \in answers : a.ikey # NoIdem => a.ikey \in IdemKeys
      BY TypeParts DEF Given
    <3>2. ASSUME NEW a \in answers, a.ikey # NoIdem
          PROVE  /\ store'[a.ikey].state # "none"
                 /\ store'[a.ikey].res = a.res /\ store'[a.ikey].print = a.print
      BY <2>2, <3>1, <3>2 DEF AnswersMatchStore
    <3> QED
      BY <2>1, <3>2 DEF AnswersMatchStore
  <2>6. \A j \in IdemKeys : StoreInv(j)'
    BY <2>1, <2>2 DEF StoreInv
  <2> QED
    BY <2>3, <2>4, <2>5, <2>6
<1>4. CASE MintRoot
  BY <1>1, <1>4, MintRootTypes DEF MintRoot
<1>5. ASSUME NEW k \in Keys, KeyExpires(k) PROVE AnswersInv'
  BY <1>1, <1>5, KeyExpiresTypes DEF KeyExpires
<1>6. CASE UNCHANGED vars
  BY <1>1, <1>6, TypeParts DEF vars
<1> QED
  BY <1>2, <1>3, <1>4, <1>5, <1>6, NextCases

LEMMA AnswersAlways == Spec => []AnswersInv
  BY InitAnswers, NextAnswers, PTL DEF Spec

\* The tables and the handlers' locals keep their types.
THEOREM PipelineTypeCorrect == Spec => []PipelineTypeOK
<1>1. AnswersInv => PipelineTypeOK
  BY DEF AnswersInv
<1> QED
  BY <1>1, AnswersAlways, PTL

\* All answers given under one Idempotency-Key name the resource stored under
\* it, and every answer names a resource made for that very request.
THEOREM AnswersAgree == Spec => []AnswersMatchStore
<1>1. AnswersInv => AnswersMatchStore
  BY DEF AnswersInv
<1> QED
  BY <1>1, AnswersAlways, PTL
-----------------------------------------------------------------------------
(* Rotation.                                                               *)
(*                                                                         *)
(* OneSuccessor needs to know what a rotation relies on between its three  *)
(* statements: once its update has found the row, the key is revoked, has  *)
(* no successor, and no other rotation of it can have got as far.          *)

RotateInv(r) ==
    LET t == req[r].target
    IN  /\ req[r].pc \in {"rotate_revoke", "rotate_create"}
              => key[t].state # "none" /\ key[t].scopes = req[r].scopes
        /\ req[r].pc = "rotate_create"
              => /\ key[t].state = "revoked"
                 /\ \A k \in Keys : key[k].from # t
                 /\ \A s \in Slots : req[s].pc = "rotate_create"
                                       /\ req[s].target = t => s = r

KeyInv(k) == key[k].state = "none" => key[k].from = NoKey

SuccessorInv ==
    /\ AnswersInv
    /\ OneSuccessor
    /\ \A k \in Keys : KeyInv(k)
    /\ \A r \in Slots : RotateInv(r)

LEMMA InitSuccessor == Init => SuccessorInv
<1> SUFFICES ASSUME Init PROVE SuccessorInv
  OBVIOUS
<1>1. OneSuccessor /\ \A k \in Keys : KeyInv(k)
  BY DEF Init, OneSuccessor, KeyInv, AbsentKey
<1>2. \A r \in Slots : RotateInv(r)
  BY DEF Init, RotateInv, Idle
<1> QED
  BY <1>1, <1>2, InitAnswers DEF SuccessorInv

\* A row keeps its scopes and its origin, and stays revoked.
KeysKept ==
    \A k \in Keys :
        key[k].state # "none"
           => /\ key'[k].state # "none"
              /\ key'[k].scopes = key[k].scopes
              /\ key'[k].from = key[k].from
              /\ key[k].state = "revoked" => key'[k].state = "revoked"

\* A step that gives nobody a successor, and under which at most the handlers
\* named by the last assumption move.
LEMMA NoNewSuccessor ==
    ASSUME SuccessorInv, AnswersInv', KeysKept,
           \A k \in Keys : key'[k].from = key[k].from /\ KeyInv(k)',
           \A s \in Slots : req'[s] = req[s] \/ RotateInv(s)'
    PROVE  SuccessorInv'
<1> USE DEF SuccessorInv
<1>1. OneSuccessor'
  <2>1. ASSUME NEW k \in Keys, key'[k].from # NoKey
        PROVE  /\ key'[key'[k].from].state = "revoked"
               /\ key'[key'[k].from].scopes = key'[k].scopes
    <3> DEFINE t == key[k].from
    <3>1. key[k].state # "none" /\ t \in Keys
      BY <2>1, TypeParts DEF KeyInv, KeyRow, AnswersInv
    <3>2. key[t].state = "revoked" /\ key[t].scopes = key[k].scopes
      BY <2>1 DEF OneSuccessor
    <3> QED
      BY <3>1, <3>2 DEF KeysKept
  <2>2. \A j, k \in Keys : key'[j].from = key'[k].from /\ key'[j].from # NoKey
                              => j = k
    BY DEF OneSuccessor
  <2> QED
    BY <2>1, <2>2 DEF OneSuccessor
<1>2. ASSUME NEW s \in Slots, req'[s] = req[s] PROVE RotateInv(s)'
  <2> DEFINE t == req[s].target
  <2>1. req[s].pc \in {"rotate_revoke", "rotate_create"} => t \in Keys
    BY DEF AnswersInv, HandlerInv, TargetPcs
  <2>2. ASSUME req[s].pc = "rotate_create", NEW u \in Slots,
               req'[u].pc = "rotate_create", req'[u].target = t
        PROVE  u = s
    <3>1. CASE req'[u] = req[u]
      BY <2>2, <3>1 DEF RotateInv
    <3>2. CASE RotateInv(u)'
      BY <1>2, <2>2, <3>2 DEF RotateInv
    <3> QED
      BY <3>1, <3>2
  <2> QED
    BY <1>2, <2>1, <2>2 DEF RotateInv, KeysKept
<1> QED
  BY <1>1, <1>2

LEMMA InsertKeyKeeps ==
    ASSUME PipelineTypeOK, NEW scopes, NEW expiry,
           InsertKey(scopes, expiry, NoKey),
           \A k \in Keys : KeyInv(k)
    PROVE  /\ KeysKept
           /\ \A k \in Keys : key'[k].from = key[k].from /\ KeyInv(k)'
<1>1. PICK n \in Keys :
          /\ key[n].state = "none"
          /\ key' = [key EXCEPT ![n] = [state |-> "active", expiry |-> expiry,
                                        scopes |-> scopes, from |-> NoKey]]
  BY DEF InsertKey
<1>2. \A k \in Keys : key'[k] = IF k = n
                                THEN [state |-> "active", expiry |-> expiry,
                                      scopes |-> scopes, from |-> NoKey]
                                ELSE key[k]
  BY <1>1, TypeParts
<1> QED
  BY <1>1, <1>2 DEF KeysKept, KeyInv

\* revoke, in its two places, and the passing of expires_at.
LEMMA UpdateKeeps ==
    ASSUME PipelineTypeOK, \A k \in Keys : KeyInv(k), NEW t \in Keys,
           key[t].state # "none",
           \/ key' = [key EXCEPT ![t].state = "revoked"]
           \/ key' = [key EXCEPT ![t].expiry = "past"]
    PROVE  /\ KeysKept
           /\ \A k \in Keys : key'[k].from = key[k].from /\ KeyInv(k)'
<1> USE TypeParts DEF KeyRow, KeysKept, KeyInv
<1>1. CASE key' = [key EXCEPT ![t].state = "revoked"]
  BY <1>1
<1>2. CASE key' = [key EXCEPT ![t].expiry = "past"]
  BY <1>2
<1> QED
  BY <1>1, <1>2

\* A handler that is at none of the last two steps of rotate.
LEMMA NotRotating ==
    ASSUME NEW r \in Slots, req'[r].pc \notin {"rotate_revoke", "rotate_create"}
    PROVE  RotateInv(r)'
  BY DEF RotateInv

LEMMA CreateStepAside ==
    ASSUME AnswersInv, NEW r \in Slots, CreateStep(r)
    PROVE  /\ UNCHANGED key
           /\ req' = [req EXCEPT ![r] = req'[r]]
           /\ req'[r].pc \in CreatePcs \cup {"idle"}
<1> USE DEF AnswersInv, CreatePcs
<1>0. /\ Idle \in Handler /\ Idle.pc = "idle" /\ req[r] \in Handler
      /\ req \in [Slots -> Handler]
  BY ConstantRows, TypeParts DEF Idle
<1>1. CASE CreateStart(r)
  <2>1. PICK local \in Handler : /\ local.pc \in {"create", "lookup"}
                                 /\ Start(r, "create", local)
    BY <1>0, <1>1 DEF CreateStart, Handler, Pcs
  <2>2. PICK k \in Keys : /\ req' = [req EXCEPT ![r] = [local EXCEPT !.actor = k]]
                          /\ [local EXCEPT !.actor = k] \in Handler
    BY <2>1, Started
  <2>3. UNCHANGED key
    BY <2>1, Started
  <2>4. req'[r].pc = local.pc
    <3>1. req'[r] = [local EXCEPT !.actor = k]
      BY <1>0, <2>2
    <3> QED
      BY <3>1 DEF Handler
  <2> QED
    BY <1>0, <2>1, <2>2, <2>3, <2>4
<1>2. CASE Replay(r) \/ Conflict(r) \/ StoreRefused(r) \/ Answer(r)
  <2>1. Return(r) /\ UNCHANGED key
    BY <1>2 DEF Replay, Conflict, StoreRefused, Answer
  <2> QED
    BY <1>0, <2>1, OwnRecord
<1>3. CASE LookupMiss(r) \/ Store(r)
  <2>1. PICK label \in {"create", "answer"} : Goto(r, label) /\ UNCHANGED key
    BY <1>3 DEF LookupMiss, Store
  <2>2. label \in Pcs
    BY DEF Pcs
  <2>3. /\ req' = [req EXCEPT ![r] = req'[r]]
        /\ req'[r] = [req[r] EXCEPT !.pc = label]
    BY <1>0, <2>1, <2>2, OwnRecord
  <2>4. req'[r].pc = label
    BY <1>0, <2>3 DEF Handler
  <2> QED
    BY <2>1, <2>3, <2>4
<1>4. CASE Create(r)
  <2>1. PICK n \in Resources, label \in {"answer", "store"} :
            /\ req' = [req EXCEPT ![r].res = n, ![r].pc = label]
            /\ UNCHANGED key
    BY <1>4 DEF Create
  <2>2. /\ req' = [req EXCEPT ![r] = req'[r]]
        /\ req'[r] = [req[r] EXCEPT !.res = n, !.pc = label]
    BY <1>0, <2>1
  <2> QED
    BY <1>0, <2>1, <2>2 DEF Handler
<1> QED
  BY <1>1, <1>2, <1>3, <1>4 DEF CreateStep

\* The step that names a successor.
LEMMA RotateCreateKeeps ==
    ASSUME SuccessorInv, AnswersInv', NEW r \in Slots, RotateCreate(r)
    PROVE  SuccessorInv'
<1> USE DEF SuccessorInv
<1> DEFINE t == req[r].target
<1>1. /\ t \in Keys /\ key[t].state = "revoked" /\ key[t].scopes = req[r].scopes
      /\ \A k \in Keys : key[k].from # t
      /\ \A s \in Slots : req[s].pc = "rotate_create" /\ req[s].target = t
                             => s = r
  BY DEF RotateCreate, At, AnswersInv, HandlerInv, TargetPcs, RotateInv
<1>2. PICK n \in Keys :
          /\ key[n].state = "none"
          /\ key' = [key EXCEPT ![n] = [state |-> "active", expiry |-> "never",
                                        scopes |-> req[r].scopes, from |-> t]]
  BY DEF RotateCreate, InsertKey
<1>3. req' = [req EXCEPT ![r] = Idle] /\ Idle.pc = "idle"
  BY OwnRecord DEF RotateCreate, AnswersInv, Idle
<1>4. /\ \A k \in Keys : key'[k] = IF k = n
                                   THEN [state |-> "active", expiry |-> "never",
                                         scopes |-> req[r].scopes, from |-> t]
                                   ELSE key[k]
      /\ \A s \in Slots : req'[s] = IF s = r THEN Idle ELSE req[s]
  BY <1>2, <1>3, TypeParts DEF AnswersInv
<1>5. \A k \in Keys : KeyInv(k)'
  BY <1>4 DEF KeyInv
<1>6. OneSuccessor'
  <2>1. ASSUME NEW k \in Keys, key'[k].from # NoKey
        PROVE  /\ key'[key'[k].from].state = "revoked"
               /\ key'[key'[k].from].scopes = key'[k].scopes
    <3>1. CASE k = n
      BY <1>1, <1>2, <1>4, <3>1
    <3>2. CASE k # n
      <4> DEFINE u == key[k].from
      <4>1. u \in Keys
        BY <1>4, <2>1, <3>2, TypeParts DEF AnswersInv, KeyRow
      <4>2. key[u].state = "revoked" /\ key[u].scopes = key[k].scopes
        BY <1>4, <2>1, <3>2 DEF OneSuccessor
      <4> QED
        BY <1>2, <1>4, <3>2, <4>1, <4>2
    <3> QED
      BY <3>1, <3>2
  <2>2. \A j, k \in Keys : key'[j].from = key'[k].from /\ key'[j].from # NoKey
                              => j = k
    BY <1>1, <1>4 DEF OneSuccessor
  <2> QED
    BY <2>1, <2>2 DEF OneSuccessor
<1>7. ASSUME NEW s \in Slots PROVE RotateInv(s)'
  <2>1. CASE s = r
    BY <1>3, <1>4, <2>1, NotRotating
  <2>2. CASE s # r
    <3>1. /\ req'[s] = req[s] /\ RotateInv(s)
          /\ req[s].pc \in {"rotate_revoke", "rotate_create"}
                => req[s].target \in Keys
      BY <1>4, <2>2 DEF AnswersInv, HandlerInv, TargetPcs
    <3>2. req[s].pc \in {"rotate_revoke", "rotate_create"}
             => req[s].target # n /\ key'[req[s].target] = key[req[s].target]
      BY <1>2, <1>4, <3>1 DEF RotateInv
    <3>3. req[s].pc = "rotate_create" => req[s].target # t
      BY <1>1, <2>2
    <3>4. req[s].pc = "rotate_create"
             => \A k \in Keys : key'[k].from # req[s].target
      BY <1>4, <3>1, <3>3 DEF RotateInv
    <3>5. \A u \in Slots : req'[u].pc = "rotate_create" => req'[u] = req[u]
      BY <1>3, <1>4
    <3> QED
      BY <3>1, <3>2, <3>4, <3>5 DEF RotateInv
  <2> QED
    BY <2>1, <2>2
<1> QED
  BY <1>5, <1>6, <1>7

LEMMA KeyStepSuccessor ==
    ASSUME SuccessorInv, AnswersInv', NEW r \in Slots, KeyStep(r) \/ Abort(r)
    PROVE  SuccessorInv'
<1> USE DEF SuccessorInv
<1>0. /\ PipelineTypeOK /\ HandlerInv(r)
      /\ req' = [req EXCEPT ![r] = req'[r]] /\ req \in [Slots -> Handler]
      /\ Idle.pc = "idle"
  BY KeyStepAside, TypeParts DEF AnswersInv, Idle
<1>1. ASSUME KeysKept, RotateInv(r)',
             \A k \in Keys : key'[k].from = key[k].from /\ KeyInv(k)'
      PROVE  SuccessorInv'
  BY <1>0, <1>1, NoNewSuccessor
<1>2. ASSUME key' = key, RotateInv(r)' PROVE SuccessorInv'
  BY <1>1, <1>2 DEF KeysKept, KeyInv
<1>3. ASSUME Return(r) PROVE RotateInv(r)'
  BY <1>0, <1>3, OwnRecord, NotRotating
<1>4. ASSUME NEW local \in Handler, NEW scope, Start(r, scope, local),
             local.pc \notin {"rotate_revoke", "rotate_create"}
      PROVE  SuccessorInv'
  <2>1. PICK n \in Keys : /\ req' = [req EXCEPT ![r] = [local EXCEPT !.actor = n]]
                          /\ [local EXCEPT !.actor = n] \in Handler
    BY <1>0, <1>4, Started
  <2>2. req'[r].pc = local.pc
    BY <1>0, <2>1 DEF Handler
  <2> QED
    BY <1>2, <1>4, <2>2, NotRotating DEF Start
<1>5. CASE MintStart(r) \/ RevokeStart(r) \/ RotateStart(r)
  <2>1. /\ [Idle EXCEPT !.pc = "mint"] \in Handler
        /\ [Idle EXCEPT !.pc = "mint"].pc = "mint"
    BY ConstantRows DEF Handler, Pcs
  <2>2. ASSUME NEW t \in Keys, NEW label \in {"revoke", "rotate_read"}
        PROVE  /\ [Idle EXCEPT !.pc = label, !.target = t] \in Handler
               /\ [Idle EXCEPT !.pc = label, !.target = t].pc = label
    BY ConstantRows DEF Handler, Pcs
  <2> QED
    BY <1>4, <1>5, <2>1, <2>2 DEF MintStart, RevokeStart, RotateStart
<1>6. CASE Mint(r)
  <2>1. PICK a \in Asked : InsertKey(a.scopes, a.expiry, NoKey)
    BY <1>6 DEF Mint
  <2> QED
    BY <1>0, <1>1, <1>3, <1>6, <2>1, InsertKeyKeeps DEF Mint
<1>7. CASE Revoke(r)
  <2>1. CASE key[req[r].target].state = "active"
    <3>1. /\ req[r].target \in Keys
          /\ key' = [key EXCEPT ![req[r].target].state = "revoked"]
      BY <1>0, <1>7, <2>1 DEF Revoke, At, HandlerInv, TargetPcs
    <3> QED
      BY <1>0, <1>1, <1>3, <1>7, <2>1, <3>1, UpdateKeeps DEF Revoke
  <2>2. CASE key[req[r].target].state # "active"
    BY <1>2, <1>3, <1>7, <2>2 DEF Revoke
  <2> QED
    BY <2>1, <2>2
<1>8. CASE RotateRead(r)
  <2>1. CASE key[req[r].target].state = "active"
    <3>1. /\ req' = [req EXCEPT ![r].pc = "rotate_revoke",
                                ![r].scopes = key[req[r].target].scopes]
          /\ key' = key
      BY <1>8, <2>1 DEF RotateRead
    <3>2. req'[r] = [req[r] EXCEPT !.pc = "rotate_revoke",
                                   !.scopes = key[req[r].target].scopes]
      BY <1>0, <3>1
    <3>3. /\ req'[r].pc = "rotate_revoke" /\ req'[r].target = req[r].target
          /\ req'[r].scopes = key[req[r].target].scopes
      BY <1>0, <3>2 DEF Handler
    <3> QED
      BY <1>2, <2>1, <3>1, <3>3 DEF RotateInv
  <2>2. CASE key[req[r].target].state # "active"
    BY <1>2, <1>3, <1>8, <2>2 DEF RotateRead
  <2> QED
    BY <2>1, <2>2
<1>9. CASE RotateRevoke(r)
  <2> DEFINE t == req[r].target
  <2>1. CASE key[t].state = "active"
    <3>1. /\ t \in Keys /\ Goto(r, "rotate_create")
          /\ key' = [key EXCEPT ![t].state = "revoked"]
      BY <1>0, <1>9, <2>1 DEF RotateRevoke, At, HandlerInv, TargetPcs
    <3>2. req'[r] = [req[r] EXCEPT !.pc = "rotate_create"]
      BY <1>0, <3>1, OwnRecord DEF Pcs
    <3>3. /\ req'[r].pc = "rotate_create" /\ req'[r].target = t
          /\ req'[r].scopes = req[r].scopes
      BY <1>0, <3>2 DEF Handler
    <3>4. /\ KeysKept
          /\ \A k \in Keys : key'[k].from = key[k].from /\ KeyInv(k)'
      BY <1>0, <2>1, <3>1, UpdateKeeps
    <3>5. \A k \in Keys : key'[k].from # t
      BY <2>1, <3>1, <3>4, PipelineAssumption DEF OneSuccessor
    <3>6. key'[t].state = "revoked" /\ key'[t].scopes = req[r].scopes
      <4>1. key[t].scopes = req[r].scopes
        BY <1>9 DEF RotateRevoke, At, RotateInv
      <4> QED
        BY <1>0, <2>1, <3>1, <3>4, <4>1, TypeParts DEF KeysKept, KeyRow
    <3>7. \A s \in Slots : req'[s].pc = "rotate_create" /\ req'[s].target = t
                              => s = r
      BY <1>0, <2>1 DEF RotateInv
    <3> QED
      BY <1>1, <3>3, <3>4, <3>5, <3>6, <3>7 DEF RotateInv
  <2>2. CASE key[t].state # "active"
    BY <1>2, <1>3, <1>9, <2>2 DEF RotateRevoke
  <2> QED
    BY <2>1, <2>2
<1>10. CASE RotateCreate(r)
  BY <1>10, RotateCreateKeeps
<1>11. CASE Abort(r)
  BY <1>2, <1>3, <1>11 DEF Abort
<1> QED
  BY <1>5, <1>6, <1>7, <1>8, <1>9, <1>10, <1>11 DEF KeyStep

LEMMA NextSuccessor == SuccessorInv /\ [Next]_vars => SuccessorInv'
<1> SUFFICES ASSUME SuccessorInv, [Next]_vars PROVE SuccessorInv'
  OBVIOUS
<1> USE DEF SuccessorInv
<1>0. AnswersInv' /\ PipelineTypeOK
  BY NextAnswers DEF AnswersInv
<1>1. ASSUME key' = key, \A s \in Slots : req'[s] = req[s] \/ RotateInv(s)'
      PROVE  SuccessorInv'
  BY <1>0, <1>1, NoNewSuccessor DEF KeysKept, KeyInv
<1>2. ASSUME NEW r \in Slots, Step(r) PROVE SuccessorInv'
  <2>1. CASE CreateStep(r)
    <3>1. RotateInv(r)'
      BY <2>1, CreateStepAside, NotRotating DEF CreatePcs
    <3> QED
      BY <1>0, <1>1, <2>1, <3>1, CreateStepAside, TypeParts
  <2>2. CASE KeyStep(r) \/ Abort(r)
    BY <1>0, <2>2, KeyStepSuccessor
  <2> QED
    BY <1>2, <2>1, <2>2 DEF Step
<1>3. ASSUME NEW k \in Keys, KeyExpires(k) PROVE SuccessorInv'
  BY <1>0, <1>3, UpdateKeeps, NoNewSuccessor DEF KeyExpires
<1>4. ASSUME NEW i \in IdemKeys, StoredExpires(i) PROVE SuccessorInv'
  BY <1>1, <1>4 DEF StoredExpires
<1>5. CASE MintRoot
  BY <1>0, <1>5, InsertKeyKeeps, NoNewSuccessor DEF MintRoot
<1>6. CASE UNCHANGED vars
  BY <1>1, <1>6 DEF vars
<1> QED
  BY <1>2, <1>3, <1>4, <1>5, <1>6, NextCases

\* However rotations and revocations overlap or die, a key has at most one
\* successor, which can do what the revoked key could.
THEOREM SuccessorUnique == Spec => []OneSuccessor
<1>1. SuccessorInv => OneSuccessor
  BY DEF SuccessorInv
<1> QED
  BY <1>1, InitSuccessor, NextSuccessor, PTL DEF Spec
-----------------------------------------------------------------------------
(* The action properties.                                                  *)

\* A handler under a key appears by Start alone, which finds the key valid.
LEMMA HoldersAppear ==
    ASSUME AnswersInv, NEW r \in Slots, Step(r), NEW k \in Keys,
           req'[r].actor = k
    PROVE  req[r].actor = k \/ Valid(k)
<1> USE DEF AnswersInv
<1>0. /\ PipelineTypeOK /\ req \in [Slots -> Handler] /\ req[r] \in Handler
      /\ Idle.actor # k /\ Idle \in Handler
  BY PipelineAssumption, TypeParts, ConstantRows DEF Idle
<1>1. ASSUME Return(r) PROVE FALSE
  BY <1>0, <1>1, OwnRecord
<1>2. ASSUME NEW label \in Pcs, Goto(r, label) PROVE req[r].actor = k
  <2>1. req'[r] = [req[r] EXCEPT !.pc = label]
    BY <1>0, <1>2, OwnRecord
  <2> QED
    BY <1>0, <2>1 DEF Handler
<1>3. ASSUME NEW local \in Handler, NEW scope, Start(r, scope, local)
      PROVE  Valid(k)
  <2>1. PICK n \in Keys : /\ Valid(n)
                          /\ req' = [req EXCEPT ![r] = [local EXCEPT !.actor = n]]
                          /\ [local EXCEPT !.actor = n] \in Handler
    BY <1>0, <1>3, Started
  <2>2. req'[r].actor = n
    BY <1>0, <2>1 DEF Handler
  <2> QED
    BY <2>1, <2>2
<1>4. CASE CreateStart(r)
  <2>1. PICK i \in IdemKeys \cup {NoIdem}, p \in Payloads :
            Start(r, "create",
                  [Idle EXCEPT !.pc = IF i = NoIdem THEN "create" ELSE "lookup",
                               !.ikey = i, !.print = p])
    BY <1>4 DEF CreateStart
  <2>2. [Idle EXCEPT !.pc = IF i = NoIdem THEN "create" ELSE "lookup",
                     !.ikey = i, !.print = p] \in Handler
    BY ClientLocal
  <2> QED
    BY <1>3, <2>1, <2>2
<1>5. CASE MintStart(r) \/ RevokeStart(r) \/ RotateStart(r)
  <2>1. [Idle EXCEPT !.pc = "mint"] \in Handler
    BY <1>0 DEF Handler, Pcs
  <2>2. ASSUME NEW t \in Keys, NEW label \in {"revoke", "rotate_read"}
        PROVE  [Idle EXCEPT !.pc = label, !.target = t] \in Handler
    BY <1>0 DEF Handler, Pcs
  <2> QED
    BY <1>3, <1>5, <2>1, <2>2 DEF MintStart, RevokeStart, RotateStart
<1>6. CASE LookupMiss(r) \/ Store(r)
  BY <1>2, <1>6 DEF LookupMiss, Store, Pcs
<1>7. CASE Create(r)
  BY <1>0, <1>7 DEF Create, Handler
<1>8. CASE RotateRead(r) \/ RotateRevoke(r)
  BY <1>0, <1>1, <1>2, <1>8 DEF RotateRead, RotateRevoke, Handler, Pcs
<1>9. CASE \/ Replay(r) \/ Conflict(r) \/ StoreRefused(r) \/ Answer(r)
           \/ Mint(r) \/ Revoke(r) \/ RotateCreate(r) \/ Abort(r)
  BY <1>1, <1>9 DEF Replay, Conflict, StoreRefused, Answer, Mint, Revoke,
                    RotateCreate, Abort
<1> QED
  BY <1>4, <1>5, <1>6, <1>7, <1>8, <1>9 DEF Step, CreateStep, KeyStep

\* No statement brings a revoked key back.
LEMMA RevokedStays ==
    ASSUME PipelineTypeOK, [Next]_vars, NEW k \in Keys, key[k].state = "revoked"
    PROVE  key'[k].state = "revoked"
<1> USE TypeParts DEF KeyRow
<1>1. ASSUME NEW scopes, NEW expiry, NEW from, InsertKey(scopes, expiry, from)
      PROVE  key'[k].state = "revoked"
  BY <1>1 DEF InsertKey
<1>2. ASSUME NEW r \in Slots, Step(r) PROVE key'[k].state = "revoked"
  <2>1. CASE Mint(r) \/ RotateCreate(r)
    BY <1>1, <2>1 DEF Mint, RotateCreate
  <2>2. CASE Revoke(r) \/ RotateRevoke(r)
    <3>1. \/ key' = key
          \/ key' = [key EXCEPT ![req[r].target].state = "revoked"]
      BY <2>2 DEF Revoke, RotateRevoke
    <3> QED
      BY <3>1
  <2>3. CASE CreateStart(r) \/ MintStart(r) \/ RevokeStart(r) \/ RotateStart(r)
    BY <2>3 DEF CreateStart, MintStart, RevokeStart, RotateStart, Start
  <2>4. CASE \/ Replay(r) \/ Conflict(r) \/ LookupMiss(r) \/ Create(r)
             \/ Store(r) \/ StoreRefused(r) \/ Answer(r) \/ RotateRead(r)
             \/ Abort(r)
    BY <2>4 DEF Replay, Conflict, LookupMiss, Create, Store, StoreRefused,
                Answer, RotateRead, Abort
  <2> QED
    BY <1>2, <2>1, <2>2, <2>3, <2>4 DEF Step, CreateStep, KeyStep
<1>3. ASSUME NEW n \in Keys, KeyExpires(n) PROVE key'[k].state = "revoked"
  BY <1>3 DEF KeyExpires
<1>4. CASE MintRoot
  BY <1>1, <1>4 DEF MintRoot
<1>5. ASSUME NEW i \in IdemKeys, StoredExpires(i)
      PROVE  key'[k].state = "revoked"
  BY <1>5 DEF StoredExpires
<1> QED
  BY <1>2, <1>3, <1>4, <1>5, NextCases DEF vars

\* The environment and the clock start no handler, and a handler moves alone.
LEMMA OneMoves ==
    ASSUME AnswersInv, [Next]_vars
    PROVE  \/ req' = req
           \/ \E r \in Slots : Step(r) /\ \A s \in Slots \ {r} : req'[s] = req[s]
<1>1. ASSUME NEW r \in Slots, Step(r)
      PROVE  \A s \in Slots \ {r} : req'[s] = req[s]
  <2>1. req' = [req EXCEPT ![r] = req'[r]] /\ req \in [Slots -> Handler]
    BY <1>1, CreateStepAside, KeyStepAside, TypeParts DEF Step, AnswersInv
  <2> QED
    BY <2>1
<1> QED
  BY <1>1, NextCases DEF KeyExpires, StoredExpires, MintRoot, vars

\* A revoked key is dead once the requests it had begun are over, whatever
\* rotations and revocations of it are still in flight.
THEOREM RevokedDead == Spec => RevokedIsDead
<1>1. ASSUME AnswersInv, [Next]_vars, NEW k \in Keys,
             key[k].state = "revoked", Holders(k) = {}
      PROVE  key'[k].state = "revoked" /\ Holders(k)' = {}
  <2>1. key'[k].state = "revoked"
    BY <1>1, RevokedStays DEF AnswersInv
  <2>2. ASSUME NEW s \in Slots PROVE req'[s].actor # k
    <3>1. req[s].actor # k /\ ~Valid(k)
      BY <1>1 DEF Holders, Valid
    <3>2. CASE req'[s] = req[s]
      BY <3>1, <3>2
    <3>3. CASE Step(s)
      BY <1>1, <3>1, <3>3, HoldersAppear
    <3> QED
      BY <1>1, <3>2, <3>3, OneMoves
  <2> QED
    BY <2>1, <2>2 DEF Holders
<1>2. AnswersInv /\ [Next]_vars
        => [\A k \in Keys :
               key[k].state = "revoked" /\ Holders(k) = {}
                  => key'[k].state = "revoked" /\ Holders(k)' = {}]_vars
  BY <1>1
<1> QED
  BY <1>2, AnswersAlways, PTL DEF Spec, RevokedIsDead

PastPcs == {"create", "store", "answer"}

\* While an answer is stored, no request comes past its lookup.
LEMMA NobodyPasses ==
    ASSUME AnswersInv, NEW r \in Slots, Step(r), NEW i \in IdemKeys,
           store[i].state = "fresh",
           req'[r].ikey = i, req'[r].pc \in PastPcs
    PROVE  req[r].ikey = i /\ req[r].pc \in PastPcs
<1> USE DEF AnswersInv, PastPcs
<1>0. /\ PipelineTypeOK /\ req \in [Slots -> Handler] /\ req[r] \in Handler
      /\ Idle.pc = "idle" /\ Idle \in Handler /\ NoIdem \notin IdemKeys
  BY PipelineAssumption, TypeParts, ConstantRows DEF Idle
<1>1. CASE KeyStep(r) \/ Abort(r)
  BY <1>1, KeyStepAside DEF KeyPcs
<1>2. CASE CreateStart(r)
  <2>1. PICK n \in IdemKeys \cup {NoIdem}, p \in Payloads :
            Start(r, "create",
                  [Idle EXCEPT !.pc = IF n = NoIdem THEN "create" ELSE "lookup",
                               !.ikey = n, !.print = p])
    BY <1>2 DEF CreateStart
  <2> DEFINE local == [Idle EXCEPT
                          !.pc = IF n = NoIdem THEN "create" ELSE "lookup",
                          !.ikey = n, !.print = p]
  <2>2. local \in Handler
    BY ClientLocal
  <2>3. PICK k \in Keys : /\ req' = [req EXCEPT ![r] = [local EXCEPT !.actor = k]]
                          /\ [local EXCEPT !.actor = k] \in Handler
    BY <2>1, <2>2, Started
  <2>4. /\ req'[r].ikey = n
        /\ req'[r].pc = IF n = NoIdem THEN "create" ELSE "lookup"
    BY <1>0, <2>2, <2>3 DEF Handler
  <2> QED
    BY <1>0, <2>4
<1>3. CASE Replay(r) \/ Conflict(r) \/ StoreRefused(r) \/ Answer(r)
  BY <1>0, <1>3, OwnRecord DEF Replay, Conflict, StoreRefused, Answer
<1>4. CASE LookupMiss(r)
  <2>1. req'[r] = [req[r] EXCEPT !.pc = "create"]
    BY <1>0, <1>4, OwnRecord DEF LookupMiss, Pcs
  <2>2. req'[r].ikey = req[r].ikey
    BY <1>0, <2>1 DEF Handler
  <2> QED
    BY <1>4, <2>2 DEF LookupMiss, Fresh
<1>5. CASE Store(r)
  <2>1. req'[r] = [req[r] EXCEPT !.pc = "answer"]
    BY <1>0, <1>5, OwnRecord DEF Store, Pcs
  <2> QED
    BY <1>0, <1>5, <2>1 DEF Store, At, Handler
<1>6. CASE Create(r)
  BY <1>0, <1>6 DEF Create, At, Handler
<1> QED
  BY <1>1, <1>2, <1>3, <1>4, <1>5, <1>6 DEF Step, CreateStep

\* Resources are made by Create alone.
LEMMA MadeByCreate ==
    ASSUME AnswersInv, [Next]_vars
    PROVE  made' = made \/ \E r \in Slots : Create(r)
<1>1. ASSUME NEW r \in Slots, Step(r) PROVE made' = made \/ Create(r)
  <2>1. CASE KeyStep(r) \/ Abort(r)
    BY <2>1, KeyStepAside DEF AnswersInv
  <2>2. CASE CreateStep(r)
    BY <2>2 DEF CreateStep, CreateStart, Start, Replay, Conflict, LookupMiss,
                Store, StoreRefused, Answer
  <2> QED
    BY <1>1, <2>1, <2>2 DEF Step
<1> QED
  BY <1>1, NextCases DEF KeyExpires, StoredExpires, MintRoot, vars

\* Once an answer is stored and the requests that looked before are over,
\* retries make nothing until it expires.
THEOREM StoredDone == Spec => StoredMeansDone
<1>1. ASSUME AnswersInv, [Next]_vars, NEW i \in IdemKeys,
             store[i].state = "fresh", PastLookup(i) = {}
      PROVE  MadeFor(i)' = MadeFor(i) /\ PastLookup(i)' = {}
  <2>1. ASSUME NEW s \in Slots, req'[s].ikey = i, req'[s].pc \in PastPcs
        PROVE  FALSE
    <3>1. ~(req[s].ikey = i /\ req[s].pc \in PastPcs)
      BY <1>1 DEF PastLookup, PastPcs
    <3>2. CASE Step(s)
      BY <1>1, <2>1, <3>1, <3>2, NobodyPasses
    <3> QED
      BY <1>1, <2>1, <3>1, <3>2, OneMoves
  <2>2. PastLookup(i)' = {}
    BY <2>1 DEF PastLookup, PastPcs
  <2>3. CASE \E r \in Slots : Create(r)
    <3>1. PICK r \in Slots : Create(r)
      BY <2>3
    <3>2. req[r].ikey # i
      BY <1>1, <3>1 DEF Create, At, PastLookup
    <3>3. PICK n \in Resources :
              /\ made[n] = NotMade
              /\ made' = [made EXCEPT ![n] = [ikey |-> req[r].ikey,
                                              print |-> req[r].print]]
      BY <3>1 DEF Create
    <3>4. /\ made'[n].ikey # i
          /\ \A m \in Resources \ {n} : made'[m] = made[m]
      BY <1>1, <3>2, <3>3, TypeParts DEF AnswersInv
    <3>5. NotMade' = NotMade
      BY DEF NotMade
    <3> QED
      BY <2>2, <3>3, <3>4, <3>5 DEF MadeFor
  <2>4. CASE made' = made
    BY <2>2, <2>4 DEF MadeFor
  <2> QED
    BY <1>1, <2>3, <2>4, MadeByCreate
<1>2. AnswersInv /\ [Next]_vars
        => [\A i \in IdemKeys :
               store[i].state = "fresh" /\ PastLookup(i) = {}
                  => MadeFor(i)' = MadeFor(i) /\ PastLookup(i)' = {}]_vars
  BY <1>1
<1> QED
  BY <1>2, AnswersAlways, PTL DEF Spec, StoredMeansDone
=============================================================================

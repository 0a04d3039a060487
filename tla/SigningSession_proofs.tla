----------------------- MODULE SigningSession_proofs -----------------------
(***************************************************************************)
(* Proofs about SigningSession, for every number of sessions, handlers,    *)
(* sweepers and fields, and about SigningSerial, its schedule without      *)
(* overlaps, which implements SigningLifecycle.                            *)
(***************************************************************************)
EXTENDS SigningSerial, FiniteSetTheorems, TLAPS

-----------------------------------------------------------------------------
(* Type correctness: first the handlers' locals, then the tables.          *)

\* What a slot holds.
Request == [pc : Pcs, sess : Sessions \cup {NoSession}, seen : Status,
            todo : SUBSET (Fields \cup Roles), event : Events]

\* The four ways a handler changes its own record keep it a request.
LEMMA TakeType ==
    ASSUME TypeOK, NEW r \in Slots, NEW s \in Sessions, status[s] # "none",
           NEW l \in Pcs, NEW todo \in SUBSET (Fields \cup Roles),
           NEW event \in Events, Take(r, s, l, todo, event)
    PROVE  req' \in [Slots -> Request]
<1>1. status[s] \in Status
  BY DEF TypeOK
<1>2. [pc |-> l, sess |-> s, seen |-> status[s], todo |-> todo,
       event |-> event] \in Request
  BY <1>1 DEF Request
<1>3. req \in [Slots -> Request]
  BY DEF TypeOK, Request
<1> QED
  BY <1>2, <1>3 DEF Take

LEMMA GotoType ==
    ASSUME TypeOK, NEW r \in Slots, NEW l \in Pcs, Goto(r, l)
    PROVE  req' \in [Slots -> Request]
<1>1. req \in [Slots -> Request]
  BY DEF TypeOK, Request
<1>2. [req[r] EXCEPT !.pc = l] \in Request
  BY <1>1 DEF Request
<1> QED
  BY <1>1, <1>2 DEF Goto

LEMMA ReturnType ==
    ASSUME TypeOK, NEW r \in Slots, Return(r)
    PROVE  req' \in [Slots -> Request]
<1>1. Idle \in Request
  BY DEF Idle, Request, Pcs, Status, Events
<1> QED
  BY <1>1 DEF TypeOK, Request, Return

LEMMA TodoType ==
    ASSUME TypeOK, NEW r \in Slots, NEW rest \in SUBSET (Fields \cup Roles),
           req' = [req EXCEPT ![r].todo = rest]
    PROVE  req' \in [Slots -> Request]
<1>1. req \in [Slots -> Request]
  BY DEF TypeOK, Request
<1>2. [req[r] EXCEPT !.todo = rest] \in Request
  BY <1>1 DEF Request
<1> QED
  BY <1>1, <1>2

LEMMA RequestStep ==
    ASSUME TypeOK, [Next]_vars PROVE req' \in [Slots -> Request]
<1>p. /\ {"create_signer", "create_guardian", "resend", "cancel"} \subseteq Pcs
      /\ {"expire", "open", "save", "save_fields", "sign"} \subseteq Pcs
      /\ {"mark", "commit", "decline", "decline_people"} \subseteq Pcs
      /\ {"finalize", "audit", "invite", "announce"} \subseteq Pcs
  BY DEF Pcs
<1>e. {"created", "sent", "cancelled", "viewed", "completed", "declined",
       "finalized"} \subseteq Events
  BY DEF Events
<1>o. \A st \in Open \cup {"processing", "completed"} : st # "none"
  BY DEF Open
<1>1. ASSUME NEW r \in Slots, CreateSession(r)
      PROVE  req' \in [Slots -> Request]
  <2>1. \A s \in Sessions :
           [pc |-> "create_signer", sess |-> s, seen |-> "created",
            todo |-> {}, event |-> "created"] \in Request
    BY <1>p, <1>e DEF Request, Status
  <2> QED
    BY <1>1, <2>1 DEF CreateSession, TypeOK, Request
<1>2. ASSUME NEW r \in Slots, CreateSigner(r) \/ CreateGuardian(r)
      PROVE  req' \in [Slots -> Request]
  BY <1>2, <1>p, GotoType DEF CreateSigner, CreateGuardian
<1>3. ASSUME NEW r \in Slots, Audit(r) \/ Invite(r) \/ Announce(r)
      PROVE  req' \in [Slots -> Request]
  BY <1>3, <1>p, GotoType, ReturnType DEF Audit, Invite, Announce
<1>4. ASSUME NEW r \in Slots, ResendRead(r) \/ CancelRead(r)
      PROVE  req' \in [Slots -> Request]
  BY <1>4, <1>p, <1>e, TakeType DEF ResendRead, CancelRead, StaffTarget
<1>5. ASSUME NEW r \in Slots, ExpireRead(r) \/ OpenRead(r)
      PROVE  req' \in [Slots -> Request]
  BY <1>5, <1>p, <1>e, <1>o, TakeType DEF ExpireRead, OpenRead, Lapsed
<1>6. ASSUME NEW r \in Slots, SaveRead(r)
      PROVE  req' \in [Slots -> Request]
  BY <1>6, <1>p, <1>e, TakeType DEF SaveRead
<1>7. ASSUME NEW r \in Slots, SaveField(r)
      PROVE  req' \in [Slots -> Request]
  <2>1. PICK f \in req[r].todo : \/ Return(r)
                                \/ req' = [req EXCEPT ![r].todo = @ \ {f}]
    BY <1>7 DEF SaveField
  <2>2. req[r].todo \ {f} \in SUBSET (Fields \cup Roles)
    BY DEF TypeOK
  <2>3. CASE req' = [req EXCEPT ![r].todo = @ \ {f}]
    BY <2>2, <2>3, TodoType
  <2> QED
    BY <2>1, <2>3, ReturnType
<1>8. ASSUME NEW r \in Slots, CompleteRead(r)
      PROVE  req' \in [Slots -> Request]
  <2>1. \A s \in Sessions : Present(s) \in SUBSET (Fields \cup Roles)
    BY DEF Present
  <2> QED
    BY <1>8, <2>1, <1>p, <1>e, TakeType DEF CompleteRead
<1>9. ASSUME NEW r \in Slots, CompleteAgain(r) \/ DeclineRead(r) \/ FinalizeRead(r)
      PROVE  req' \in [Slots -> Request]
  BY <1>9, <1>p, <1>e, TakeType DEF CompleteAgain, DeclineRead, FinalizeRead
<1>10. ASSUME NEW r \in Slots, MarkSigned(r)
       PROVE  req' \in [Slots -> Request]
  <2> DEFINE rest == req[r].todo \ {NextToSign(r)}
  <2>1. /\ req[r] \in Request
        /\ rest \in SUBSET (Fields \cup Roles)
    BY DEF TypeOK, Request
  <2>2. \A l \in Pcs : [req[r] EXCEPT !.todo = rest, !.pc = l] \in Request
    BY <2>1 DEF Request
  <2>3. req' = [req EXCEPT ![r] = [req[r] EXCEPT
                  !.todo = rest, !.pc = IF rest = {} THEN "commit" ELSE "sign"]]
    BY <1>10 DEF MarkSigned, TypeOK
  <2> QED
    BY <2>2, <2>3, <1>p DEF TypeOK, Request
<1>11. ASSUME NEW r \in Slots,
              \/ ResendWrite(r) \/ CancelWrite(r) \/ OpenWrite(r)
              \/ CompleteWrite(r) \/ DeclineWrite(r) \/ DeclinePeople(r)
              \/ FinalizeWrite(r) \/ InsertSignature(r)
       PROVE  req' \in [Slots -> Request]
  BY <1>11, <1>p, GotoType
     DEF ResendWrite, CancelWrite, OpenWrite, CompleteWrite, DeclineWrite,
         DeclinePeople, FinalizeWrite, InsertSignature
<1>12. ASSUME NEW r \in Slots, ExpireWrite(r) \/ SaveWrite(r) \/ Abort(r)
       PROVE  req' \in [Slots -> Request]
  BY <1>12, <1>p, GotoType, ReturnType DEF ExpireWrite, SaveWrite, Abort
<1>13. ASSUME UNCHANGED req
       PROVE  req' \in [Slots -> Request]
  BY <1>13 DEF TypeOK, Request
<1>14. ASSUME NEW w \in Sweepers, SweepStep(w) \/ SweepAbort(w)
       PROVE  UNCHANGED req
  BY <1>14 DEF SweepStep, SweepRead, SweepWrite, SweepThrow, SweepAbort
<1>15. ASSUME NEW s \in Sessions, Elapse(s)
       PROVE  UNCHANGED req
  BY <1>15 DEF Elapse
<1>16. CASE UNCHANGED vars
  BY <1>13, <1>16 DEF vars
<1> QED
  BY <1>1, <1>2, <1>3, <1>4, <1>5, <1>6, <1>7, <1>8, <1>9, <1>10, <1>11,
     <1>12, <1>13, <1>14, <1>15, <1>16
     DEF Next, StaffStep, SignerStep, FinalizeStep

\* The tables: what TypeOK says of everything but req.
TablesOK ==
    /\ status \in [Sessions -> Status \cup {"none"}]
    /\ revoked \in [Sessions -> BOOLEAN]
    /\ overdue \in [Sessions -> BOOLEAN]
    /\ minor \in [Sessions -> BOOLEAN]
    /\ issued \in [Sessions -> BOOLEAN]
    /\ person \in [Sessions ->
                     [Roles -> {"absent", "pending", "signed", "declined"}]]
    /\ sigs \in [Sessions -> [Roles -> 0 .. MaxSignatures]]
    /\ responses \in [Sessions -> SUBSET (Fields \cup Roles)]
    /\ audited \in [Sessions -> SUBSET Logged]
    /\ announced \in [Sessions -> SUBSET Events]
    /\ batch \in [Sweepers -> [Sessions -> Status \cup {"none"}]]

LEMMA TypeSplit ==
    /\ TypeOK <=> TablesOK /\ req \in [Slots -> Request]
    /\ TypeOK' <=> TablesOK' /\ req' \in [Slots -> Request]
  BY DEF TypeOK, TablesOK, Request

\* UPDATE signing_sessions writes a status and touches nothing else.
LEMMA SetStatusType ==
    ASSUME TablesOK, NEW s, NEW st \in Status, SetStatus(s, st)
    PROVE  status' \in [Sessions -> Status \cup {"none"}]
  BY DEF TablesOK, SetStatus

LEMMA RevokeType ==
    ASSUME TablesOK, NEW s, Revoke(s)
    PROVE  revoked' \in [Sessions -> BOOLEAN]
  BY DEF TablesOK, Revoke

LEMMA TablesStep == ASSUME TypeOK, [Next]_vars PROVE TablesOK'
<1>t. TablesOK
  BY TypeSplit
<1>s. {"created", "sent", "viewed", "in_progress", "processing", "completed",
       "declined", "cancelled", "expired"} \subseteq Status
  BY DEF Status
<1> USE DEF rowVars, peopleVars, logVars
<1>1. ASSUME NEW r \in Slots,
             \/ ResendRead(r) \/ CancelRead(r) \/ ExpireRead(r)
             \/ OpenRead(r) \/ SaveRead(r) \/ CompleteRead(r)
             \/ CompleteAgain(r) \/ DeclineRead(r) \/ FinalizeRead(r)
             \/ Abort(r)
      PROVE  TablesOK'
  BY <1>1, <1>t
     DEF TablesOK, ResendRead, CancelRead, ExpireRead, OpenRead, SaveRead,
         CompleteRead, CompleteAgain, DeclineRead, FinalizeRead, Abort
<1>2. ASSUME NEW r \in Slots,
             CreateSession(r) \/ ResendWrite(r) \/ OpenWrite(r)
             \/ SaveWrite(r) \/ CompleteWrite(r) \/ FinalizeWrite(r)
      PROVE  TablesOK'
  <2>1. status' \in [Sessions -> Status \cup {"none"}]
    BY <1>2, <1>t, <1>s, SetStatusType
       DEF CreateSession, ResendWrite, OpenWrite, SaveWrite, CompleteWrite,
           FinalizeWrite
  <2> QED
    BY <1>2, <1>t, <2>1
       DEF TablesOK, CreateSession, ResendWrite, OpenWrite, SaveWrite,
           CompleteWrite, FinalizeWrite
<1>3. ASSUME NEW r \in Slots, CancelWrite(r) \/ ExpireWrite(r) \/ DeclineWrite(r)
      PROVE  TablesOK'
  <2>1. /\ status' \in [Sessions -> Status \cup {"none"}]
        /\ revoked' \in [Sessions -> BOOLEAN]
    BY <1>3, <1>t, <1>s, SetStatusType, RevokeType
       DEF CancelWrite, ExpireWrite, DeclineWrite
  <2> QED
    BY <1>3, <1>t, <2>1 DEF TablesOK, CancelWrite, ExpireWrite, DeclineWrite
<1>4. ASSUME NEW r \in Slots, NEW p \in Roles, InsertParticipant(r, p)
      PROVE  person' \in [Sessions ->
                [Roles -> {"absent", "pending", "signed", "declined"}]]
  BY <1>4, <1>t DEF TablesOK, InsertParticipant
<1>5. ASSUME NEW r \in Slots, CreateSigner(r) \/ CreateGuardian(r)
      PROVE  TablesOK'
  <2>1. {"signer", "guardian"} \subseteq Roles
    BY DEF Roles
  <2> QED
    BY <1>4, <1>5, <2>1, <1>t DEF TablesOK, CreateSigner, CreateGuardian
<1>6. ASSUME NEW r \in Slots, Audit(r)
      PROVE  TablesOK'
  BY <1>6, <1>t DEF TablesOK, Audit
<1>7. ASSUME NEW r \in Slots, Invite(r)
      PROVE  TablesOK'
  BY <1>7, <1>t DEF TablesOK, Invite
<1>8. ASSUME NEW r \in Slots, Announce(r)
      PROVE  TablesOK'
  <2>1. req[r].event \in Events
    BY DEF TypeOK
  <2> QED
    BY <1>8, <2>1, <1>t DEF TablesOK, Announce
<1>9. ASSUME NEW r \in Slots, SaveField(r)
      PROVE  TablesOK'
  <2>1. PICK f \in req[r].todo :
           responses' = [responses EXCEPT ![req[r].sess] = @ \cup {f}]
    BY <1>9 DEF SaveField
  <2>2. f \in Fields \cup Roles
    BY DEF TypeOK
  <2>3. responses' \in [Sessions -> SUBSET (Fields \cup Roles)]
    BY <2>1, <2>2, <1>t DEF TablesOK
  <2> QED
    BY <1>9, <2>3, <1>t DEF TablesOK, SaveField
<1>10. ASSUME NEW r \in Slots, InsertSignature(r)
       PROVE  TablesOK'
  <2> DEFINE s == req[r].sess
             p == NextToSign(r)
  <2>1. /\ sigs[s][p] < MaxSignatures
        /\ sigs' = [sigs EXCEPT ![s][p] = @ + 1]
        /\ UNCHANGED <<rowVars, overdue, minor, issued, person, responses,
                       logVars, batch>>
    BY <1>10 DEF InsertSignature
  <2>2. ASSUME NEW t \in Sessions
        PROVE  sigs'[t] \in [Roles -> 0 .. MaxSignatures]
    <3>1. sigs[t] \in [Roles -> 0 .. MaxSignatures]
      BY <1>t DEF TablesOK
    <3>2. CASE s # t
      BY <2>1, <3>1, <3>2, <1>t DEF TablesOK
    <3>3. CASE s = t /\ p \in Roles
      <4>1. sigs[t][p] + 1 \in 0 .. MaxSignatures
        BY <2>1, <3>1, <3>3, SigningAssumption
      <4>2. sigs'[t] = [sigs[t] EXCEPT ![p] = sigs[t][p] + 1]
        BY <2>1, <3>3, <1>t DEF TablesOK
      <4> QED
        BY <3>1, <4>1, <4>2
    <3>4. p \in Roles
      BY DEF NextToSign, Roles
    <3> QED
      BY <3>2, <3>3, <3>4
  <2>3. sigs' \in [Sessions -> [Roles -> 0 .. MaxSignatures]]
    <3>1. sigs' = [t \in Sessions |-> sigs'[t]]
      BY <2>1, <1>t DEF TablesOK
    <3> QED
      BY <2>2, <3>1
  <2> QED
    BY <2>1, <2>3, <1>t DEF TablesOK
<1>11. ASSUME NEW r \in Slots, MarkSigned(r)
       PROVE  TablesOK'
  <2>1. /\ person' = [person EXCEPT ![req[r].sess][NextToSign(r)] = "signed"]
        /\ UNCHANGED <<rowVars, overdue, minor, issued, sigs, responses,
                       logVars, batch>>
    BY <1>11 DEF MarkSigned
  <2>2. person' \in [Sessions ->
           [Roles -> {"absent", "pending", "signed", "declined"}]]
    BY <2>1, <1>t DEF TablesOK
  <2> QED
    BY <2>1, <2>2, <1>t DEF TablesOK
<1>17. ASSUME NEW r \in Slots, DeclinePeople(r)
       PROVE  TablesOK'
  <2> DEFINE declined == [p \in Roles |-> IF p \in Present(req[r].sess)
                                          THEN "declined" ELSE "absent"]
  <2>1. /\ person' = [person EXCEPT ![req[r].sess] = declined]
        /\ UNCHANGED <<rowVars, overdue, minor, issued, sigs, responses,
                       logVars, batch>>
    BY <1>17 DEF DeclinePeople
  <2>2. declined \in [Roles -> {"absent", "pending", "signed", "declined"}]
    OBVIOUS
  <2> HIDE DEF declined
  <2>3. person' \in [Sessions ->
           [Roles -> {"absent", "pending", "signed", "declined"}]]
    BY <2>1, <2>2, <1>t DEF TablesOK
  <2> QED
    BY <2>1, <2>3, <1>t DEF TablesOK
<1>12. ASSUME NEW w \in Sweepers, SweepRead(w)
       PROVE  TablesOK'
  BY <1>12, <1>t DEF TablesOK, SweepRead
<1>13. ASSUME NEW w \in Sweepers, SweepWrite(w)
       PROVE  TablesOK'
  <2>1. /\ status' \in [Sessions -> Status \cup {"none"}]
        /\ revoked' \in [Sessions -> BOOLEAN]
    BY <1>13, <1>t, <1>s, SetStatusType, RevokeType DEF SweepWrite
  <2> QED
    BY <1>13, <1>t, <2>1 DEF TablesOK, SweepWrite
<1>14. ASSUME NEW w \in Sweepers, SweepThrow(w) \/ SweepAbort(w)
       PROVE  TablesOK'
  BY <1>14, <1>t DEF TablesOK, SweepThrow, SweepAbort, NoBatch
<1>15. ASSUME NEW s \in Sessions, Elapse(s)
       PROVE  TablesOK'
  BY <1>15, <1>t DEF TablesOK, Elapse
<1>16. CASE UNCHANGED vars
  BY <1>16, <1>t DEF TablesOK, vars
<1> QED
  BY <1>1, <1>2, <1>3, <1>5, <1>6, <1>7, <1>8, <1>9, <1>10, <1>11, <1>12,
     <1>13, <1>14, <1>15, <1>16, <1>17
     DEF Next, StaffStep, SignerStep, FinalizeStep, SweepStep

\* TypeOK holds in every reachable state: whatever handlers do to each other,
\* the tables only ever hold what their columns are meant to hold, and a
\* handler only remembers a status the row really had.
THEOREM TypeCorrect == Spec => []TypeOK
<1>1. Init => TypeOK
  <2>1. Idle \in Request
    BY DEF Idle, Request, Pcs, Status, Events
  <2>2. Init => TablesOK
    BY SigningAssumption DEF Init, TablesOK, NoBatch
  <2> QED
    BY <2>1, <2>2, TypeSplit DEF Init
<1>2. TypeOK /\ [Next]_vars => TypeOK'
  BY RequestStep, TablesStep, TypeSplit
<1> QED
  BY <1>1, <1>2, PTL DEF Spec

-----------------------------------------------------------------------------
(* What steps may do to the rows.                                          *)

\* Rows of participants and of signatures are never deleted, and the policy
\* does not change, so what was complete stays complete.
LEMMA Monotone ==
    ASSUME TypeOK, [Next]_vars, NEW s \in Sessions
    PROVE  /\ Required(s)' = Required(s)
           /\ Signed(s) \subseteq Signed(s)'
           /\ Present(s) \subseteq Present(s)'
<1> USE DEF rowVars, peopleVars, logVars
<1>1. UNCHANGED minor
  BY DEF Next, vars, StaffStep, SignerStep, FinalizeStep, SweepStep,
         CreateSession, CreateSigner, CreateGuardian, Audit, Invite, Announce,
         ResendRead, ResendWrite, CancelRead, CancelWrite, ExpireRead,
         ExpireWrite, OpenRead, OpenWrite, SaveRead, SaveWrite, SaveField,
         CompleteRead, CompleteAgain, InsertSignature, MarkSigned,
         CompleteWrite, DeclineRead, DeclineWrite, DeclinePeople,
         FinalizeRead, FinalizeWrite, Abort, SweepRead, SweepWrite,
         SweepThrow, SweepAbort, Elapse
<1>2. Required(s)' = Required(s)
  BY <1>1 DEF Required
<1>3. Signed(s) \subseteq Signed(s)'
  <2>1. ASSUME NEW r \in Slots, InsertSignature(r), NEW p \in Roles,
               sigs[s][p] > 0
        PROVE  sigs'[s][p] > 0
    <3> DEFINE t == req[r].sess
               q == NextToSign(r)
    <3>1. sigs' = [sigs EXCEPT ![t][q] = @ + 1]
      BY <2>1 DEF InsertSignature
    <3>2. sigs[s] \in [Roles -> 0 .. MaxSignatures]
      BY DEF TypeOK
    <3>3. sigs[s][p] \in Nat
      BY <3>2, SigningAssumption
    <3>4. CASE t = s /\ q = p
      <4>1. sigs'[s][p] = sigs[s][p] + 1
        BY <3>1, <3>2, <3>4 DEF TypeOK
      <4> QED
        BY <4>1, <3>3
    <3>5. CASE ~(t = s /\ q = p)
      <4>1. sigs'[s][p] = sigs[s][p]
        BY <3>1, <3>2, <3>5 DEF TypeOK
      <4> QED
        BY <4>1, <2>1
    <3> QED
      BY <3>4, <3>5
  <2>2. (\E r \in Slots : InsertSignature(r)) \/ UNCHANGED sigs
    BY DEF Next, vars, StaffStep, SignerStep, FinalizeStep, SweepStep,
         CreateSession, CreateSigner, CreateGuardian, Audit, Invite, Announce,
         ResendRead, ResendWrite, CancelRead, CancelWrite, ExpireRead,
         ExpireWrite, OpenRead, OpenWrite, SaveRead, SaveWrite, SaveField,
         CompleteRead, CompleteAgain, MarkSigned,
         CompleteWrite, DeclineRead, DeclineWrite, DeclinePeople,
         FinalizeRead, FinalizeWrite, Abort, SweepRead, SweepWrite,
         SweepThrow, SweepAbort, Elapse
  <2> QED
    BY <2>1, <2>2 DEF Signed
<1>4. Present(s) \subseteq Present(s)'
  <2>1. ASSUME NEW r \in Slots, NEW p \in Roles, person[s][p] # "absent",
               \/ CreateSigner(r) \/ CreateGuardian(r) \/ MarkSigned(r)
               \/ DeclinePeople(r)
        PROVE  person'[s][p] # "absent"
    <3>1. person[s] \in
             [Roles -> {"absent", "pending", "signed", "declined"}]
      BY DEF TypeOK
    <3>2. ASSUME NEW q, NEW v, v # "absent",
                 person' = [person EXCEPT ![req[r].sess][q] = v]
          PROVE  person'[s][p] # "absent"
      BY <2>1, <3>1, <3>2 DEF TypeOK
    <3>3. CASE CreateSigner(r) \/ CreateGuardian(r)
      BY <3>2, <3>3 DEF CreateSigner, CreateGuardian, InsertParticipant
    <3>4. CASE MarkSigned(r)
      BY <3>2, <3>4 DEF MarkSigned
    <3>5. CASE DeclinePeople(r)
      <4>1. person' = [person EXCEPT ![req[r].sess] =
                         [q \in Roles |-> IF q \in Present(req[r].sess)
                                          THEN "declined" ELSE "absent"]]
        BY <3>5 DEF DeclinePeople
      <4>2. p \in Present(s)
        BY <2>1 DEF Present
      <4> QED
        BY <2>1, <4>1, <4>2 DEF TypeOK
    <3> QED
      BY <2>1, <3>3, <3>4, <3>5
  <2>2. \/ \E r \in Slots : \/ CreateSigner(r) \/ CreateGuardian(r)
                            \/ MarkSigned(r) \/ DeclinePeople(r)
        \/ UNCHANGED person
    BY DEF Next, vars, StaffStep, SignerStep, FinalizeStep, SweepStep,
         CreateSession, Audit, Invite, Announce,
         ResendRead, ResendWrite, CancelRead, CancelWrite, ExpireRead,
         ExpireWrite, OpenRead, OpenWrite, SaveRead, SaveWrite, SaveField,
         CompleteRead, CompleteAgain, InsertSignature,
         CompleteWrite, DeclineRead, DeclineWrite,
         FinalizeRead, FinalizeWrite, Abort, SweepRead, SweepWrite,
         SweepThrow, SweepAbort, Elapse
  <2> QED
    BY <2>1, <2>2 DEF Present
<1> QED
  BY <1>2, <1>3, <1>4

\* A handler's locals are its own.
LEMMA RequestOwner ==
    ASSUME TypeOK, [Next]_vars, NEW r \in Slots, req'[r] # req[r]
    PROVE  StaffStep(r) \/ SignerStep(r) \/ FinalizeStep(r) \/ Abort(r)
<1>1. ASSUME NEW q \in Slots, q # r,
             StaffStep(q) \/ SignerStep(q) \/ FinalizeStep(q) \/ Abort(q)
      PROVE  FALSE
  BY <1>1
     DEF TypeOK, StaffStep, SignerStep, FinalizeStep,
         CreateSession, CreateSigner, CreateGuardian, Audit, Invite, Announce,
         ResendRead, ResendWrite, CancelRead, CancelWrite, ExpireRead,
         ExpireWrite, OpenRead, OpenWrite, SaveRead, SaveWrite, SaveField,
         CompleteRead, CompleteAgain, InsertSignature, MarkSigned,
         CompleteWrite, DeclineRead, DeclineWrite, DeclinePeople,
         FinalizeRead, FinalizeWrite, Abort, Take, Goto, Return
<1>2. ASSUME \/ \E w \in Sweepers : SweepStep(w) \/ SweepAbort(w)
             \/ \E s \in Sessions : Elapse(s)
             \/ UNCHANGED vars
      PROVE  FALSE
  BY <1>2 DEF SweepStep, SweepRead, SweepWrite, SweepThrow, SweepAbort,
              Elapse, vars
<1> QED
  BY <1>1, <1>2 DEF Next

\* The only places that write signing_sessions.status, with what they write.
LEMMA StatusWrites ==
    ASSUME TypeOK, [Next]_vars, NEW s \in Sessions, status'[s] # status[s]
    PROVE  \/ status'[s] = "created" /\ status[s] = "none"
           \/ \E r \in Slots :
                 /\ req[r].sess = s
                 /\ \/ At(r, "resend") /\ status'[s] = "sent"
                    \/ At(r, "cancel") /\ status'[s] = "cancelled" /\ revoked'[s]
                    \/ At(r, "expire") /\ status'[s] = "expired" /\ revoked'[s]
                    \/ At(r, "open") /\ status'[s] = "viewed"
                    \/ At(r, "save") /\ status'[s] = "in_progress"
                    \/ At(r, "commit") /\ status'[s] = "processing"
                    \/ At(r, "decline") /\ status'[s] = "declined" /\ revoked'[s]
                    \/ At(r, "finalize") /\ status'[s] = "completed"
           \/ \E w \in Sweepers :
                 batch[w][s] # "none" /\ status'[s] = "expired" /\ revoked'[s]
<1> USE DEF rowVars
<1>1. ASSUME NEW t, NEW st, SetStatus(t, st)
      PROVE  t = s /\ status'[s] = st
  BY <1>1 DEF SetStatus, TypeOK
<1>2. ASSUME Revoke(s)
      PROVE  revoked'[s]
  BY <1>2 DEF Revoke, TypeOK
<1>3. ASSUME UNCHANGED status
      PROVE  FALSE
  BY <1>3
<1>4. ASSUME NEW r \in Slots, StaffStep(r)
      PROVE  \/ status'[s] = "created" /\ status[s] = "none"
             \/ /\ req[r].sess = s
                /\ \/ At(r, "resend") /\ status'[s] = "sent"
                   \/ At(r, "cancel") /\ status'[s] = "cancelled" /\ revoked'[s]
  BY <1>1, <1>2, <1>3, <1>4
     DEF StaffStep, CreateSession, CreateSigner, CreateGuardian, Audit,
         Invite, Announce, ResendRead, ResendWrite, CancelRead, CancelWrite
<1>5. ASSUME NEW r \in Slots, SignerStep(r)
      PROVE  /\ req[r].sess = s
             /\ \/ At(r, "expire") /\ status'[s] = "expired" /\ revoked'[s]
                \/ At(r, "open") /\ status'[s] = "viewed"
                \/ At(r, "save") /\ status'[s] = "in_progress"
                \/ At(r, "commit") /\ status'[s] = "processing"
                \/ At(r, "decline") /\ status'[s] = "declined" /\ revoked'[s]
  BY <1>1, <1>2, <1>3, <1>5
     DEF SignerStep, ExpireRead, ExpireWrite, OpenRead, OpenWrite, SaveRead,
         SaveWrite, SaveField, CompleteRead, CompleteAgain, InsertSignature,
         MarkSigned, CompleteWrite, DeclineRead, DeclineWrite, DeclinePeople
<1>6. ASSUME NEW r \in Slots, FinalizeStep(r)
      PROVE  req[r].sess = s /\ At(r, "finalize") /\ status'[s] = "completed"
  BY <1>1, <1>3, <1>6 DEF FinalizeStep, FinalizeRead, FinalizeWrite
<1>7. ASSUME NEW w \in Sweepers, SweepStep(w)
      PROVE  batch[w][s] # "none" /\ status'[s] = "expired" /\ revoked'[s]
  BY <1>1, <1>2, <1>3, <1>7 DEF SweepStep, SweepRead, SweepWrite, SweepThrow
<1>8. ASSUME \/ \E r \in Slots : Abort(r)
             \/ \E w \in Sweepers : SweepAbort(w)
             \/ \E t \in Sessions : Elapse(t)
             \/ UNCHANGED vars
      PROVE  FALSE
  BY <1>3, <1>8 DEF Abort, SweepAbort, Elapse, vars
<1> QED
  BY <1>4, <1>5, <1>6, <1>7, <1>8 DEF Next

-----------------------------------------------------------------------------
(* A withdrawn session's link is dead.                                     *)

\* token_revoked_at is never cleared.
LEMMA RevokedForGood ==
    ASSUME TypeOK, [Next]_vars, NEW s \in Sessions, revoked[s]
    PROVE  revoked'[s]
<1>1. \/ UNCHANGED revoked
      \/ \E t \in Sessions \cup {NoSession} : Revoke(t)
  BY DEF TypeOK, Next, vars, rowVars, StaffStep, SignerStep, FinalizeStep,
         SweepStep, CreateSession, CreateSigner, CreateGuardian, Audit,
         Invite, Announce, ResendRead, ResendWrite, CancelRead, CancelWrite,
         ExpireRead, ExpireWrite, OpenRead, OpenWrite, SaveRead, SaveWrite,
         SaveField, CompleteRead, CompleteAgain, InsertSignature, MarkSigned,
         CompleteWrite, DeclineRead, DeclineWrite, DeclinePeople,
         FinalizeRead, FinalizeWrite, Abort, SweepRead, SweepWrite,
         SweepThrow, SweepAbort, Elapse
<1> QED
  BY <1>1 DEF Revoke, TypeOK

\* The link of a cancelled, declined or expired session no longer works,
\* however many handlers were in flight when it was withdrawn.
THEOREM DeadLinks == Spec => []DeadLinkIsRevoked
<1>1. Init => DeadLinkIsRevoked
  BY DEF Init, DeadLinkIsRevoked
<1>2. TypeOK /\ DeadLinkIsRevoked /\ [Next]_vars => DeadLinkIsRevoked'
  <2> SUFFICES ASSUME TypeOK, DeadLinkIsRevoked, [Next]_vars,
                      NEW s \in Sessions,
                      status'[s] \in {"cancelled", "declined", "expired"}
               PROVE  revoked'[s]
    BY DEF DeadLinkIsRevoked
  <2>1. CASE status'[s] = status[s]
    BY <2>1, RevokedForGood DEF DeadLinkIsRevoked
  <2>2. CASE status'[s] # status[s]
    BY <2>2, StatusWrites
  <2> QED
    BY <2>1, <2>2
<1> QED
  BY <1>1, <1>2, TypeCorrect, PTL DEF Spec

-----------------------------------------------------------------------------
(* Nothing is submitted, recorded or announced unsigned.                   *)
(*                                                                         *)
(* SignedBeforeProcessing is not inductive: complete counts the rows of    *)
(* the participants it finds, so the proof needs that the link only leaves *)
(* the service after all of them were inserted, and that a handler that is *)
(* about to write processing or to record it has put every signature in.   *)

AllSigned(s) == Required(s) \subseteq Signed(s)
AllPresent(s) == Required(s) \subseteq Present(s)

\* The events that claim a finished signing.
Claims == {"completed", "finalized"}

\* What a handler in progress may rely on.
HandlerInv(r) ==
    LET s == req[r].sess
    IN  ~At(r, "idle") =>
          /\ s \in Sessions
          /\ At(r, "create_guardian") => "signer" \in Present(s)
          /\ req[r].pc \in {"resend", "cancel", "open", "decline",
                            "decline_people"} => req[r].event \notin Claims \cup {"created"}
          /\ req[r].pc \in {"create_signer", "create_guardian", "invite"}
                => req[r].event = "created"
          /\ req[r].pc \in {"commit", "finalize"} => req[r].event \in Claims
          /\ req[r].pc \in {"sign", "mark"} =>
                /\ req[r].event = "completed"
                /\ req[r].todo # {} /\ req[r].todo \subseteq Roles
                /\ Required(s) \ req[r].todo \subseteq Signed(s)
          /\ At(r, "mark") => NextToSign(r) \in Signed(s)
          /\ req[r].event \in Claims /\ req[r].pc \notin {"sign", "mark"}
                => AllSigned(s)
          /\ req[r].event = "created" /\ req[r].pc \in {"audit", "invite"}
                => AllPresent(s)

\* The link is out only when everybody who has to sign has a row.
InvitedMeansPresent == \A s \in Sessions : issued[s] => AllPresent(s)

SignedInv ==
    /\ SignedBeforeProcessing
    /\ AnnouncedMeansSigned
    /\ MarkedMeansSigned
    /\ InvitedMeansPresent
    /\ \A r \in Slots : HandlerInv(r)

\* What was complete stays complete.
LEMMA Stable ==
    ASSUME TypeOK, [Next]_vars, NEW s \in Sessions
    PROVE  /\ AllSigned(s) => AllSigned(s)'
           /\ AllPresent(s) => AllPresent(s)'
  BY Monotone DEF AllSigned, AllPresent

\* Other handlers cannot take away what a handler relies on.
LEMMA HandlerStable ==
    ASSUME TypeOK, [Next]_vars, NEW r \in Slots, HandlerInv(r),
           req'[r] = req[r]
    PROVE  HandlerInv(r)'
<1>1. CASE At(r, "idle")
  BY <1>1 DEF HandlerInv, At
<1>2. CASE ~At(r, "idle")
  <2>1. req[r].sess \in Sessions
    BY <1>2 DEF HandlerInv
  <2>2. NextToSign(r)' = NextToSign(r)
    BY DEF NextToSign
  <2> QED
    BY <1>2, <2>1, <2>2, Stable, Monotone DEF HandlerInv, At
<1> QED
  BY <1>1, <1>2

\* Every step of a handler leaves itself in a state it may rely on.
LEMMA HandlerStep ==
    ASSUME TypeOK, SignedInv, [Next]_vars, NEW r \in Slots
    PROVE  HandlerInv(r)'
<1>h. HandlerInv(r)
  BY DEF SignedInv
<1>r. r \in DOMAIN req
  BY DEF TypeOK
<1>i. ASSUME req'[r] = Idle
      PROVE  HandlerInv(r)'
  BY <1>i DEF HandlerInv, Idle, At
<1>g. ASSUME NEW l, req' = [req EXCEPT ![r].pc = l]
      PROVE  /\ req'[r].pc = l /\ req'[r].sess = req[r].sess
             /\ req'[r].event = req[r].event /\ req'[r].todo = req[r].todo
  BY <1>g DEF TypeOK
<1>1. ASSUME CreateSession(r)
      PROVE  HandlerInv(r)'
  BY <1>1, <1>r DEF CreateSession, HandlerInv, At, Claims
<1>2. ASSUME CreateSigner(r)
      PROVE  HandlerInv(r)'
  <2>1. PICK s \in Sessions : s = req[r].sess
    BY <1>2, <1>h DEF CreateSigner, HandlerInv, At
  <2>2. /\ person' = [person EXCEPT ![s]["signer"] = "pending"]
        /\ minor' = minor
        /\ req' = [req EXCEPT ![r].pc = IF minor[s] THEN "create_guardian"
                                        ELSE "audit"]
        /\ req[r].event = "created"
    BY <1>2, <1>h, <2>1
       DEF CreateSigner, InsertParticipant, Goto, HandlerInv, At
  <2>3. "signer" \in Present(s)'
    BY <2>2 DEF Present, Roles, TypeOK
  <2>4. CASE minor[s]
    BY <1>g, <2>1, <2>2, <2>3, <2>4 DEF HandlerInv, At, Claims
  <2>5. CASE ~minor[s]
    <3>1. AllPresent(s)'
      BY <2>2, <2>3, <2>5 DEF AllPresent, Required
    <3> QED
      BY <1>g, <2>1, <2>2, <2>5, <3>1 DEF HandlerInv, At, Claims
  <2> QED
    BY <2>4, <2>5
<1>3. ASSUME CreateGuardian(r)
      PROVE  HandlerInv(r)'
  <2>1. PICK s \in Sessions : s = req[r].sess
    BY <1>3, <1>h DEF CreateGuardian, HandlerInv, At
  <2>2. /\ person' = [person EXCEPT ![s]["guardian"] = "pending"]
        /\ req' = [req EXCEPT ![r].pc = "audit"]
        /\ req[r].event = "created"
        /\ "signer" \in Present(s)
    BY <1>3, <1>h, <2>1
       DEF CreateGuardian, InsertParticipant, Goto, HandlerInv, At
  <2>3. "signer" \in Present(s)' /\ "guardian" \in Present(s)'
    <3>1. "guardian" \in Present(s)'
      BY <2>2 DEF Present, Roles, TypeOK
    <3> QED
      BY <2>2, <3>1, Monotone
  <2>4. AllPresent(s)'
    BY <2>3 DEF AllPresent, Required, Roles
  <2> QED
    BY <1>g, <2>1, <2>2, <2>4 DEF HandlerInv, At, Claims
<1>4. ASSUME Audit(r) \/ Invite(r) \/ Announce(r)
      PROVE  HandlerInv(r)'
  <2>1. PICK s \in Sessions : s = req[r].sess
    BY <1>4, <1>h DEF Audit, Invite, Announce, HandlerInv, At
  <2>2. CASE req' = [req EXCEPT ![r] = Idle]
    BY <1>i, <1>r, <2>2
  <2>3. CASE /\ At(r, "audit") /\ req[r].event = "created"
             /\ req' = [req EXCEPT ![r].pc = "invite"]
    BY <1>h, <1>g, <2>1, <2>3, Stable DEF HandlerInv, At, Claims
  <2>4. CASE /\ At(r, "audit") /\ req[r].event = "completed"
             /\ req' = [req EXCEPT ![r].pc = "announce"]
    BY <1>h, <1>g, <2>1, <2>4, Stable DEF HandlerInv, At, Claims
  <2>5. CASE At(r, "invite") /\ req' = [req EXCEPT ![r].pc = "announce"]
    BY <1>h, <1>g, <2>1, <2>5 DEF HandlerInv, At, Claims
  <2> QED
    BY <1>4, <2>2, <2>3, <2>4, <2>5 DEF Audit, Invite, Announce, Goto, Return
<1>5. ASSUME \/ ResendRead(r) \/ CancelRead(r) \/ ExpireRead(r) \/ OpenRead(r)
             \/ SaveRead(r) \/ DeclineRead(r)
      PROVE  HandlerInv(r)'
  BY <1>5, <1>r DEF ResendRead, CancelRead, ExpireRead, OpenRead, SaveRead,
                    DeclineRead, Take, HandlerInv, At, Claims
<1>6. ASSUME CompleteRead(r)
      PROVE  HandlerInv(r)'
  <2>1. PICK s \in Sessions :
           /\ issued[s]
           /\ "signer" \in Present(s)
           /\ req' = [req EXCEPT ![r] =
                        [pc |-> "sign", sess |-> s, seen |-> status[s],
                         todo |-> Present(s), event |-> "completed"]]
    BY <1>6 DEF CompleteRead, Admits, Resolves, Acceptable, Take
  <2>2. AllPresent(s)
    BY <2>1 DEF SignedInv, InvitedMeansPresent
  <2>3. /\ Present(s) \subseteq Roles
        /\ (Required(s) \ Present(s))' \subseteq Signed(s)'
        /\ Required(s)' \ Present(s) = {}
    BY <2>2, Monotone DEF AllPresent, Present
  <2> QED
    BY <1>r, <2>1, <2>3 DEF HandlerInv, At, Claims
<1>7. ASSUME CompleteAgain(r) \/ FinalizeRead(r)
      PROVE  HandlerInv(r)'
  <2>1. PICK s \in Sessions, l \in {"announce", "finalize"}, e \in Claims :
           /\ status[s] \in {"processing", "completed"}
           /\ req' = [req EXCEPT ![r] =
                        [pc |-> l, sess |-> s, seen |-> status[s],
                         todo |-> {}, event |-> e]]
    BY <1>7 DEF CompleteAgain, FinalizeRead, Take, Claims
  <2>2. AllSigned(s)'
    BY <2>1, Stable DEF SignedInv, SignedBeforeProcessing, AllSigned
  <2> QED
    BY <1>r, <2>1, <2>2 DEF HandlerInv, At, Claims
<1>8. ASSUME InsertSignature(r)
      PROVE  HandlerInv(r)'
  <2>1. PICK s \in Sessions : s = req[r].sess
    BY <1>8, <1>h DEF InsertSignature, HandlerInv, At
  <2>2. /\ sigs' = [sigs EXCEPT ![s][NextToSign(r)] = @ + 1]
        /\ req' = [req EXCEPT ![r].pc = "mark"]
        /\ At(r, "sign")
    BY <1>8, <2>1 DEF InsertSignature, Goto
  <2>3. NextToSign(r)' = NextToSign(r) /\ NextToSign(r) \in Roles
    BY <1>g, <2>2 DEF NextToSign, Roles
  <2>4. NextToSign(r) \in Signed(s)'
    <3>1. sigs[s] \in [Roles -> 0 .. MaxSignatures]
      BY DEF TypeOK
    <3>2. sigs[s][NextToSign(r)] \in Nat
      BY <2>3, <3>1, SigningAssumption
    <3>3. sigs'[s][NextToSign(r)] = sigs[s][NextToSign(r)] + 1
      BY <2>2, <2>3, <3>1 DEF TypeOK
    <3> QED
      BY <2>3, <3>2, <3>3 DEF Signed
  <2>5. /\ req[r].event = "completed"
        /\ req[r].todo # {} /\ req[r].todo \subseteq Roles
        /\ Required(s)' \ req[r].todo \subseteq Signed(s)'
    BY <1>h, <2>1, <2>2, Monotone DEF HandlerInv, At
  <2> QED
    BY <1>g, <2>1, <2>2, <2>3, <2>4, <2>5 DEF HandlerInv, At, Claims
<1>9. ASSUME MarkSigned(r)
      PROVE  HandlerInv(r)'
  <2> DEFINE rest == req[r].todo \ {NextToSign(r)}
  <2>1. PICK s \in Sessions : s = req[r].sess
    BY <1>9, <1>h DEF MarkSigned, HandlerInv, At
  <2>2. /\ At(r, "mark")
        /\ req' = [req EXCEPT ![r].todo = rest,
                     ![r].pc = IF rest = {} THEN "commit" ELSE "sign"]
    BY <1>9 DEF MarkSigned
  <2>3. /\ req[r].event = "completed"
        /\ rest \subseteq Roles
        /\ Required(s)' \ rest \subseteq Signed(s)'
    BY <1>h, <2>1, <2>2, Monotone DEF HandlerInv, At
  <2>4. /\ req'[r].sess = s /\ req'[r].event = "completed"
        /\ req'[r].todo = rest
        /\ req'[r].pc = IF rest = {} THEN "commit" ELSE "sign"
    BY <2>1, <2>2, <2>3 DEF TypeOK
  <2> HIDE DEF rest
  <2>5. CASE rest = {}
    <3>1. AllSigned(s)'
      BY <2>3, <2>5 DEF AllSigned
    <3> QED
      BY <2>4, <2>5, <3>1 DEF HandlerInv, At, Claims
  <2>6. CASE rest # {}
    BY <2>3, <2>4, <2>6 DEF HandlerInv, At, Claims
  <2> QED
    BY <2>5, <2>6
<1>10. ASSUME \/ ResendWrite(r) \/ CancelWrite(r) \/ OpenWrite(r)
              \/ DeclinePeople(r)
       PROVE  HandlerInv(r)'
  <2>1. /\ req[r].pc \in {"resend", "cancel", "open", "decline_people"}
        /\ req' = [req EXCEPT ![r].pc = "audit"]
    BY <1>10 DEF ResendWrite, CancelWrite, OpenWrite, DeclinePeople, Goto, At
  <2> QED
    BY <1>h, <1>g, <2>1 DEF HandlerInv, At, Claims
<1>11. ASSUME CompleteWrite(r) \/ FinalizeWrite(r)
       PROVE  HandlerInv(r)'
  <2>1. /\ req[r].pc \in {"commit", "finalize"}
        /\ req' = [req EXCEPT ![r].pc = "audit"]
    BY <1>11 DEF CompleteWrite, FinalizeWrite, Goto, At
  <2>2. AllSigned(req[r].sess)'
    BY <1>h, <2>1, Stable DEF HandlerInv, At
  <2> QED
    BY <1>h, <1>g, <2>1, <2>2 DEF HandlerInv, At, Claims
<1>12. ASSUME DeclineWrite(r)
       PROVE  HandlerInv(r)'
  BY <1>12, <1>h, <1>g DEF DeclineWrite, Goto, HandlerInv, At, Claims
<1>13. ASSUME SaveWrite(r)
       PROVE  HandlerInv(r)'
  <2>1. CASE Return(r)
    BY <1>i, <1>r, <2>1 DEF Return
  <2>2. CASE At(r, "save") /\ Goto(r, "save_fields")
    BY <1>h, <1>g, <2>2, Stable DEF Goto, HandlerInv, At, Claims
  <2> QED
    BY <1>13, <2>1, <2>2 DEF SaveWrite
<1>14. ASSUME SaveField(r)
       PROVE  HandlerInv(r)'
  <2>1. CASE Return(r)
    BY <1>i, <1>r, <2>1 DEF Return
  <2>2. CASE /\ At(r, "save_fields")
             /\ \E f : req' = [req EXCEPT ![r].todo = @ \ {f}]
    <3>1. /\ req'[r].pc = "save_fields" /\ req'[r].sess = req[r].sess
          /\ req'[r].event = req[r].event
      BY <2>2 DEF At, TypeOK
    <3> QED
      BY <1>h, <2>2, <3>1, Stable DEF HandlerInv, At, Claims
  <2> QED
    BY <1>14, <2>1, <2>2 DEF SaveField
<1>15. ASSUME ExpireWrite(r) \/ Abort(r)
       PROVE  HandlerInv(r)'
  BY <1>15, <1>i, <1>r DEF ExpireWrite, Abort, Return
<1>16. ASSUME req'[r] = req[r]
       PROVE  HandlerInv(r)'
  BY <1>16, <1>h, HandlerStable
<1> QED
  BY <1>1, <1>2, <1>3, <1>4, <1>5, <1>6, <1>7, <1>8, <1>9, <1>10, <1>11,
     <1>12, <1>13, <1>14, <1>15, <1>16, RequestOwner
     DEF StaffStep, SignerStep, FinalizeStep

\* The invariant is inductive, one conjunct at a time.
LEMMA SignedStep == ASSUME TypeOK, SignedInv, [Next]_vars PROVE SignedInv'
<1> USE DEF rowVars, peopleVars, logVars
<1>1. SignedBeforeProcessing'
  <2> SUFFICES ASSUME NEW s \in Sessions,
                      status'[s] \in {"processing", "completed"}
               PROVE  AllSigned(s)'
    BY DEF SignedBeforeProcessing, AllSigned
  <2>1. CASE status'[s] = status[s]
    BY <2>1, Stable DEF SignedInv, SignedBeforeProcessing, AllSigned
  <2>2. CASE status'[s] # status[s]
    <3>1. PICK r \in Slots :
             req[r].sess = s /\ req[r].pc \in {"commit", "finalize"}
      BY <2>2, StatusWrites DEF At
    <3>2. AllSigned(s)
      BY <3>1 DEF SignedInv, HandlerInv, At
    <3> QED
      BY <3>2, Stable
  <2> QED
    BY <2>1, <2>2
<1>2. AnnouncedMeansSigned'
  <2> SUFFICES ASSUME NEW s \in Sessions, NEW e \in Claims,
                      e \in audited'[s] \cup announced'[s]
               PROVE  AllSigned(s)'
    BY DEF AnnouncedMeansSigned, AllSigned, Claims
  <2>1. CASE e \in audited[s] \cup announced[s]
    BY <2>1, Stable DEF SignedInv, AnnouncedMeansSigned, AllSigned, Claims
  <2>2. CASE e \notin audited[s] \cup announced[s]
    <3>1. \E r \in Slots : Audit(r) \/ Announce(r)
      <4>1. ~UNCHANGED logVars
        BY <2>2
      <4> QED
        BY <4>1
           DEF Next, vars, StaffStep, SignerStep, FinalizeStep, SweepStep,
         CreateSession, CreateSigner, CreateGuardian, Invite,
         ResendRead, ResendWrite, CancelRead, CancelWrite, ExpireRead,
         ExpireWrite, OpenRead, OpenWrite, SaveRead, SaveWrite, SaveField,
         CompleteRead, CompleteAgain, InsertSignature, MarkSigned,
         CompleteWrite, DeclineRead, DeclineWrite, DeclinePeople,
         FinalizeRead, FinalizeWrite, Abort, SweepRead, SweepWrite,
         SweepThrow, SweepAbort, Elapse
    <3>2. PICK r \in Slots : /\ req[r].pc \in {"audit", "announce"}
                             /\ req[r].sess = s /\ req[r].event = e
      <4>1. CASE \E r \in Slots : Audit(r)
        <5>1. PICK r \in Slots :
                 /\ At(r, "audit")
                 /\ audited' = [audited EXCEPT ![req[r].sess] =
                                @ \cup ({req[r].event} \cap Logged)]
                 /\ announced' = announced
          BY <4>1 DEF Audit
        <5>2. req[r].sess = s /\ req[r].event = e
          BY <2>2, <5>1 DEF TypeOK
        <5> QED
          BY <5>1, <5>2 DEF At
      <4>2. CASE \E r \in Slots : Announce(r)
        <5>1. PICK r \in Slots :
                 /\ At(r, "announce")
                 /\ announced' = [announced EXCEPT ![req[r].sess] =
                                  @ \cup {req[r].event}]
                 /\ audited' = audited
          BY <4>2 DEF Announce
        <5>2. req[r].sess = s /\ req[r].event = e
          BY <2>2, <5>1 DEF TypeOK
        <5> QED
          BY <5>1, <5>2 DEF At
      <4> QED
        BY <3>1, <4>1, <4>2
    <3>3. AllSigned(s)
      BY <3>2 DEF SignedInv, HandlerInv, At
    <3> QED
      BY <3>3, Stable
  <2> QED
    BY <2>1, <2>2
<1>3. MarkedMeansSigned'
  <2> SUFFICES ASSUME NEW s \in Sessions, NEW p \in Roles,
                      person'[s][p] = "signed"
               PROVE  p \in Signed(s)'
    BY DEF MarkedMeansSigned
  <2>1. CASE person[s][p] = "signed"
    BY <2>1, Monotone DEF SignedInv, MarkedMeansSigned
  <2>2. CASE person[s][p] # "signed"
    <3>1. person'[s] # person[s]
      BY <2>2
    <3>2. ASSUME NEW r \in Slots, NEW q, InsertParticipant(r, q)
          PROVE  FALSE
      BY <2>2, <3>2 DEF InsertParticipant, TypeOK
    <3>3. ASSUME NEW r \in Slots, DeclinePeople(r)
          PROVE  FALSE
      BY <2>2, <3>3 DEF DeclinePeople, TypeOK
    <3>4. ASSUME NEW r \in Slots, MarkSigned(r)
          PROVE  p \in Signed(s)
      <4>1. /\ At(r, "mark")
            /\ person' = [person EXCEPT ![req[r].sess][NextToSign(r)] = "signed"]
        BY <3>4 DEF MarkSigned
      <4>2. req[r].sess = s /\ NextToSign(r) = p
        BY <2>2, <4>1 DEF TypeOK
      <4> QED
        BY <4>1, <4>2 DEF SignedInv, HandlerInv, At
    <3>5. \E r \in Slots : \/ CreateSigner(r) \/ CreateGuardian(r)
                           \/ MarkSigned(r) \/ DeclinePeople(r)
      BY <3>1
         DEF Next, vars, StaffStep, SignerStep, FinalizeStep, SweepStep,
         CreateSession, Audit, Invite, Announce,
         ResendRead, ResendWrite, CancelRead, CancelWrite, ExpireRead,
         ExpireWrite, OpenRead, OpenWrite, SaveRead, SaveWrite, SaveField,
         CompleteRead, CompleteAgain, InsertSignature,
         CompleteWrite, DeclineRead, DeclineWrite,
         FinalizeRead, FinalizeWrite, Abort, SweepRead, SweepWrite,
         SweepThrow, SweepAbort, Elapse
    <3> QED
      BY <3>2, <3>3, <3>4, <3>5, Monotone DEF CreateSigner, CreateGuardian
  <2> QED
    BY <2>1, <2>2
<1>4. InvitedMeansPresent'
  <2> SUFFICES ASSUME NEW s \in Sessions, issued'[s]
               PROVE  AllPresent(s)'
    BY DEF InvitedMeansPresent
  <2>1. CASE issued[s]
    BY <2>1, Stable DEF SignedInv, InvitedMeansPresent
  <2>2. CASE ~issued[s]
    <3>1. \E r \in Slots : Invite(r)
      <4>1. ~UNCHANGED issued
        BY <2>2
      <4> QED
        BY <4>1
           DEF Next, vars, StaffStep, SignerStep, FinalizeStep, SweepStep,
         CreateSession, CreateSigner, CreateGuardian, Audit, Announce,
         ResendRead, ResendWrite, CancelRead, CancelWrite, ExpireRead,
         ExpireWrite, OpenRead, OpenWrite, SaveRead, SaveWrite, SaveField,
         CompleteRead, CompleteAgain, InsertSignature, MarkSigned,
         CompleteWrite, DeclineRead, DeclineWrite, DeclinePeople,
         FinalizeRead, FinalizeWrite, Abort, SweepRead, SweepWrite,
         SweepThrow, SweepAbort, Elapse
    <3>2. PICK r \in Slots : req[r].sess = s /\ At(r, "invite")
      BY <2>2, <3>1 DEF Invite, TypeOK
    <3>3. AllPresent(s)
      BY <3>2 DEF SignedInv, HandlerInv, At
    <3> QED
      BY <3>3, Stable
  <2> QED
    BY <2>1, <2>2
<1>5. \A r \in Slots : HandlerInv(r)'
  BY HandlerStep
<1> QED
  BY <1>1, <1>2, <1>3, <1>4, <1>5 DEF SignedInv

LEMMA SignedInductive == Spec => []SignedInv
<1>1. Init => SignedInv
  BY DEF Init, SignedInv, SignedBeforeProcessing, AnnouncedMeansSigned,
         MarkedMeansSigned, InvitedMeansPresent, HandlerInv, Idle, At
<1>2. TypeOK /\ SignedInv /\ [Next]_vars => SignedInv'
  BY SignedStep
<1> QED
  BY <1>1, <1>2, TypeCorrect, PTL DEF Spec

\* No session is processing or completed without a signature of the signer
\* and, for a minor under the guardian policy, of the guardian.
THEOREM SubmittedIsSigned == Spec => []SignedBeforeProcessing
<1>1. SignedInv => SignedBeforeProcessing
  BY DEF SignedInv
<1> QED
  BY <1>1, SignedInductive, PTL

\* Neither the audit log nor a webhook claims a finished signing that did not
\* take place, whatever the session's status has become since.
THEOREM ClaimsAreTrue == Spec => []AnnouncedMeansSigned
<1>1. SignedInv => AnnouncedMeansSigned
  BY DEF SignedInv
<1> QED
  BY <1>1, SignedInductive, PTL

\* A participant shown as signed has a signature row.
THEOREM MarksAreTrue == Spec => []MarkedMeansSigned
<1>1. SignedInv => MarkedMeansSigned
  BY DEF SignedInv
<1> QED
  BY <1>1, SignedInductive, PTL

\* What is shown or announced of a signature is backed by its row.
THEOREM ClaimsHold == Spec => []ClaimsMatchSignatures
BY ClaimsAreTrue, MarksAreTrue, PTL DEF ClaimsMatchSignatures

-----------------------------------------------------------------------------
(* A terminal status is final.                                             *)

\* While a session is not open and past its deadline, no sweep picks it up.
LEMMA NoNewSweep ==
    ASSUME TypeOK, [Next]_vars, NEW s \in Sessions, status[s] \notin Open,
           Sweeping(s) = {}
    PROVE  Sweeping(s)' = {}
<1> SUFFICES ASSUME NEW w \in Sweepers, w \in Sweeping(s)'
             PROVE  FALSE
  BY DEF Sweeping
<1>1. batch[w][s] = "none" /\ batch'[w][s] # "none"
  BY DEF Sweeping
<1>2. ASSUME NEW v \in Sweepers, SweepRead(v)
      PROVE  FALSE
  <2>1. batch' = [batch EXCEPT ![v] =
          [t \in Sessions |-> IF t \in {u \in Sessions : Lapsed(u)}
                             THEN status[t] ELSE "none"]]
    BY <1>2 DEF SweepRead
  <2>2. s \notin {u \in Sessions : Lapsed(u)}
    BY DEF Lapsed
  <2> QED
    BY <1>1, <2>1, <2>2 DEF TypeOK
<1>3. ASSUME NEW v \in Sweepers, SweepWrite(v) \/ SweepThrow(v) \/ SweepAbort(v)
      PROVE  FALSE
  <2>1. CASE SweepWrite(v)
    <3>1. PICK t \in Sessions : batch' = [batch EXCEPT ![v][t] = "none"]
      BY <2>1 DEF SweepWrite
    <3> QED
      BY <1>1, <3>1 DEF TypeOK
  <2>2. CASE batch' = [batch EXCEPT ![v] = NoBatch]
    BY <1>1, <2>2 DEF NoBatch, TypeOK
  <2> QED
    BY <1>3, <2>1, <2>2 DEF SweepThrow, SweepAbort
<1>4. batch' # batch
  BY <1>1
<1>5. \E v \in Sweepers : SweepStep(v) \/ SweepAbort(v)
  BY <1>4
     DEF Next, vars, StaffStep, SignerStep, FinalizeStep,
       CreateSession, CreateSigner, CreateGuardian, Audit, Invite, Announce,
       ResendRead, ResendWrite, CancelRead, CancelWrite, ExpireRead,
       ExpireWrite, OpenRead, OpenWrite, SaveRead, SaveWrite, SaveField,
       CompleteRead, CompleteAgain, InsertSignature, MarkSigned,
       CompleteWrite, DeclineRead, DeclineWrite, DeclinePeople,
       FinalizeRead, FinalizeWrite, Abort, Elapse
<1> QED
  BY <1>2, <1>3, <1>5 DEF SweepStep

\* While a session's status is terminal, no handler and no sweep starts that
\* could write it.
LEMMA NoNewWriter ==
    ASSUME TypeOK, SignedInv, [Next]_vars, NEW s \in Sessions, Settled(s)
    PROVE  Writers(s)' = {} /\ Sweeping(s)' = {}
<1>1. /\ status[s] \in {"completed", "declined", "cancelled", "expired"}
      /\ \A to \in Status : ~CanTransition(status[s], to)
  BY DEF Settled, Terminal, Status, CanTransition, Transitions
<1>2. ASSUME NEW r \in Slots, r \in Writers(s)'
      PROVE  FALSE
  <2>1. /\ req'[r].sess = s /\ req'[r].pc \in WritingPcs
        /\ ~(req[r].sess = s /\ req[r].pc \in WritingPcs)
    BY <1>2 DEF Writers, Settled
  <2>2. req'[r] # req[r]
    BY <2>1
  <2>3. StaffStep(r) \/ SignerStep(r) \/ FinalizeStep(r) \/ Abort(r)
    BY <2>2, RequestOwner
  <2>4. ASSUME NEW l, Goto(r, l)
        PROVE  l = req'[r].pc /\ l \in WritingPcs /\ req[r].pc \notin WritingPcs
    BY <2>1, <2>4 DEF TypeOK, Goto
  <2>5. ASSUME NEW t \in Sessions, NEW l, NEW todo, NEW e,
               Take(r, t, l, todo, e)
        PROVE  t = s /\ l \in WritingPcs
    BY <2>1, <2>5 DEF Take, TypeOK
  <2>6. ~Return(r)
    BY <2>1 DEF Return, Idle, WritingPcs, TypeOK
  <2>7. CASE StaffStep(r)
    <3>1. ~CreateSession(r)
      BY <2>1 DEF CreateSession, TypeOK, WritingPcs
    <3>2. ~(ResendRead(r) \/ CancelRead(r))
      BY <1>1, <2>5 DEF ResendRead, CancelRead, StaffTarget, Status
    <3>3. ~(CreateSigner(r) \/ CreateGuardian(r) \/ Audit(r) \/ Invite(r))
      BY <2>4, <2>6 DEF CreateSigner, CreateGuardian, Audit, Invite, WritingPcs
    <3>4. ~(ResendWrite(r) \/ CancelWrite(r) \/ Announce(r))
      BY <2>4, <2>6 DEF ResendWrite, CancelWrite, Announce, WritingPcs
    <3> QED
      BY <2>7, <3>1, <3>2, <3>3, <3>4 DEF StaffStep
  <2>8. CASE SignerStep(r)
    <3>1. ~(ExpireRead(r) \/ OpenRead(r) \/ SaveRead(r))
      BY <1>1, <2>5 DEF ExpireRead, OpenRead, SaveRead, Lapsed, Open
    <3>2. ~(CompleteRead(r) \/ CompleteAgain(r) \/ DeclineRead(r))
      BY <1>1, <2>5 DEF CompleteRead, CompleteAgain, DeclineRead, WritingPcs
    <3>3. ~(OpenWrite(r) \/ SaveWrite(r) \/ ExpireWrite(r))
      BY <2>4, <2>6 DEF OpenWrite, SaveWrite, ExpireWrite, WritingPcs
    <3>4. ~(CompleteWrite(r) \/ DeclineWrite(r) \/ DeclinePeople(r))
      BY <2>4 DEF CompleteWrite, DeclineWrite, DeclinePeople, WritingPcs
    <3>5. ~InsertSignature(r)
      BY <2>4 DEF InsertSignature, At, WritingPcs
    <3>6. ~MarkSigned(r)
      <4>1. ASSUME MarkSigned(r)
            PROVE  req'[r].sess = req[r].sess /\ req[r].pc = "mark"
        BY <4>1 DEF MarkSigned, At, TypeOK
      <4> QED
        BY <2>1, <4>1 DEF WritingPcs
    <3>7. ~SaveField(r)
      <4>1. ASSUME SaveField(r)
            PROVE  req'[r].pc = "save_fields"
        BY <2>6, <4>1 DEF SaveField, At, TypeOK
      <4> QED
        BY <2>1, <4>1 DEF WritingPcs
    <3> QED
      BY <2>8, <3>1, <3>2, <3>3, <3>4, <3>5, <3>6, <3>7 DEF SignerStep
  <2>9. CASE FinalizeStep(r) \/ Abort(r)
    <3>1. ~FinalizeRead(r)
      BY <1>1, <2>5 DEF FinalizeRead
    <3> QED
      BY <2>4, <2>6, <2>9, <3>1
         DEF FinalizeStep, FinalizeWrite, Abort, WritingPcs
  <2> QED
    BY <2>3, <2>7, <2>8, <2>9
<1>3. Sweeping(s)' = {}
  BY <1>1, NoNewSweep DEF Settled, Open
<1> QED
  BY <1>2, <1>3 DEF Writers

\* Nothing writes the status of a settled session.
LEMMA SettledStep ==
    ASSUME TypeOK, SignedInv, [Next]_vars, NEW s \in Sessions, Settled(s)
    PROVE  Settled(s)' /\ status'[s] = status[s]
<1>1. status'[s] = status[s]
  <2> SUFFICES ASSUME status'[s] # status[s] PROVE FALSE
    OBVIOUS
  <2>1. status[s] # "none"
    BY DEF Settled, Terminal, Status
  <2>2. ASSUME NEW r \in Slots
        PROVE  ~(req[r].sess = s /\ req[r].pc \in WritingPcs)
    BY DEF Settled, Writers
  <2>3. ASSUME NEW w \in Sweepers
        PROVE  batch[w][s] = "none"
    BY DEF Settled, Sweeping
  <2> QED
    BY <2>1, <2>2, <2>3, StatusWrites DEF At, WritingPcs
<1> QED
  BY <1>1, NoNewWriter DEF Settled

\* A completed, declined, cancelled or expired session stays what it is from
\* the moment the handlers that were in flight have returned, for any number
\* of handlers and sweepers.
THEOREM TerminalIsFinal == Spec => SettledIsFinal
<1>1. TypeOK /\ SignedInv /\ [Next]_vars
        => [\A s \in Sessions :
              Settled(s) => Settled(s)' /\ status'[s] = status[s]]_vars
  BY SettledStep
<1> QED
  BY <1>1, TypeCorrect, SignedInductive, PTL DEF Spec, SettledIsFinal

-----------------------------------------------------------------------------
(* A submission is frozen.                                                 *)

\* The steps that write the evidence of a session, each past its check.
LEMMA EvidenceWrites ==
    ASSUME TypeOK, [Next]_vars, NEW s \in Sessions, EvidenceWriters(s) = {},
           status[s] # "none"
    PROVE  sigs'[s] = sigs[s] /\ responses'[s] = responses[s] /\ person'[s] = person[s]
<1>1. \/ UNCHANGED <<sigs, responses, person>>
      \/ \E r \in Slots : \/ InsertSignature(r) \/ SaveField(r)
                          \/ CreateSigner(r) \/ CreateGuardian(r)
                          \/ MarkSigned(r) \/ DeclinePeople(r)
  BY ZenonT(60)
     DEF Next, vars, peopleVars, StaffStep, SignerStep, FinalizeStep, SweepStep,
       CreateSession, Audit, Invite, Announce,
       ResendRead, ResendWrite, CancelRead, CancelWrite, ExpireRead,
       ExpireWrite, OpenRead, OpenWrite, SaveRead, SaveWrite,
       CompleteRead, CompleteAgain, CompleteWrite, DeclineRead, DeclineWrite,
       FinalizeRead, FinalizeWrite, Abort, SweepRead, SweepWrite,
       SweepThrow, SweepAbort, Elapse
<1>2. ASSUME NEW r \in Slots,
             req[r].pc \in {"sign", "save_fields", "create_signer",
                            "create_guardian", "mark", "decline_people"}
      PROVE  req[r].sess # s
  BY <1>2 DEF EvidenceWriters
<1>3. CASE \E r \in Slots : InsertSignature(r)
  BY <1>2, <1>3 DEF InsertSignature, At, TypeOK
<1>4. CASE \E r \in Slots : SaveField(r)
  BY <1>2, <1>4 DEF SaveField, At, TypeOK, peopleVars
<1>5. CASE \E r \in Slots : CreateSigner(r) \/ CreateGuardian(r)
  BY <1>2, <1>5 DEF CreateSigner, CreateGuardian, InsertParticipant, At, TypeOK
<1>6. CASE \E r \in Slots : MarkSigned(r)
  BY <1>2, <1>6 DEF MarkSigned, At, TypeOK
<1>7. CASE \E r \in Slots : DeclinePeople(r)
  BY <1>2, <1>7 DEF DeclinePeople, At, TypeOK
<1> QED
  BY <1>1, <1>3, <1>4, <1>5, <1>6, <1>7

\* While a session is submitted, no request gets past the check before its
\* first write.
LEMMA NoNewEvidence ==
    ASSUME TypeOK, [Next]_vars, NEW s \in Sessions, Submitted(s)
    PROVE  EvidenceWriters(s)' = {}
<1> DEFINE Quiet == {"idle", "audit", "invite", "announce", "finalize"}
<1>1. /\ status[s] \in {"processing", "completed"}
      /\ ~CanTransition(status[s], "sent") /\ ~CanTransition(status[s], "cancelled")
  BY DEF Submitted, CanTransition, Transitions
<1> SUFFICES ASSUME NEW r \in Slots, req'[r].sess = s, req'[r].pc \notin Quiet
             PROVE  FALSE
  BY DEF EvidenceWriters
<1>2. ~(req[r].sess = s /\ req[r].pc \notin Quiet)
  BY DEF Submitted, EvidenceWriters
<1>3. StaffStep(r) \/ SignerStep(r) \/ FinalizeStep(r) \/ Abort(r)
  BY <1>2, RequestOwner
<1>4. ASSUME NEW l, Goto(r, l)
      PROVE  l \notin Quiet /\ req[r].pc \in Quiet
  BY <1>2, <1>4 DEF TypeOK, Goto
<1>5. ASSUME NEW t \in Sessions, NEW l, NEW todo, NEW e, Take(r, t, l, todo, e)
      PROVE  t = s /\ l \notin Quiet
  BY <1>5 DEF Take, TypeOK
<1>6. ~Return(r)
  BY DEF Return, Idle, TypeOK
<1>7. ASSUME req'[r].sess = req[r].sess
      PROVE  req[r].pc \in Quiet
  BY <1>2, <1>7
<1>8. CASE StaffStep(r)
  <2>1. ~CreateSession(r)
    <3> SUFFICES ASSUME CreateSession(r) PROVE FALSE
      OBVIOUS
    <3>1. PICK t \in Sessions : /\ status[t] = "none"
                                /\ req' = [req EXCEPT ![r] = [pc |-> "create_signer", sess |-> t,
                                      seen |-> "created", todo |-> {},
                                      event |-> "created"]]
      BY DEF CreateSession
    <3>2. req'[r].sess = t
      BY <3>1 DEF TypeOK
    <3> QED
      BY <1>1, <3>1, <3>2
  <2>2. ~(ResendRead(r) \/ CancelRead(r))
    BY <1>1, <1>5 DEF ResendRead, CancelRead, StaffTarget
  <2>3. ~(CreateSigner(r) \/ CreateGuardian(r) \/ Audit(r) \/ Invite(r))
    BY <1>4, <1>6 DEF CreateSigner, CreateGuardian, Audit, Invite, At
  <2>4. ~(ResendWrite(r) \/ CancelWrite(r) \/ Announce(r))
    BY <1>4, <1>6 DEF ResendWrite, CancelWrite, Announce, At
  <2> QED
    BY <1>8, <2>1, <2>2, <2>3, <2>4 DEF StaffStep
<1>9. CASE SignerStep(r)
  <2>1. ~(ExpireRead(r) \/ OpenRead(r) \/ SaveRead(r))
    BY <1>1, <1>5 DEF ExpireRead, OpenRead, SaveRead, Lapsed, Open
  <2>2. ~(CompleteRead(r) \/ CompleteAgain(r) \/ DeclineRead(r))
    BY <1>1, <1>5 DEF CompleteRead, CompleteAgain, DeclineRead
  <2>3. ~(OpenWrite(r) \/ SaveWrite(r) \/ ExpireWrite(r))
    BY <1>4, <1>6 DEF OpenWrite, SaveWrite, ExpireWrite, At
  <2>4. ~(CompleteWrite(r) \/ DeclineWrite(r) \/ DeclinePeople(r) \/ InsertSignature(r))
    BY <1>4 DEF CompleteWrite, DeclineWrite, DeclinePeople, InsertSignature, At
  <2>5. ~MarkSigned(r)
    <3>1. ASSUME MarkSigned(r)
          PROVE  req'[r].sess = req[r].sess /\ req[r].pc = "mark"
      BY <3>1 DEF MarkSigned, At, TypeOK
    <3> QED
      BY <1>7, <3>1
  <2>6. ~SaveField(r)
    <3>1. ASSUME SaveField(r)
          PROVE  req'[r].sess = req[r].sess /\ req[r].pc = "save_fields"
      BY <1>6, <3>1 DEF SaveField, At, TypeOK
    <3> QED
      BY <1>7, <3>1
  <2> QED
    BY <1>9, <2>1, <2>2, <2>3, <2>4, <2>5, <2>6 DEF SignerStep
<1>10. CASE FinalizeStep(r) \/ Abort(r)
  <2>1. ~FinalizeRead(r)
    BY <1>5 DEF FinalizeRead
  <2> QED
    BY <1>4, <1>6, <1>10, <2>1 DEF FinalizeStep, FinalizeWrite, Abort
<1> QED
  BY <1>3, <1>8, <1>9, <1>10

\* From the moment the handlers that were in flight have returned, the
\* signatures, responses and participants of a submitted session stay what
\* they are, and it is not taken back, for any number of requests and sweeps
\* in any order.
THEOREM EvidenceFrozen == Spec => EvidenceIsFrozen
<1>1. ASSUME TypeOK, [Next]_vars, NEW s \in Sessions, Submitted(s)
      PROVE  /\ Submitted(s)'
             /\ sigs'[s] = sigs[s] /\ responses'[s] = responses[s]
             /\ person'[s] = person[s]
  <2>1. EvidenceWriters(s)' = {}
    BY <1>1, NoNewEvidence
  <2>2. status[s] \in {"processing", "completed"} /\ Sweeping(s) = {}
    BY <1>1 DEF Submitted
  <2>3. Sweeping(s)' = {}
    BY <1>1, <2>2, NoNewSweep DEF Open
  <2>4. status'[s] \in {"processing", "completed"}
    <3> SUFFICES ASSUME status'[s] # status[s]
                 PROVE  status'[s] = "completed"
      BY <2>2
    <3>1. ASSUME NEW r \in Slots, req[r].sess = s
          PROVE  req[r].pc \in {"idle", "audit", "invite", "announce", "finalize"}
      BY <1>1, <3>1 DEF Submitted, EvidenceWriters
    <3>2. \A w \in Sweepers : batch[w][s] = "none"
      BY <2>2 DEF Sweeping
    <3> QED
      BY <1>1, <2>2, <3>1, <3>2, StatusWrites DEF At
  <2>5. sigs'[s] = sigs[s] /\ responses'[s] = responses[s] /\ person'[s] = person[s]
    BY <1>1, <2>2, EvidenceWrites DEF Submitted
  <2> QED
    BY <2>1, <2>3, <2>4, <2>5 DEF Submitted
<1>2. TypeOK /\ [Next]_vars
        => [\A s \in Sessions :
              Submitted(s) => /\ Submitted(s)'
                              /\ sigs'[s] = sigs[s]
                              /\ responses'[s] = responses[s]
                              /\ person'[s] = person[s]]_vars
  BY <1>1
<1> QED
  BY <1>2, TypeCorrect, PTL DEF Spec, EvidenceIsFrozen

-----------------------------------------------------------------------------
(* Fresh copies keep to the transition table.                              *)

\* The statuses a handler can have read before it got to a step.
Sees(pc) ==
    CASE pc = "resend" -> {st \in Status : CanTransition(st, "sent")}
      [] pc = "cancel" -> {st \in Status : CanTransition(st, "cancelled")}
      [] pc = "expire" -> Open
      [] pc = "open" -> {"created", "sent"}
      [] pc \in {"save", "sign", "mark", "commit", "decline"} -> {"viewed", "in_progress"}
      [] pc = "finalize" -> {"processing"}
      [] OTHER -> Status

\* Only those who have to sign have a row, or are asked to.
ReadHolds(r) ==
    /\ req[r].seen \in Sees(req[r].pc)
    /\ At(r, "create_guardian") => minor[req[r].sess]
    /\ req[r].pc \in {"sign", "mark"} => req[r].todo \subseteq Required(req[r].sess)

ReadInv ==
    /\ \A r \in Slots : ReadHolds(r)
    /\ \A s \in Sessions : Present(s) \subseteq Required(s)

LEMMA SeesStatus ==
    \A pc : Sees(pc) \subseteq Status
  BY DEF Sees, Open, Status

\* The steps of one handler.
HandlerMoves(r) == StaffStep(r) \/ SignerStep(r) \/ FinalizeStep(r) \/ Abort(r)

LEMMA ReadStep ==
    ASSUME TypeOK, SignedInv, ReadInv, [Next]_vars, NEW r \in Slots
    PROVE  ReadHolds(r)'
<1>h. ReadHolds(r) /\ HandlerInv(r)
  BY DEF ReadInv, SignedInv
<1>m. \A s \in Sessions : Required(s)' = Required(s) /\ minor'[s] = minor[s]
  <2>1. {"signer"} # Roles
    BY DEF Roles
  <2>2. minor' \in [Sessions -> BOOLEAN] /\ minor \in [Sessions -> BOOLEAN]
    BY TablesStep DEF TypeOK, TablesOK
  <2> QED
    BY <2>1, <2>2, Monotone DEF Required
<1>q. /\ req[r].sess \in Sessions \cup {NoSession} /\ req[r].seen \in Status
      /\ ~At(r, "idle") => req[r].sess \in Sessions
  BY <1>h DEF TypeOK, HandlerInv
<1>i. ASSUME req'[r] = Idle
      PROVE  ReadHolds(r)'
  BY <1>i DEF ReadHolds, Idle, At, Sees, Status
<1>1. CASE req'[r] = req[r]
  BY <1>1, <1>h, <1>m, <1>q DEF ReadHolds, At
<1>2. CASE req'[r] # req[r]
  <2>1. HandlerMoves(r)
    BY <1>2, RequestOwner DEF HandlerMoves
  <2>g. ASSUME NEW l, req' = [req EXCEPT ![r].pc = l]
        PROVE  /\ req'[r].pc = l /\ req'[r].sess = req[r].sess
               /\ req'[r].seen = req[r].seen /\ req'[r].todo = req[r].todo
    BY <2>g DEF TypeOK
  <2>t. ASSUME NEW s \in Sessions, NEW l, NEW todo, NEW e, Take(r, s, l, todo, e),
               status[s] \in Sees(l), l # "create_guardian",
               l \in {"sign", "mark"} => todo \subseteq Required(s)
        PROVE  ReadHolds(r)'
    <3>1. req'[r] = [pc |-> l, sess |-> s, seen |-> status[s], todo |-> todo, event |-> e]
      BY <2>t DEF Take, TypeOK
    <3> QED
      BY <2>t, <3>1, <1>m DEF ReadHolds, At
  <2>o. ASSUME NEW l \in {"audit", "invite", "announce", "save_fields", "decline_people"},
               req' = [req EXCEPT ![r].pc = l]
        PROVE  ReadHolds(r)'
    <3>1. Sees(l) = Status
      BY DEF Sees
    <3>2. req'[r].pc = l /\ req'[r].seen = req[r].seen
      BY <2>o, <2>g
    <3> QED
      BY <3>1, <3>2, <1>q DEF ReadHolds, At
  <2>2. CASE StaffStep(r)
    <3>1. CASE CreateSession(r)
      BY <3>1, <1>i DEF CreateSession, ReadHolds, At, Sees, Status, TypeOK
    <3>2. CASE CreateSigner(r)
      <4>1. req[r].sess \in Sessions
        BY <1>q, <3>2 DEF CreateSigner, At
      <4> QED
        BY <3>2, <4>1, <2>g, <1>q, <1>m DEF CreateSigner, Goto, ReadHolds, At, Sees
    <3>3. CASE CreateGuardian(r) \/ Audit(r) \/ Invite(r) \/ Announce(r)
      BY <3>3, <2>o, <1>i DEF CreateGuardian, Audit, Invite, Announce, Goto, Return, TypeOK
    <3>4. CASE ResendWrite(r) \/ CancelWrite(r)
      BY <3>4, <2>o DEF ResendWrite, CancelWrite, Goto
    <3>5. CASE ResendRead(r) \/ CancelRead(r)
      <4>1. \A s \in Sessions, to \in {"sent", "cancelled"} :
               StaffTarget(s, to) => status[s] \in {st \in Status : CanTransition(st, to)}
        BY DEF StaffTarget, TypeOK
      <4> QED
        BY <3>5, <4>1, <2>t DEF ResendRead, CancelRead, Sees
    <3> QED
      BY <2>2, <3>1, <3>2, <3>3, <3>4, <3>5 DEF StaffStep
  <2>3. CASE SignerStep(r)
    <3>1. CASE ExpireRead(r) \/ OpenRead(r) \/ SaveRead(r) \/ DeclineRead(r)
      BY <3>1, <2>t DEF ExpireRead, OpenRead, SaveRead, DeclineRead, Lapsed, Sees
    <3>2. CASE CompleteRead(r)
      <4>1. \A s \in Sessions : Present(s) \subseteq Required(s)
        BY DEF ReadInv
      <4> QED
        BY <3>2, <4>1, <2>t DEF CompleteRead, Sees
    <3>3. CASE CompleteAgain(r)
      BY <3>3, <2>t DEF CompleteAgain, Sees, Status
    <3>4. CASE ExpireWrite(r) \/ OpenWrite(r) \/ SaveWrite(r) \/ CompleteWrite(r)
               \/ DeclineWrite(r) \/ DeclinePeople(r)
      BY <3>4, <2>o, <1>i
         DEF ExpireWrite, OpenWrite, SaveWrite, CompleteWrite, DeclineWrite,
             DeclinePeople, Goto, Return, TypeOK
    <3>5. CASE SaveField(r)
      <4>1. \/ req' = [req EXCEPT ![r] = Idle]
            \/ \E f : req' = [req EXCEPT ![r].todo = @ \ {f}]
        BY <3>5 DEF SaveField, Return
      <4>2. At(r, "save_fields")
        BY <3>5 DEF SaveField
      <4>3. ASSUME NEW f, req' = [req EXCEPT ![r].todo = @ \ {f}]
            PROVE  ReadHolds(r)'
        <5>1. req'[r].pc = "save_fields" /\ req'[r].seen = req[r].seen
          BY <4>2, <4>3 DEF At, TypeOK
        <5> QED
          BY <5>1, <1>q DEF ReadHolds, At, Sees
      <4> QED
        BY <4>1, <4>3, <1>i DEF TypeOK
    <3>6. CASE InsertSignature(r)
      BY <3>6, <2>g, <1>h, <1>m, <1>q DEF InsertSignature, Goto, ReadHolds, At, Sees
    <3>7. CASE MarkSigned(r)
      <4> DEFINE rest == req[r].todo \ {NextToSign(r)}
      <4>1. /\ req'[r].pc \in {"commit", "sign"} /\ req'[r].sess = req[r].sess
            /\ req'[r].seen = req[r].seen /\ req'[r].todo = rest
            /\ At(r, "mark")
        BY <3>7 DEF MarkSigned, TypeOK
      <4>2. /\ req[r].seen \in Sees("mark")
            /\ req[r].todo \subseteq Required(req[r].sess)
            /\ req[r].sess \in Sessions
        BY <4>1, <1>h, <1>q DEF ReadHolds, At
      <4>3. Sees("mark") = Sees("commit") /\ Sees("mark") = Sees("sign")
        BY DEF Sees
      <4> HIDE DEF rest
      <4>4. rest \subseteq req[r].todo
        BY DEF rest
      <4> QED
        BY <4>1, <4>2, <4>3, <4>4, <1>m DEF ReadHolds, At
    <3> QED
      BY <2>3, <3>1, <3>2, <3>3, <3>4, <3>5, <3>6, <3>7 DEF SignerStep
  <2>4. CASE FinalizeStep(r)
    BY <2>4, <2>t, <2>o DEF FinalizeStep, FinalizeRead, FinalizeWrite, Goto, Sees
  <2>5. CASE Abort(r)
    BY <2>5, <1>i DEF Abort, Return, TypeOK
  <2> QED
    BY <2>1, <2>2, <2>3, <2>4, <2>5 DEF HandlerMoves
<1> QED
  BY <1>1, <1>2

\* A row appears only for somebody who has to sign.
LEMMA PresentStep ==
    ASSUME TypeOK, SignedInv, ReadInv, [Next]_vars, NEW s \in Sessions
    PROVE  Present(s)' \subseteq Required(s)'
<1>1. Required(s)' = Required(s) /\ Present(s) \subseteq Required(s)
  BY Monotone DEF ReadInv
<1>2. ASSUME NEW t \in Sessions, NEW p \in Required(t), NEW v,
             person' = [person EXCEPT ![t][p] = v]
      PROVE  Present(s)' \subseteq Required(s)
  <2>1. ASSUME NEW q \in Roles, person'[s][q] # "absent"
        PROVE  q \in Required(s)
    <3>1. CASE s = t /\ q = p
      BY <3>1, <1>2
    <3>2. CASE ~(s = t /\ q = p)
      <4>1. person'[s][q] = person[s][q]
        BY <1>2, <3>2 DEF TypeOK
      <4> QED
        BY <1>1, <2>1, <4>1 DEF Present
    <3> QED
      BY <3>1, <3>2
  <2> QED
    BY <2>1 DEF Present
<1>3. ASSUME NEW r \in Slots, CreateSigner(r) \/ CreateGuardian(r) \/ MarkSigned(r)
      PROVE  Present(s)' \subseteq Required(s)
  <2>1. HandlerInv(r) /\ ReadHolds(r)
    BY DEF SignedInv, ReadInv
  <2>2. req[r].sess \in Sessions
    BY <1>3, <2>1 DEF HandlerInv, CreateSigner, CreateGuardian, MarkSigned, At
  <2>3. CASE CreateSigner(r)
    <3>1. "signer" \in Required(req[r].sess)
      BY DEF Required, Roles
    <3> QED
      BY <1>2, <2>2, <2>3, <3>1 DEF CreateSigner, InsertParticipant
  <2>4. CASE CreateGuardian(r)
    <3>1. "guardian" \in Required(req[r].sess)
      BY <2>1, <2>4 DEF CreateGuardian, ReadHolds, Required, Roles
    <3> QED
      BY <1>2, <2>2, <2>4, <3>1 DEF CreateGuardian, InsertParticipant
  <2>5. CASE MarkSigned(r)
    <3>1. /\ req[r].todo # {} /\ req[r].todo \subseteq Roles
          /\ req[r].todo \subseteq Required(req[r].sess)
      BY <2>1, <2>5 DEF MarkSigned, HandlerInv, ReadHolds, At
    <3>2. NextToSign(r) \in Required(req[r].sess)
      BY <3>1 DEF NextToSign, Roles
    <3> QED
      BY <1>2, <2>2, <2>5, <3>2 DEF MarkSigned
  <2> QED
    BY <1>3, <2>3, <2>4, <2>5
<1>4. ASSUME NEW r \in Slots, DeclinePeople(r)
      PROVE  Present(s)' \subseteq Required(s)
  <2>1. person' = [person EXCEPT ![req[r].sess] =
                     [p \in Roles |-> IF p \in Present(req[r].sess) THEN "declined"
                                      ELSE "absent"]]
    BY <1>4 DEF DeclinePeople
  <2>2. \A p \in Roles : person'[s][p] # "absent" => p \in Present(s)
    BY <2>1 DEF Present, TypeOK
  <2> QED
    BY <1>1, <2>2 DEF Present
<1>5. \/ UNCHANGED person
      \/ \E r \in Slots : CreateSigner(r) \/ CreateGuardian(r) \/ MarkSigned(r)
                          \/ DeclinePeople(r)
  BY DEF Next, vars, peopleVars, StaffStep, SignerStep, FinalizeStep, SweepStep,
         CreateSession, Audit, Invite, Announce,
         ResendRead, ResendWrite, CancelRead, CancelWrite, ExpireRead,
         ExpireWrite, OpenRead, OpenWrite, SaveRead, SaveWrite, SaveField,
         CompleteRead, CompleteAgain, InsertSignature,
         CompleteWrite, DeclineRead, DeclineWrite,
         FinalizeRead, FinalizeWrite, Abort, SweepRead, SweepWrite,
         SweepThrow, SweepAbort, Elapse
<1> QED
  BY <1>1, <1>3, <1>4, <1>5 DEF Present

LEMMA ReadInductive == Spec => []ReadInv
<1>1. Init => ReadInv
  BY DEF Init, ReadInv, ReadHolds, Idle, At, Sees, Status, Present
<1>2. TypeOK /\ SignedInv /\ ReadInv /\ [Next]_vars => ReadInv'
  BY ReadStep, PresentStep DEF ReadInv
<1> QED
  BY <1>1, <1>2, TypeCorrect, SignedInductive, PTL DEF Spec

\* A write whose handler holds what the row still says is in the table, or is
\* one of the four steps beside it.
LEMMA FreshWrite ==
    ASSUME TypeOK, SignedInv, ReadInv, [Next]_vars, NEW s \in Sessions,
           AllCurrent(s), status'[s] # status[s]
    PROVE  <<status[s], status'[s]>> \in Transitions \cup CodeSteps
<1>1. CASE status'[s] = "created" /\ status[s] = "none"
  BY <1>1 DEF CodeSteps
<1>2. ASSUME NEW r \in Slots, req[r].sess = s, NEW l \in WritingPcs, At(r, l)
      PROVE  status[s] \in Sees(l)
  <2>1. req[r].seen = status[s]
    BY <1>2 DEF AllCurrent, Writers, At
  <2> QED
    BY <1>2, <2>1 DEF ReadInv, ReadHolds, At
<1>3. ASSUME NEW r \in Slots, req[r].sess = s,
             \/ At(r, "resend") /\ status'[s] = "sent"
             \/ At(r, "cancel") /\ status'[s] = "cancelled"
      PROVE  <<status[s], status'[s]>> \in Transitions
  BY <1>2, <1>3 DEF WritingPcs, Sees, CanTransition
<1>4. ASSUME NEW r \in Slots, req[r].sess = s,
             \/ At(r, "expire") /\ status'[s] = "expired"
             \/ At(r, "open") /\ status'[s] = "viewed"
             \/ At(r, "save") /\ status'[s] = "in_progress"
             \/ At(r, "commit") /\ status'[s] = "processing"
             \/ At(r, "decline") /\ status'[s] = "declined"
             \/ At(r, "finalize") /\ status'[s] = "completed"
      PROVE  <<status[s], status'[s]>> \in Transitions \cup CodeSteps
  <2>1. \A l \in WritingPcs : At(r, l) => status[s] \in Sees(l)
    BY <1>2, <1>4
  <2>2. CASE At(r, "expire") /\ status'[s] = "expired"
    BY <2>1, <2>2 DEF WritingPcs, Sees, Open, Transitions, CodeSteps
  <2>3. CASE At(r, "open") /\ status'[s] = "viewed"
    BY <2>1, <2>3 DEF WritingPcs, Sees, Transitions, CodeSteps
  <2>4. CASE At(r, "save") /\ status'[s] = "in_progress"
    <3>1. status[s] = "viewed"
      BY <2>1, <2>4 DEF WritingPcs, Sees
    <3> QED
      BY <2>4, <3>1 DEF Transitions
  <2>5. CASE At(r, "commit") /\ status'[s] = "processing"
    BY <2>1, <2>5 DEF WritingPcs, Sees, Transitions, CodeSteps
  <2>6. CASE At(r, "decline") /\ status'[s] = "declined"
    BY <2>1, <2>6 DEF WritingPcs, Sees, Transitions
  <2>7. CASE At(r, "finalize") /\ status'[s] = "completed"
    BY <2>1, <2>7 DEF WritingPcs, Sees, Transitions
  <2> QED
    BY <1>4, <2>2, <2>3, <2>4, <2>5, <2>6, <2>7
<1>5. ASSUME NEW w \in Sweepers, SweepWrite(w)
      PROVE  <<status[s], status'[s]>> \in Transitions
  <2>1. PICK t \in Sessions : /\ batch[w][t] # "none"
                              /\ CanTransition(batch[w][t], "expired")
                              /\ SetStatus(t, "expired")
    BY <1>5 DEF SweepWrite
  <2>2. t = s /\ status'[s] = "expired"
    BY <2>1 DEF SetStatus, TypeOK
  <2>3. batch[w][s] = status[s]
    BY <2>1, <2>2 DEF AllCurrent, Sweeping
  <2> QED
    BY <2>1, <2>2, <2>3 DEF CanTransition
<1>6. ASSUME NEW w \in Sweepers, batch[w][s] # "none", status'[s] = "expired"
      PROVE  \/ \E v \in Sweepers : SweepWrite(v)
             \/ \E r \in Slots : req[r].sess = s /\ At(r, "expire")
  <2>1. \A l, t : SetStatus(t, l) => l = "expired" /\ t = s
    BY <1>6 DEF SetStatus, TypeOK
  <2> QED
    BY <1>6, <2>1
       DEF Next, vars, rowVars, StaffStep, SignerStep, FinalizeStep, SweepStep,
         CreateSession, CreateSigner, CreateGuardian, Audit, Invite, Announce,
         ResendRead, ResendWrite, CancelRead, CancelWrite, ExpireRead,
         ExpireWrite, OpenRead, OpenWrite, SaveRead, SaveWrite, SaveField,
         CompleteRead, CompleteAgain, InsertSignature, MarkSigned,
         CompleteWrite, DeclineRead, DeclineWrite, DeclinePeople,
         FinalizeRead, FinalizeWrite, Abort, SweepRead,
         SweepThrow, SweepAbort, Elapse
<1> QED
  BY <1>1, <1>3, <1>4, <1>5, <1>6, StatusWrites

\* While no handler holds a stale copy of a session, its status moves along
\* the table and the four steps beside it, for any number of handlers.
THEOREM FreshWritesKeepToTable == Spec => FreshWritesFollowTable
<1>1. TypeOK /\ SignedInv /\ ReadInv /\ [Next]_vars
        => [\A s \in Sessions :
              AllCurrent(s) /\ status'[s] # status[s]
                => <<status[s], status'[s]>> \in Transitions \cup CodeSteps]_vars
  BY FreshWrite
<1> QED
  BY <1>1, TypeCorrect, SignedInductive, ReadInductive, PTL
     DEF Spec, FreshWritesFollowTable

-----------------------------------------------------------------------------
(* One handler at a time.                                                  *)

\* Nobody holds a stale copy, and whoever is saving fields has moved the
\* session to in_progress.
SerialInv ==
    /\ OneAtATime
    /\ \A s \in Sessions : AllCurrent(s)
    /\ \A r \in Slots : At(r, "save_fields") => status[req[r].sess] = "in_progress"

LEMMA AtMostOne ==
    ASSUME NEW S, IsFiniteSet(S), Cardinality(S) <= 1
    PROVE  \A x, y \in S : x = y
<1> SUFFICES ASSUME NEW x \in S, NEW y \in S, x # y
             PROVE  FALSE
  OBVIOUS
<1>1. /\ IsFiniteSet(S \ {x}) /\ Cardinality(S \ {x}) = Cardinality(S) - 1
  BY FS_RemoveElement
<1>2. /\ IsFiniteSet((S \ {x}) \ {y})
      /\ Cardinality((S \ {x}) \ {y}) = Cardinality(S \ {x}) - 1
  BY <1>1, FS_RemoveElement
<1>3. /\ Cardinality(S) \in Nat /\ Cardinality((S \ {x}) \ {y}) \in Nat
  BY <1>2, FS_CardinalityType
<1> QED
  BY <1>1, <1>2, <1>3

\* Whoever is busy is alone.
LoneWorker ==
    /\ \A r, q \in BusySlots : r = q
    /\ \A w, v \in BusySweepers : w = v
    /\ BusySlots = {} \/ BusySweepers = {}

LEMMA Alone == OneAtATime => LoneWorker
<1> SUFFICES ASSUME OneAtATime
             PROVE  LoneWorker
  OBVIOUS
<1>1. /\ BusySlots \subseteq Slots /\ BusySweepers \subseteq Sweepers
      /\ IsFiniteSet(BusySlots) /\ IsFiniteSet(BusySweepers)
  BY SerialAssumption, FS_Subset DEF BusySlots, BusySweepers
<1>2. /\ Cardinality(BusySlots) \in Nat /\ Cardinality(BusySweepers) \in Nat
      /\ Cardinality(BusySlots) + Cardinality(BusySweepers) <= 1
  BY <1>1, FS_CardinalityType DEF OneAtATime
<1>3. Cardinality(BusySlots) <= 1 /\ Cardinality(BusySweepers) <= 1
  BY <1>2
<1>4. Cardinality(BusySlots) = 0 \/ Cardinality(BusySweepers) = 0
  BY <1>2
<1>5. BusySlots = {} \/ BusySweepers = {}
  BY <1>1, <1>4, FS_EmptySet
<1> QED
  BY <1>1, <1>3, <1>5, AtMostOne DEF LoneWorker

\* What one step of a handler does to the copy it holds.
LEMMA MoveKeepsCopy ==
    ASSUME TypeOK, NEW r \in Slots, HandlerInv(r), HandlerMoves(r)
    PROVE  /\ batch' = batch
           /\ ~At(r, "idle") \/ ~At(r, "idle")'
           /\ \A q \in Slots : q # r => req'[q] = req[q]
           /\ req'[r].pc \in WritingPcs =>
                 /\ status' = status
                 /\ \/ req'[r].seen = status[req'[r].sess]
                    \/ /\ req[r].pc \in WritingPcs
                       /\ req'[r].sess = req[r].sess /\ req'[r].seen = req[r].seen
           /\ req'[r].pc = "save_fields" =>
                 \/ status'[req'[r].sess] = "in_progress"
                 \/ At(r, "save_fields") /\ status' = status /\ req'[r].sess = req[r].sess
<1> DEFINE Copied == /\ batch' = batch
                     /\ ~At(r, "idle") \/ ~At(r, "idle")'
                     /\ \A q \in Slots : q # r => req'[q] = req[q]
                     /\ req'[r].pc \in WritingPcs =>
                           /\ status' = status
                           /\ \/ req'[r].seen = status[req'[r].sess]
                              \/ /\ req[r].pc \in WritingPcs
                                 /\ req'[r].sess = req[r].sess
                                 /\ req'[r].seen = req[r].seen
                     /\ req'[r].pc = "save_fields" =>
                           \/ status'[req'[r].sess] = "in_progress"
                           \/ /\ At(r, "save_fields") /\ status' = status
                              /\ req'[r].sess = req[r].sess
<1> SUFFICES Copied
  OBVIOUS
<1> USE DEF rowVars
<1>t. ASSUME NEW s, NEW l, NEW todo, NEW e, Take(r, s, l, todo, e), l # "idle",
             l # "save_fields", batch' = batch, status' = status
      PROVE  Copied
  BY <1>t DEF Take, At, TypeOK
<1>g. ASSUME NEW l, Goto(r, l), ~At(r, "idle"), batch' = batch, l \notin WritingPcs,
             l = "save_fields" => status'[req[r].sess] = "in_progress"
      PROVE  Copied
  BY <1>g DEF Goto, At, TypeOK
<1>k. ASSUME req[r].pc \in WritingPcs, req'[r].pc \in {"sign", "mark", "commit"},
             req'[r].sess = req[r].sess, req'[r].seen = req[r].seen,
             \A q \in Slots : q # r => req'[q] = req[q],
             batch' = batch, status' = status
      PROVE  Copied
  BY <1>k DEF At, WritingPcs
<1>i. ASSUME Return(r), ~At(r, "idle"), batch' = batch
      PROVE  Copied
  BY <1>i DEF Return, Idle, At, WritingPcs, TypeOK
<1>1. CASE StaffStep(r)
  <2>1. CASE CreateSession(r)
    BY <2>1 DEF CreateSession, At, WritingPcs, TypeOK
  <2>2. CASE CreateSigner(r) \/ CreateGuardian(r) \/ Audit(r) \/ Invite(r) \/ Announce(r)
             \/ ResendWrite(r) \/ CancelWrite(r)
    BY <2>2, <1>g, <1>i
       DEF CreateSigner, CreateGuardian, Audit, Invite, Announce, ResendWrite,
           CancelWrite, At, WritingPcs
  <2>3. CASE ResendRead(r) \/ CancelRead(r)
    BY <2>3, <1>t DEF ResendRead, CancelRead
  <2> QED
    BY <1>1, <2>1, <2>2, <2>3 DEF StaffStep
<1>2. CASE SignerStep(r)
  <2>1. CASE ExpireRead(r) \/ OpenRead(r) \/ SaveRead(r) \/ DeclineRead(r)
             \/ CompleteRead(r) \/ CompleteAgain(r)
    BY <2>1, <1>t
       DEF ExpireRead, OpenRead, SaveRead, DeclineRead, CompleteRead, CompleteAgain
  <2>2. CASE ExpireWrite(r) \/ OpenWrite(r) \/ CompleteWrite(r) \/ DeclineWrite(r)
             \/ DeclinePeople(r)
    BY <2>2, <1>g, <1>i
       DEF ExpireWrite, OpenWrite, CompleteWrite, DeclineWrite, DeclinePeople, At,
           WritingPcs
  <2>3. CASE SaveWrite(r)
    <3>1. CASE Return(r)
      BY <2>3, <3>1, <1>i DEF SaveWrite, At
    <3>2. CASE Goto(r, "save_fields")
      <4>1. status'[req[r].sess] = "in_progress"
        BY <2>3 DEF SaveWrite, SetStatus, TypeOK, HandlerInv, At
      <4> QED
        BY <2>3, <3>2, <4>1, <1>g DEF SaveWrite, At, WritingPcs
    <3> QED
      BY <2>3, <3>1, <3>2 DEF SaveWrite
  <2>4. CASE SaveField(r)
    <3>1. \/ Return(r)
          \/ \E f : req' = [req EXCEPT ![r].todo = @ \ {f}]
      BY <2>4 DEF SaveField
    <3>2. At(r, "save_fields") /\ batch' = batch /\ status' = status
      BY <2>4 DEF SaveField
    <3>3. ASSUME NEW f, req' = [req EXCEPT ![r].todo = @ \ {f}]
          PROVE  Copied
      BY <3>2, <3>3 DEF At, WritingPcs, TypeOK
    <3> QED
      BY <3>1, <3>2, <3>3, <1>i DEF At
  <2>5. CASE InsertSignature(r)
    BY <2>5, <1>k DEF InsertSignature, Goto, At, WritingPcs, TypeOK
  <2>6. CASE MarkSigned(r)
    <3>1. /\ At(r, "mark") /\ batch' = batch /\ status' = status
          /\ req'[r].pc \in {"sign", "commit"}
          /\ req'[r].sess = req[r].sess /\ req'[r].seen = req[r].seen
          /\ \A q \in Slots : q # r => req'[q] = req[q]
      BY <2>6 DEF MarkSigned, TypeOK
    <3> HIDE DEF Copied
    <3> QED
      BY <3>1, <1>k DEF At, WritingPcs
  <2> QED
    BY <1>2, <2>1, <2>2, <2>3, <2>4, <2>5, <2>6 DEF SignerStep
<1>3. CASE FinalizeStep(r)
  BY <1>3, <1>t, <1>g DEF FinalizeStep, FinalizeRead, FinalizeWrite, At, WritingPcs
<1>4. CASE Abort(r)
  BY <1>4, <1>i DEF Abort
<1> HIDE DEF Copied
<1> QED
  BY <1>1, <1>2, <1>3, <1>4 DEF HandlerMoves

\* A step that leaves no sweep at work takes no copies, and one of a sweep
\* that is at work spoils none.
LEMMA SweepKeepsCopies ==
    ASSUME TypeOK, NEW w \in Sweepers, SweepStep(w) \/ SweepAbort(w)
    PROVE  /\ req' = req
           /\ w \in BusySweepers \/ w \in BusySweepers'
           /\ \A v \in Sweepers : v # w => batch'[v] = batch[v]
           /\ \A s \in Sessions :
                 batch'[w][s] # "none" =>
                    /\ status'[s] = status[s]
                    /\ batch'[w][s] \in {status[s], batch[w][s]}
           /\ w \notin BusySweepers => status' = status
<1>1. CASE SweepRead(w)
  <2> DEFINE due == {s \in Sessions : Lapsed(s)}
             copy == [s \in Sessions |-> IF s \in due THEN status[s] ELSE "none"]
  <2>1. due # {} /\ batch' = [batch EXCEPT ![w] = copy] /\ req' = req /\ status' = status
    BY <1>1 DEF SweepRead, rowVars
  <2>2. batch'[w] = copy /\ \A v \in Sweepers : v # w => batch'[v] = batch[v]
    BY <2>1 DEF TypeOK
  <2>3. copy # NoBatch
    <3>1. PICK s \in due : TRUE
      BY <2>1
    <3>2. copy[s] # "none" /\ NoBatch[s] = "none"
      BY DEF Lapsed, Open, NoBatch
    <3> QED
      BY <3>2
  <2> QED
    BY <2>1, <2>2, <2>3 DEF BusySweepers
<1>2. CASE SweepWrite(w)
  <2>1. PICK t \in Sessions : /\ batch[w][t] # "none" /\ SetStatus(t, "expired")
                              /\ batch' = [batch EXCEPT ![w][t] = "none"] /\ req' = req
    BY <1>2 DEF SweepWrite
  <2>2. /\ \A s \in Sessions : s # t => status'[s] = status[s] /\ batch'[w][s] = batch[w][s]
        /\ batch'[w][t] = "none"
        /\ \A v \in Sweepers : v # w => batch'[v] = batch[v]
    BY <2>1 DEF SetStatus, TypeOK
  <2>3. batch[w] # NoBatch
    BY <2>1 DEF NoBatch
  <2> QED
    BY <2>1, <2>2, <2>3 DEF BusySweepers
<1>3. CASE SweepThrow(w) \/ SweepAbort(w)
  <2>1. /\ batch' = [batch EXCEPT ![w] = NoBatch] /\ req' = req /\ status' = status
        /\ batch[w] # NoBatch
    BY <1>3 DEF SweepThrow, SweepAbort, NoBatch, rowVars
  <2>2. /\ \A s \in Sessions : batch'[w][s] = "none"
        /\ \A v \in Sweepers : v # w => batch'[v] = batch[v]
    BY <2>1 DEF NoBatch, TypeOK
  <2> QED
    BY <2>1, <2>2 DEF BusySweepers
<1> QED
  BY <1>1, <1>2, <1>3 DEF SweepStep

LEMMA SerialStep ==
    ASSUME TypeOK, TypeOK', SignedInv, SerialInv, Next, OneAtATime'
    PROVE  SerialInv'
<1>1. LoneWorker
  BY Alone DEF SerialInv
<1>2. LoneWorker'
  BY Alone, PTL
<1>3. ASSUME NEW r \in Slots, HandlerMoves(r)
      PROVE  SerialInv'
  <2>1. /\ batch' = batch
        /\ r \in BusySlots \/ r \in BusySlots'
        /\ \A q \in Slots : q # r => req'[q] = req[q]
        /\ req'[r].pc \in WritingPcs =>
              /\ status' = status
              /\ \/ req'[r].seen = status[req'[r].sess]
                 \/ /\ req[r].pc \in WritingPcs
                    /\ req'[r].sess = req[r].sess /\ req'[r].seen = req[r].seen
        /\ req'[r].pc = "save_fields" =>
              \/ status'[req'[r].sess] = "in_progress"
              \/ At(r, "save_fields") /\ status' = status /\ req'[r].sess = req[r].sess
    BY <1>3, MoveKeepsCopy DEF SignedInv, BusySlots, At
  <2>2. \A q \in Slots : q \in BusySlots' => q = r
    BY <1>1, <1>2, <2>1 DEF LoneWorker, BusySlots, At
  <2>3. BusySweepers' = {}
    BY <1>1, <1>2, <2>1 DEF LoneWorker, BusySweepers
  <2>4. ASSUME NEW s \in Sessions, NEW q \in Slots, req'[q].sess = s,
               req'[q].pc \in WritingPcs
        PROVE  req'[q].seen = status'[s]
    <3>1. q = r
      BY <2>2, <2>4 DEF BusySlots, At, WritingPcs
    <3>2. CASE req'[r].seen = status[req'[r].sess]
      BY <2>1, <2>4, <3>1, <3>2
    <3>3. CASE /\ req[r].pc \in WritingPcs
               /\ req'[r].sess = req[r].sess /\ req'[r].seen = req[r].seen
      <4>1. req[r].seen = status[s]
        BY <2>4, <3>1, <3>3 DEF SerialInv, AllCurrent, Writers
      <4> QED
        BY <2>1, <2>4, <3>1, <3>3, <4>1
    <3> QED
      BY <2>1, <2>4, <3>1, <3>2, <3>3
  <2>5. \A s \in Sessions, w \in Sweepers : batch'[w][s] = "none"
    BY <2>3 DEF BusySweepers, NoBatch
  <2>6. \A s \in Sessions : AllCurrent(s)'
    BY <2>4, <2>5 DEF AllCurrent, Writers, Sweeping
  <2>7. ASSUME NEW q \in Slots, At(q, "save_fields")'
        PROVE  status'[req'[q].sess] = "in_progress"
    <3>1. q = r
      BY <2>2, <2>7 DEF BusySlots, At
    <3> QED
      BY <2>1, <2>7, <3>1 DEF SerialInv, At
  <2> QED
    BY <2>6, <2>7 DEF SerialInv
<1>4. ASSUME NEW w \in Sweepers, SweepStep(w) \/ SweepAbort(w)
      PROVE  SerialInv'
  <2>1. /\ req' = req
        /\ w \in BusySweepers \/ w \in BusySweepers'
        /\ \A v \in Sweepers : v # w => batch'[v] = batch[v]
        /\ \A s \in Sessions :
              batch'[w][s] # "none" =>
                 /\ status'[s] = status[s]
                 /\ batch'[w][s] \in {status[s], batch[w][s]}
    BY <1>4, SweepKeepsCopies
  <2>2. BusySlots' = {}
    BY <1>1, <1>2, <2>1 DEF LoneWorker, BusySlots, At
  <2>3. \A v \in BusySweepers' : v = w
    BY <1>1, <1>2, <2>1 DEF LoneWorker, BusySweepers
  <2>4. ASSUME NEW s \in Sessions, NEW v \in Sweepers, batch'[v][s] # "none"
        PROVE  batch'[v][s] = status'[s]
    <3>1. batch'[v] # NoBatch
      BY <2>4 DEF NoBatch
    <3>2. v = w
      BY <2>3, <3>1 DEF BusySweepers, NoBatch
    <3>3. batch[w][s] # "none" => batch[w][s] = status[s]
      BY DEF SerialInv, AllCurrent, Sweeping
    <3> QED
      BY <2>1, <2>4, <3>2, <3>3
  <2>5. \A q \in Slots : req'[q].pc = "idle"
    BY <2>2 DEF BusySlots, At
  <2>6. \A s \in Sessions : AllCurrent(s)'
    BY <2>4, <2>5 DEF AllCurrent, Writers, Sweeping, WritingPcs
  <2> QED
    BY <2>5, <2>6 DEF SerialInv, At
<1>5. ASSUME NEW s \in Sessions, Elapse(s)
      PROVE  SerialInv'
  BY <1>5 DEF Elapse, rowVars, SerialInv, AllCurrent, Writers, Sweeping, At
<1> QED
  BY <1>3, <1>4, <1>5 DEF Next, HandlerMoves

LEMMA SerialRuns == SerialSpec => Spec
<1>1. [SerialNext]_vars => [Next]_vars
  BY DEF SerialNext
<1> QED
  BY <1>1, PTL DEF SerialSpec, Spec

LEMMA SerialInductive == SerialSpec => []SerialInv
<1>1. Init => SerialInv
  <2> SUFFICES ASSUME Init
               PROVE  SerialInv
    OBVIOUS
  <2>1. \A r \in Slots : req[r] = Idle /\ ~At(r, "save_fields") /\ At(r, "idle")
    BY DEF Init, Idle, At
  <2>2. BusySlots = {} /\ BusySweepers = {}
    BY <2>1 DEF BusySlots, BusySweepers, Init
  <2>3. OneAtATime
    BY <2>2, FS_EmptySet DEF OneAtATime
  <2>4. \A s \in Sessions : Writers(s) = {} /\ Sweeping(s) = {}
    BY <2>1 DEF Writers, Sweeping, WritingPcs, Init, NoBatch, At
  <2> QED
    BY <2>1, <2>3, <2>4 DEF SerialInv, AllCurrent
<1>2. TypeOK /\ TypeOK' /\ SignedInv /\ SerialInv /\ [SerialNext]_vars => SerialInv'
  <2>1. CASE UNCHANGED vars
    BY <2>1 DEF vars, SerialInv, OneAtATime, BusySlots, BusySweepers, AllCurrent,
                Writers, Sweeping, At
  <2> QED
    BY <2>1, SerialStep DEF SerialNext
<1> QED
  BY <1>1, <1>2, SerialRuns, TypeCorrect, SignedInductive, PTL DEF SerialSpec

\* What the lifecycle sees of a session besides its status.
Needed == [s \in Sessions |-> Required(s)]
SignedBy == [s \in Sessions |-> Signed(s)]

LEMMA NeededStays ==
    ASSUME TypeOK, [Next]_vars
    PROVE  Needed' = Needed
<1>1. \A s \in Sessions : Required(s)' = Required(s)
  BY Monotone
<1> QED
  BY <1>1 DEF Needed

\* A status written alone is a move, and one written with the revocation of
\* the link a withdrawal.
LEMMA MoveMaps ==
    ASSUME TypeOK, [Next]_vars, NEW s \in Sessions, NEW from, NEW to,
           status[s] \in from, SetStatus(s, to), UNCHANGED <<revoked, sigs>>
    PROVE  Lifecycle!Move(s, from, to)
<1>1. Needed' = Needed /\ SignedBy' = SignedBy
  BY NeededStays DEF SignedBy, Signed
<1> QED
  BY <1>1 DEF Lifecycle!Move, SetStatus, Needed, SignedBy

LEMMA WithdrawMaps ==
    ASSUME TypeOK, [Next]_vars, NEW s \in Sessions,
           NEW to \in {"cancelled", "declined", "expired"},
           status[s] \in {"created", "sent", "viewed", "in_progress"},
           to = "declined" => status[s] \in {"viewed", "in_progress"},
           SetStatus(s, to), Revoke(s), UNCHANGED sigs
    PROVE  Lifecycle!Withdraw(s, to)
<1>1. Needed' = Needed /\ SignedBy' = SignedBy
  BY NeededStays DEF SignedBy, Signed
<1> QED
  BY <1>1 DEF Lifecycle!Withdraw, SetStatus, Revoke, Needed, SignedBy

\* A step that writes neither a status nor a signature is none of the
\* lifecycle's.
LEMMA StutterMaps ==
    ASSUME TypeOK, [Next]_vars, UNCHANGED <<status, revoked, sigs>>
    PROVE  UNCHANGED Lifecycle!lifecycleVars
<1>1. Needed' = Needed /\ SignedBy' = SignedBy
  BY NeededStays DEF SignedBy, Signed
<1> QED
  BY <1>1 DEF Lifecycle!lifecycleVars, Needed, SignedBy

LEMMA SignMaps ==
    ASSUME TypeOK, [Next]_vars, NEW s \in Sessions, NEW p \in Required(s),
           status[s] \in {"viewed", "in_progress"},
           sigs' = [sigs EXCEPT ![s][p] = @ + 1], UNCHANGED <<status, revoked>>
    PROVE  Lifecycle!Sign(s) \/ UNCHANGED Lifecycle!lifecycleVars
<1>0. p \in Roles
  BY DEF Required, Roles
<1>1. sigs[s] \in [Roles -> 0 .. MaxSignatures] /\ sigs[s][p] \in Nat
  BY <1>0, SigningAssumption DEF TypeOK
<1>2. \A t \in Sessions : t # s => sigs'[t] = sigs[t]
  BY DEF TypeOK
<1>3. sigs'[s][p] = sigs[s][p] + 1 /\ \A q \in Roles : q # p => sigs'[s][q] = sigs[s][q]
  BY <1>0, <1>1 DEF TypeOK
<1>4. Signed(s)' = Signed(s) \cup {p}
  BY <1>0, <1>1, <1>3 DEF Signed
<1>5. \A t \in Sessions : t # s => Signed(t)' = Signed(t)
  BY <1>2 DEF Signed
<1>6. SignedBy' = [SignedBy EXCEPT ![s] = @ \cup {p}]
  BY <1>4, <1>5 DEF SignedBy
<1>7. Needed' = Needed /\ Needed[s] = Required(s) /\ SignedBy[s] = Signed(s)
  BY NeededStays DEF Needed, SignedBy
<1>8. CASE p \in Signed(s)
  <2>1. SignedBy' = SignedBy
    BY <1>6, <1>7, <1>8 DEF SignedBy
  <2> QED
    BY <1>7, <2>1 DEF Lifecycle!lifecycleVars, Needed, SignedBy
<1>9. CASE p \notin Signed(s)
  <2>1. p \in Needed[s] \ SignedBy[s]
    BY <1>7, <1>9
  <2> QED
    BY <1>6, <1>7, <2>1 DEF Lifecycle!Sign, Needed, SignedBy
<1> QED
  BY <1>8, <1>9

\* Every step of handlers that run one after the other is one of the
\* lifecycle, or none.
LEMMA LifecycleStep ==
    ASSUME TypeOK, SignedInv, ReadInv, SerialInv, Next
    PROVE  Lifecycle!Next \/ UNCHANGED Lifecycle!lifecycleVars
<1> USE DEF rowVars, peopleVars
<1>n. [Next]_vars
  OBVIOUS
<1>1. ASSUME NEW s \in Sessions,
             \/ Lifecycle!Create(s) \/ Lifecycle!Send(s) \/ Lifecycle!View(s)
             \/ Lifecycle!Progress(s) \/ Lifecycle!Sign(s) \/ Lifecycle!Submit(s)
             \/ Lifecycle!Complete(s)
             \/ \E to \in {"cancelled", "declined", "expired"} : Lifecycle!Withdraw(s, to)
      PROVE  Lifecycle!Next
  BY <1>1 DEF Lifecycle!Next
<1>2. ASSUME NEW r \in Slots, NEW l \in WritingPcs, At(r, l)
      PROVE  /\ req[r].sess \in Sessions
             /\ status[req[r].sess] \in Sees(l)
             /\ HandlerInv(r) /\ ReadHolds(r)
  <2>1. HandlerInv(r) /\ ReadHolds(r)
    BY DEF SignedInv, ReadInv
  <2>2. req[r].sess \in Sessions
    BY <1>2, <2>1 DEF HandlerInv, At, WritingPcs
  <2>3. req[r].seen = status[req[r].sess]
    BY <1>2, <2>2 DEF SerialInv, AllCurrent, Writers, At
  <2> QED
    BY <1>2, <2>1, <2>2, <2>3 DEF ReadHolds, At
<1>3. ASSUME NEW r \in Slots, CreateSession(r)
      PROVE  Lifecycle!Next
  <2>1. PICK s \in Sessions : status[s] = "none" /\ SetStatus(s, "created")
                              /\ UNCHANGED <<revoked, sigs>>
    BY <1>3 DEF CreateSession
  <2>2. Lifecycle!Move(s, {"none"}, "created")
    BY <1>n, <2>1, MoveMaps
  <2> QED
    BY <1>1, <2>2 DEF Lifecycle!Create
<1>4. ASSUME NEW r \in Slots, ResendWrite(r)
      PROVE  Lifecycle!Next
  <2>1. /\ req[r].sess \in Sessions /\ status[req[r].sess] \in Sees("resend")
        /\ SetStatus(req[r].sess, "sent") /\ UNCHANGED <<revoked, sigs>>
    BY <1>2, <1>4 DEF ResendWrite, WritingPcs
  <2>2. status[req[r].sess] \in {"created"}
    BY <2>1 DEF Sees, CanTransition, Transitions
  <2>3. Lifecycle!Move(req[r].sess, {"created"}, "sent")
    BY <1>n, <2>1, <2>2, MoveMaps
  <2> QED
    BY <1>1, <2>1, <2>3 DEF Lifecycle!Send
<1>5. ASSUME NEW r \in Slots, CancelWrite(r) \/ ExpireWrite(r) \/ DeclineWrite(r)
      PROVE  Lifecycle!Next
  <2>1. PICK to \in {"cancelled", "declined", "expired"} :
           /\ SetStatus(req[r].sess, to) /\ Revoke(req[r].sess) /\ UNCHANGED sigs
           /\ \/ to = "cancelled" /\ At(r, "cancel")
              \/ to = "expired" /\ At(r, "expire")
              \/ to = "declined" /\ At(r, "decline")
    BY <1>5 DEF CancelWrite, ExpireWrite, DeclineWrite
  <2>2. /\ req[r].sess \in Sessions
        /\ \/ to = "cancelled" /\ status[req[r].sess] \in Sees("cancel")
           \/ to = "expired" /\ status[req[r].sess] \in Sees("expire")
           \/ to = "declined" /\ status[req[r].sess] \in Sees("decline")
    BY <1>2, <2>1 DEF WritingPcs
  <2>3. /\ status[req[r].sess] \in {"created", "sent", "viewed", "in_progress"}
        /\ to = "declined" => status[req[r].sess] \in {"viewed", "in_progress"}
    BY <2>2 DEF Sees, CanTransition, Transitions, Open
  <2>4. Lifecycle!Withdraw(req[r].sess, to)
    BY <1>n, <2>1, <2>2, <2>3, WithdrawMaps
  <2> QED
    BY <1>1, <2>2, <2>4
<1>6. ASSUME NEW r \in Slots, OpenWrite(r)
      PROVE  Lifecycle!Next
  <2>1. /\ req[r].sess \in Sessions /\ status[req[r].sess] \in {"created", "sent"}
        /\ SetStatus(req[r].sess, "viewed") /\ UNCHANGED <<revoked, sigs>>
    BY <1>2, <1>6 DEF OpenWrite, WritingPcs, Sees
  <2>2. Lifecycle!Move(req[r].sess, {"created", "sent"}, "viewed")
    BY <1>n, <2>1, MoveMaps
  <2> QED
    BY <1>1, <2>1, <2>2 DEF Lifecycle!View
<1>7. ASSUME NEW r \in Slots, SaveWrite(r)
      PROVE  Lifecycle!Next \/ UNCHANGED Lifecycle!lifecycleVars
  <2>1. /\ req[r].sess \in Sessions /\ status[req[r].sess] \in {"viewed", "in_progress"}
        /\ SetStatus(req[r].sess, "in_progress") /\ UNCHANGED <<revoked, sigs>>
    BY <1>2, <1>7 DEF SaveWrite, WritingPcs, Sees
  <2>2. CASE status[req[r].sess] = "viewed"
    <3>1. Lifecycle!Move(req[r].sess, {"viewed"}, "in_progress")
      BY <1>n, <2>1, <2>2, MoveMaps
    <3> QED
      BY <1>1, <2>1, <3>1 DEF Lifecycle!Progress
  <2>3. CASE status[req[r].sess] = "in_progress"
    <3>1. status' = status
      BY <2>1, <2>3 DEF SetStatus, TypeOK
    <3> QED
      BY <1>n, <2>1, <3>1, StutterMaps
  <2> QED
    BY <2>1, <2>2, <2>3
<1>8. ASSUME NEW r \in Slots, InsertSignature(r)
      PROVE  Lifecycle!Next \/ UNCHANGED Lifecycle!lifecycleVars
  <2>1. /\ At(r, "sign") /\ UNCHANGED <<status, revoked>>
        /\ sigs' = [sigs EXCEPT ![req[r].sess][NextToSign(r)] = @ + 1]
    BY <1>8 DEF InsertSignature
  <2>2. /\ req[r].sess \in Sessions /\ status[req[r].sess] \in {"viewed", "in_progress"}
        /\ HandlerInv(r) /\ ReadHolds(r)
    BY <1>2, <2>1 DEF WritingPcs, Sees
  <2>3. NextToSign(r) \in Required(req[r].sess)
    <3>1. /\ req[r].todo # {} /\ req[r].todo \subseteq Roles
          /\ req[r].todo \subseteq Required(req[r].sess)
      BY <2>1, <2>2 DEF HandlerInv, ReadHolds, At
    <3> QED
      BY <3>1 DEF NextToSign, Roles
  <2>4. Lifecycle!Sign(req[r].sess) \/ UNCHANGED Lifecycle!lifecycleVars
    BY <1>n, <2>1, <2>2, <2>3, SignMaps
  <2> QED
    BY <1>1, <2>2, <2>4
<1>9. ASSUME NEW r \in Slots, CompleteWrite(r)
      PROVE  Lifecycle!Next
  <2>1. /\ At(r, "commit") /\ SetStatus(req[r].sess, "processing")
        /\ UNCHANGED <<revoked, sigs>>
    BY <1>9 DEF CompleteWrite
  <2>2. /\ req[r].sess \in Sessions /\ status[req[r].sess] \in {"viewed", "in_progress"}
        /\ HandlerInv(r)
    BY <1>2, <2>1 DEF WritingPcs, Sees
  <2>3. Required(req[r].sess) \subseteq Signed(req[r].sess)
    BY <2>1, <2>2 DEF HandlerInv, At, Claims, AllSigned
  <2>4. Lifecycle!Move(req[r].sess, {"viewed", "in_progress"}, "processing")
    BY <1>n, <2>1, <2>2, MoveMaps
  <2>5. Lifecycle!Submit(req[r].sess)
    BY <2>2, <2>3, <2>4 DEF Lifecycle!Submit
  <2> QED
    BY <1>1, <2>2, <2>5
<1>10. ASSUME NEW r \in Slots, FinalizeWrite(r)
       PROVE  Lifecycle!Next
  <2>1. /\ req[r].sess \in Sessions /\ status[req[r].sess] \in {"processing"}
        /\ SetStatus(req[r].sess, "completed") /\ UNCHANGED <<revoked, sigs>>
    BY <1>2, <1>10 DEF FinalizeWrite, WritingPcs, Sees
  <2>2. Lifecycle!Move(req[r].sess, {"processing"}, "completed")
    BY <1>n, <2>1, MoveMaps
  <2> QED
    BY <1>1, <2>1, <2>2 DEF Lifecycle!Complete
<1>11. ASSUME NEW w \in Sweepers, SweepWrite(w)
       PROVE  Lifecycle!Next
  <2>1. PICK s \in Sessions :
           /\ batch[w][s] # "none" /\ CanTransition(batch[w][s], "expired")
           /\ SetStatus(s, "expired") /\ Revoke(s) /\ UNCHANGED sigs
    BY <1>11 DEF SweepWrite
  <2>2. batch[w][s] = status[s]
    BY <2>1 DEF SerialInv, AllCurrent, Sweeping
  <2>3. status[s] \in {"created", "sent", "viewed", "in_progress"}
    BY <2>1, <2>2 DEF CanTransition, Transitions
  <2>4. Lifecycle!Withdraw(s, "expired")
    BY <1>n, <2>1, <2>3, WithdrawMaps
  <2> QED
    BY <1>1, <2>4
<1>12. \/ UNCHANGED <<status, revoked, sigs>>
       \/ \E r \in Slots :
             \/ CreateSession(r) \/ ResendWrite(r) \/ CancelWrite(r) \/ ExpireWrite(r)
             \/ DeclineWrite(r) \/ OpenWrite(r) \/ SaveWrite(r) \/ InsertSignature(r)
             \/ CompleteWrite(r) \/ FinalizeWrite(r)
       \/ \E w \in Sweepers : SweepWrite(w)
  BY ZenonT(60)
     DEF Next, StaffStep, SignerStep, FinalizeStep, SweepStep,
         CreateSigner, CreateGuardian, Audit, Invite, Announce, ResendRead,
         CancelRead, ExpireRead, OpenRead, SaveRead, SaveField, CompleteRead,
         CompleteAgain, MarkSigned, DeclineRead, DeclinePeople, FinalizeRead,
         Abort, SweepRead, SweepThrow, SweepAbort, Elapse
<1>13. CASE UNCHANGED <<status, revoked, sigs>>
  BY <1>n, <1>13, StutterMaps
<1> QED
  BY <1>3, <1>4, <1>5, <1>6, <1>7, <1>8, <1>9, <1>10, <1>11, <1>12, <1>13

LEMMA LifecycleStarts == Init => Lifecycle!Init
<1> SUFFICES ASSUME Init
             PROVE  Lifecycle!Init
  OBVIOUS
<1>1. \A s \in Sessions : Required(s) \in {{"signer"}, {"signer", "guardian"}}
  BY DEF Required, Roles
<1>2. Needed \in [Sessions -> {{"signer"}, {"signer", "guardian"}}]
  BY <1>1 DEF Needed
<1>3. \A s \in Sessions : Signed(s) = {}
  BY DEF Init, Signed
<1>4. SignedBy = [s \in Sessions |-> {}]
  BY <1>3 DEF SignedBy
<1> QED
  BY <1>2, <1>4 DEF Lifecycle!Init, Init, Needed, SignedBy

\* Requests and sweeps that do not overlap implement the lifecycle, for any
\* number of sessions, handlers and fields: nothing is submitted unsigned,
\* and a submitted session is not withdrawn any more.
THEOREM SerialImplementsLifecycle == SerialSpec => ImplementsLifecycle
<1>1. Init => Lifecycle!Init
  BY LifecycleStarts
<1>2. TypeOK /\ SignedInv /\ ReadInv /\ SerialInv /\ [SerialNext]_vars
        => [Lifecycle!Next]_(Lifecycle!lifecycleVars)
  <2>1. TypeOK /\ UNCHANGED vars => UNCHANGED Lifecycle!lifecycleVars
    BY StutterMaps DEF vars, rowVars, peopleVars
  <2> QED
    BY <2>1, LifecycleStep DEF SerialNext
<1> QED
  BY <1>1, <1>2, SerialRuns, TypeCorrect, SignedInductive, ReadInductive,
     SerialInductive, PTL
     DEF SerialSpec, ImplementsLifecycle, Lifecycle!Spec
=============================================================================

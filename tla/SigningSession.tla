--------------------------- MODULE SigningSession ---------------------------
(***************************************************************************)
(* SigningService (packages/signing/src/service.ts) as concurrent request  *)
(* handlers over one database.                                             *)
(*                                                                         *)
(* D1 offers no transaction and the service opens none, so every await on  *)
(* the database is a step of its own and handlers interleave between any   *)
(* two of them.  A handler reads its session row once, decides from that   *)
(* copy, and later writes the row by id alone: the copy may be stale.      *)
(* A slot stands for one handler in progress, a sweeper for one run of     *)
(* expireOverdue.  A handler may also die between two steps (a thrown      *)
(* database error, a killed isolate): see Abort.                           *)
(***************************************************************************)
EXTENDS SigningStatus, Naturals, FiniteSets

CONSTANTS
    Sessions,        \* ids of the sessions that may be created
    NoSession,       \* the session of a slot that serves no request
    Slots,           \* handlers that may be in progress at the same time
    Sweepers,        \* runs of expireOverdue that may overlap
    Fields,          \* field keys of the agreement's schema
    RequiredFields,  \* those validateSubmittedFields insists on
    Logged,          \* the audit events whose presence the model remembers
    MaxSignatures    \* bound on signature rows per participant

Roles == {"signer", "guardian"}

\* Audit event types, without their "signing_session." prefix.
Events == {"created", "sent", "cancelled", "viewed", "completed", "declined",
           "finalized"}

ASSUME SigningAssumption ==
    /\ NoSession \notin Sessions
    /\ RequiredFields \subseteq Fields
    /\ Logged \subseteq Events
    /\ MaxSignatures \in Nat \ {0}

VARIABLES
    status,     \* signing_sessions.status, "none" before the row exists
    revoked,    \* signing_sessions.token_revoked_at is set
    overdue,    \* the clock has passed token_expires_at
    minor,      \* the guardian policy applies to the session's customer
    issued,     \* the raw token has left the service
    person,     \* signing_participants.status by role, "absent" without a row
    sigs,       \* rows of signatures by role
    responses,  \* keys of the session's field_responses rows
    audited,    \* audit events recorded for the session, of those Logged
    announced,  \* webhook events enqueued for the session
    req,        \* what each slot is doing
    batch       \* what each sweeper read and has not handled yet

rowVars == <<status, revoked>>
peopleVars == <<person, sigs>>
logVars == <<audited, announced>>
vars == <<status, revoked, overdue, minor, issued, person, sigs, responses,
          audited, announced, req, batch>>

Pcs == {"idle", "create_signer", "create_guardian", "resend", "cancel",
        "expire", "open", "save", "save_fields", "sign", "mark", "commit",
        "decline", "decline_people", "finalize", "audit", "invite",
        "announce"}

Idle == [pc |-> "idle", sess |-> NoSession, seen |-> "created",
         todo |-> {}, event |-> "created"]

NoBatch == [s \in Sessions |-> "none"]

\* The type invariant: the shape of the tables and of the handlers' locals.
TypeOK ==
    /\ status \in [Sessions -> Status \cup {"none"}]
    /\ revoked \in [Sessions -> BOOLEAN]
    /\ overdue \in [Sessions -> BOOLEAN]
    /\ minor \in [Sessions -> BOOLEAN]
    /\ issued \in [Sessions -> BOOLEAN]
    /\ person \in [Sessions ->
                     [Roles -> {"absent", "pending", "signed", "declined"}]]
    /\ sigs \in [Sessions -> [Roles -> 0 .. MaxSignatures]]
    /\ responses \in [Sessions -> SUBSET (Fields \cup Roles)]
    /\ audited \in [Sessions -> SUBSET Logged]
    /\ announced \in [Sessions -> SUBSET Events]
    /\ req \in [Slots -> [pc : Pcs, sess : Sessions \cup {NoSession},
                          seen : Status, todo : SUBSET (Fields \cup Roles),
                          event : Events]]
    /\ batch \in [Sweepers -> [Sessions -> Status \cup {"none"}]]

Init ==
    /\ status = [s \in Sessions |-> "none"]
    /\ revoked = [s \in Sessions |-> FALSE]
    /\ overdue = [s \in Sessions |-> FALSE]
    /\ minor \in [Sessions -> BOOLEAN]
    /\ issued = [s \in Sessions |-> FALSE]
    /\ person = [s \in Sessions |-> [p \in Roles |-> "absent"]]
    /\ sigs = [s \in Sessions |-> [p \in Roles |-> 0]]
    /\ responses = [s \in Sessions |-> {}]
    /\ audited = [s \in Sessions |-> {}]
    /\ announced = [s \in Sessions |-> {}]
    /\ req = [r \in Slots |-> Idle]
    /\ batch = [w \in Sweepers |-> NoBatch]

-----------------------------------------------------------------------------
(* Vocabulary shared by the handlers.                                      *)

Present(s) == {p \in Roles : person[s][p] # "absent"}
Signed(s) == {p \in Roles : sigs[s][p] > 0}

\* Who has to sign: the signer always, a guardian when the policy applies.
Required(s) == IF minor[s] THEN Roles ELSE {"signer"}

At(r, label) == req[r].pc = label

\* A free slot takes a request for session s and reads the session's row.
Take(r, s, label, todo, event) ==
    /\ At(r, "idle")
    /\ req' = [req EXCEPT ![r] =
                 [pc |-> label, sess |-> s, seen |-> status[s],
                  todo |-> todo, event |-> event]]

Goto(r, label) == req' = [req EXCEPT ![r].pc = label]

\* The handler returns.
Return(r) == req' = [req EXCEPT ![r] = Idle]

\* UPDATE signing_sessions SET status = st WHERE id = s: no test of the
\* current status.
SetStatus(s, st) == status' = [status EXCEPT ![s] = st]
Revoke(s) == revoked' = [revoked EXCEPT ![s] = TRUE]

-----------------------------------------------------------------------------
(* createSession, and the part of POST /v1/signing/sessions after it.      *)

CreateSession(r) ==
    \E s \in Sessions :
        /\ status[s] = "none"
        /\ At(r, "idle")
        /\ SetStatus(s, "created")
        /\ req' = [req EXCEPT ![r] = [pc |-> "create_signer", sess |-> s,
                                      seen |-> "created", todo |-> {},
                                      event |-> "created"]]
        /\ UNCHANGED <<revoked, overdue, minor, issued, peopleVars,
                       responses, logVars, batch>>

\* Adds the row of participant p, pending, to the session of slot r.
InsertParticipant(r, p) ==
    person' = [person EXCEPT ![req[r].sess][p] = "pending"]

\* Mutant: the guardian branch of createSession is lost.
CreateSignerOnly(r) ==
    /\ At(r, "create_signer")
    /\ InsertParticipant(r, "signer")
    /\ Goto(r, "audit")
    /\ UNCHANGED <<rowVars, overdue, minor, issued, sigs, responses, logVars,
                   batch>>

CreateSigner(r) ==
    /\ At(r, "create_signer")
    /\ InsertParticipant(r, "signer")
    /\ Goto(r, IF minor[req[r].sess] THEN "create_guardian" ELSE "audit")
    /\ UNCHANGED <<rowVars, overdue, minor, issued, sigs, responses, logVars,
                   batch>>

CreateGuardian(r) ==
    /\ At(r, "create_guardian")
    /\ InsertParticipant(r, "guardian")
    /\ Goto(r, "audit")
    /\ UNCHANGED <<rowVars, overdue, minor, issued, sigs, responses, logVars,
                   batch>>

\* The audit call every handler ends with.  createSession and complete
\* return to a route that goes on to hand out or announce the session.
Audit(r) ==
    /\ At(r, "audit")
    /\ audited' = [audited EXCEPT ![req[r].sess] =
                   @ \cup ({req[r].event} \cap Logged)]
    /\ \/ req[r].event = "created" /\ Goto(r, "invite")
       \/ req[r].event = "completed" /\ Goto(r, "announce")
       \/ req[r].event \notin {"created", "completed"} /\ Return(r)
    /\ UNCHANGED <<rowVars, overdue, minor, issued, peopleVars, responses,
                   announced, batch>>

\* The invitation with the signer's link is queued (or the link is about to
\* be returned): from here on somebody may hold the token.
Invite(r) ==
    /\ At(r, "invite")
    /\ issued' = [issued EXCEPT ![req[r].sess] = TRUE]
    /\ Goto(r, "announce")
    /\ UNCHANGED <<rowVars, overdue, minor, peopleVars, responses, logVars,
                   batch>>

\* webhooks.enqueueEvent of the create and complete routes.
Announce(r) ==
    /\ At(r, "announce")
    /\ announced' = [announced EXCEPT ![req[r].sess] = @ \cup {req[r].event}]
    /\ Return(r)
    /\ UNCHANGED <<rowVars, overdue, minor, issued, peopleVars, responses,
                   audited, batch>>

-----------------------------------------------------------------------------
(* resend and cancel: read the row, assertTransition, write by id, audit.  *)

\* Mutant: assertTransition is forgotten.
AnyTarget(s, to) == status[s] # "none" /\ to \in Status

StaffTarget(s, to) == status[s] # "none" /\ CanTransition(status[s], to)

ResendRead(r) ==
    /\ \E s \in Sessions :
          StaffTarget(s, "sent") /\ Take(r, s, "resend", {}, "sent")
    /\ UNCHANGED <<rowVars, overdue, minor, issued, peopleVars, responses,
                   logVars, batch>>

ResendWrite(r) ==
    /\ At(r, "resend")
    /\ SetStatus(req[r].sess, "sent")
    /\ Goto(r, "audit")
    /\ UNCHANGED <<revoked, overdue, minor, issued, peopleVars, responses,
                   logVars, batch>>

CancelRead(r) ==
    /\ \E s \in Sessions :
          StaffTarget(s, "cancelled") /\ Take(r, s, "cancel", {}, "cancelled")
    /\ UNCHANGED <<rowVars, overdue, minor, issued, peopleVars, responses,
                   logVars, batch>>

\* Mutant: cancel forgets token_revoked_at.
CancelKeepsLink(r) ==
    /\ At(r, "cancel")
    /\ SetStatus(req[r].sess, "cancelled")
    /\ Goto(r, "audit")
    /\ UNCHANGED <<revoked, overdue, minor, issued, peopleVars, responses,
                   logVars, batch>>

CancelWrite(r) ==
    /\ At(r, "cancel")
    /\ SetStatus(req[r].sess, "cancelled")
    /\ Revoke(req[r].sess)
    /\ Goto(r, "audit")
    /\ UNCHANGED <<overdue, minor, issued, peopleVars, responses, logVars,
                   batch>>

-----------------------------------------------------------------------------
(* resolveByToken: every signer request starts here.                       *)

\* Mutant: the expiry lists stop at sent.
LapsedUnseen(s) == overdue[s] /\ status[s] \in {"created", "sent"}

Lapsed(s) == overdue[s] /\ status[s] \in Open

\* The token is known, its row exists and is not revoked.
Resolves(s) == issued[s] /\ ~revoked[s]

\* What the rest of the handler sees: a session whose link has not lapsed.
Admits(s) == Resolves(s) /\ ~Lapsed(s)

\* Lazy expiry: the request finds an open session past its deadline.
ExpireRead(r) ==
    /\ \E s \in Sessions :
          Resolves(s) /\ Lapsed(s) /\ Take(r, s, "expire", {}, "created")
    /\ UNCHANGED <<rowVars, overdue, minor, issued, peopleVars, responses,
                   logVars, batch>>

ExpireWrite(r) ==
    /\ At(r, "expire")
    /\ SetStatus(req[r].sess, "expired")
    /\ Revoke(req[r].sess)
    /\ Return(r)
    /\ UNCHANGED <<overdue, minor, issued, peopleVars, responses, logVars,
                   batch>>

-----------------------------------------------------------------------------
(* openByToken.  On viewed, processing and completed it only builds the    *)
(* view; on anything but created and sent it throws.                       *)

\* Mutant: re-opening runs the transition again.
ReopenRead(r) ==
    /\ \E s \in Sessions :
          /\ Admits(s)
          /\ status[s] \in {"created", "sent", "viewed", "in_progress"}
          /\ Take(r, s, "open", {}, "viewed")
    /\ UNCHANGED <<rowVars, overdue, minor, issued, peopleVars, responses,
                   logVars, batch>>

OpenRead(r) ==
    /\ \E s \in Sessions :
          /\ Admits(s)
          /\ status[s] \in {"created", "sent"}
          /\ Take(r, s, "open", {}, "viewed")
    /\ UNCHANGED <<rowVars, overdue, minor, issued, peopleVars, responses,
                   logVars, batch>>

OpenWrite(r) ==
    /\ At(r, "open")
    /\ SetStatus(req[r].sess, "viewed")
    /\ Goto(r, "audit")
    /\ UNCHANGED <<revoked, overdue, minor, issued, peopleVars, responses,
                   logVars, batch>>

-----------------------------------------------------------------------------
(* saveProgress.                                                           *)

SaveRead(r) ==
    /\ \E s \in Sessions, values \in SUBSET Fields :
          /\ Admits(s)
          /\ status[s] \in {"viewed", "in_progress"}
          /\ Take(r, s, "save", values, "viewed")
    /\ UNCHANGED <<rowVars, overdue, minor, issued, peopleVars, responses,
                   logVars, batch>>

SaveWrite(r) ==
    /\ At(r, "save")
    /\ SetStatus(req[r].sess, "in_progress")
    /\ IF req[r].todo = {} THEN Return(r) ELSE Goto(r, "save_fields")
    /\ UNCHANGED <<revoked, overdue, minor, issued, peopleVars, responses,
                   logVars, batch>>

\* One turn of the upsert loop.  The lookup and the insert are one step: when
\* another handler inserts the same key in between, the unique index makes
\* the insert throw, which leaves what Abort leaves.
SaveField(r) ==
    /\ At(r, "save_fields")
    /\ \E f \in req[r].todo :
          /\ responses' = [responses EXCEPT ![req[r].sess] = @ \cup {f}]
          /\ IF req[r].todo = {f}
             THEN Return(r)
             ELSE req' = [req EXCEPT ![r].todo = @ \ {f}]
    /\ UNCHANGED <<rowVars, overdue, minor, issued, peopleVars, logVars,
                   batch>>

-----------------------------------------------------------------------------
(* complete.                                                               *)

\* The checks between resolveByToken and the first write: consent, the
\* required fields, and a usable signature for every participant row.
Acceptable(s, values, captures) ==
    /\ RequiredFields \subseteq values
    /\ "signer" \in Present(s)
    /\ Present(s) \subseteq captures

\* Mutant: the participant is marked before the signature is inserted.
CompleteMarkFirst(r) ==
    /\ \E s \in Sessions, values \in SUBSET Fields, captures \in SUBSET Roles :
          /\ Admits(s)
          /\ status[s] \in {"viewed", "in_progress"}
          /\ Acceptable(s, values, captures)
          /\ Take(r, s, "mark", Present(s), "completed")
    /\ UNCHANGED <<rowVars, overdue, minor, issued, peopleVars, responses,
                   logVars, batch>>

\* Mutant: a repeated submission is not recognised as already finalizing.
CompleteTwice(r) ==
    /\ \E s \in Sessions, values \in SUBSET Fields, captures \in SUBSET Roles :
          /\ Admits(s)
          /\ status[s] \in {"viewed", "in_progress", "processing"}
          /\ Acceptable(s, values, captures)
          /\ Take(r, s, "sign", Present(s), "completed")
    /\ UNCHANGED <<rowVars, overdue, minor, issued, peopleVars, responses,
                   logVars, batch>>

\* The field and consent loops of complete leave no trace in the model: an
\* existing response keeps its key, and the inserts of absent responses and
\* of the consent rows build a query that is never executed.
CompleteRead(r) ==
    /\ \E s \in Sessions, values \in SUBSET Fields, captures \in SUBSET Roles :
          /\ Admits(s)
          /\ status[s] \in {"viewed", "in_progress"}
          /\ Acceptable(s, values, captures)
          /\ Take(r, s, "sign", Present(s), "completed")
    /\ UNCHANGED <<rowVars, overdue, minor, issued, peopleVars, responses,
                   logVars, batch>>

\* already_finalizing: nothing is written, but the route enqueues the
\* completion webhook again.
CompleteAgain(r) ==
    /\ \E s \in Sessions :
          /\ Admits(s)
          /\ status[s] \in {"processing", "completed"}
          /\ Take(r, s, "announce", {}, "completed")
    /\ UNCHANGED <<rowVars, overdue, minor, issued, peopleVars, responses,
                   logVars, batch>>

\* signatureRows is ordered: the signer first, then the guardian.
NextToSign(r) == IF "signer" \in req[r].todo THEN "signer" ELSE "guardian"

InsertSignature(r) ==
    LET s == req[r].sess
        p == NextToSign(r)
    IN  /\ At(r, "sign")
        /\ sigs[s][p] < MaxSignatures
        /\ sigs' = [sigs EXCEPT ![s][p] = @ + 1]
        /\ Goto(r, "mark")
        /\ UNCHANGED <<rowVars, overdue, minor, issued, person, responses,
                       logVars, batch>>

MarkSigned(r) ==
    LET p == NextToSign(r)
        rest == req[r].todo \ {p}
    IN  /\ At(r, "mark")
        /\ person' = [person EXCEPT ![req[r].sess][p] = "signed"]
        /\ req' = [req EXCEPT ![r].todo = rest,
                              ![r].pc = IF rest = {} THEN "commit" ELSE "sign"]
        /\ UNCHANGED <<rowVars, overdue, minor, issued, sigs, responses,
                       logVars, batch>>

CompleteWrite(r) ==
    /\ At(r, "commit")
    /\ SetStatus(req[r].sess, "processing")
    /\ Goto(r, "audit")
    /\ UNCHANGED <<revoked, overdue, minor, issued, peopleVars, responses,
                   logVars, batch>>

-----------------------------------------------------------------------------
(* decline.                                                                *)

DeclineRead(r) ==
    /\ \E s \in Sessions :
          /\ Admits(s)
          /\ status[s] \in {"viewed", "in_progress"}
          /\ CanTransition(status[s], "declined")
          /\ Take(r, s, "decline", {}, "declined")
    /\ UNCHANGED <<rowVars, overdue, minor, issued, peopleVars, responses,
                   logVars, batch>>

DeclineWrite(r) ==
    /\ At(r, "decline")
    /\ SetStatus(req[r].sess, "declined")
    /\ Revoke(req[r].sess)
    /\ Goto(r, "decline_people")
    /\ UNCHANGED <<overdue, minor, issued, peopleVars, responses, logVars,
                   batch>>

\* Every participant row of the session, signed ones included.
DeclinePeople(r) ==
    LET s == req[r].sess
    IN  /\ At(r, "decline_people")
        /\ person' = [person EXCEPT ![s] =
                        [p \in Roles |-> IF p \in Present(s) THEN "declined"
                                         ELSE "absent"]]
        /\ Goto(r, "audit")
        /\ UNCHANGED <<rowVars, overdue, minor, issued, sigs, responses,
                       logVars, batch>>

-----------------------------------------------------------------------------
(* finalizeSession, the seam a worker calls without rendering a document.  *)

FinalizeRead(r) ==
    /\ \E s \in Sessions :
          status[s] = "processing" /\ Take(r, s, "finalize", {}, "finalized")
    /\ UNCHANGED <<rowVars, overdue, minor, issued, peopleVars, responses,
                   logVars, batch>>

FinalizeWrite(r) ==
    /\ At(r, "finalize")
    /\ SetStatus(req[r].sess, "completed")
    /\ Goto(r, "audit")
    /\ UNCHANGED <<revoked, overdue, minor, issued, peopleVars, responses,
                   logVars, batch>>

\* A handler dies between two steps and leaves what it has written so far.
Abort(r) ==
    /\ ~At(r, "idle")
    /\ Return(r)
    /\ UNCHANGED <<rowVars, overdue, minor, issued, peopleVars, responses,
                   logVars, batch>>

-----------------------------------------------------------------------------
(* expireOverdue.                                                          *)

SweepRead(w) ==
    LET due == {s \in Sessions : Lapsed(s)}
    IN  /\ batch[w] = NoBatch
        /\ due # {}
        /\ batch' = [batch EXCEPT ![w] =
                       [s \in Sessions |-> IF s \in due THEN status[s]
                                           ELSE "none"]]
        /\ UNCHANGED <<rowVars, overdue, minor, issued, peopleVars, responses,
                       logVars, req>>

SweepWrite(w) ==
    /\ \E s \in Sessions :
          /\ batch[w][s] # "none"
          /\ CanTransition(batch[w][s], "expired")
          /\ SetStatus(s, "expired")
          /\ Revoke(s)
          /\ batch' = [batch EXCEPT ![w][s] = "none"]
    /\ UNCHANGED <<overdue, minor, issued, peopleVars, responses, logVars,
                   req>>

\* assertTransition throws out of the loop: the rest of the batch is dropped.
SweepThrow(w) ==
    /\ \E s \in Sessions : /\ batch[w][s] # "none"
                           /\ ~CanTransition(batch[w][s], "expired")
    /\ batch' = [batch EXCEPT ![w] = NoBatch]
    /\ UNCHANGED <<rowVars, overdue, minor, issued, peopleVars, responses,
                   logVars, req>>

\* The worker process dies in the middle of a run.
SweepAbort(w) ==
    /\ batch[w] # NoBatch
    /\ batch' = [batch EXCEPT ![w] = NoBatch]
    /\ UNCHANGED <<rowVars, overdue, minor, issued, peopleVars, responses,
                   logVars, req>>

\* token_expires_at passes.
Elapse(s) ==
    /\ status[s] # "none"
    /\ ~overdue[s]
    /\ overdue' = [overdue EXCEPT ![s] = TRUE]
    /\ UNCHANGED <<rowVars, minor, issued, peopleVars, responses, logVars,
                   req, batch>>

-----------------------------------------------------------------------------

StaffStep(r) ==
    \/ CreateSession(r) \/ CreateSigner(r) \/ CreateGuardian(r)
    \/ Audit(r) \/ Invite(r) \/ Announce(r)
    \/ ResendRead(r) \/ ResendWrite(r)
    \/ CancelRead(r) \/ CancelWrite(r)

SignerStep(r) ==
    \/ ExpireRead(r) \/ ExpireWrite(r)
    \/ OpenRead(r) \/ OpenWrite(r)
    \/ SaveRead(r) \/ SaveWrite(r) \/ SaveField(r)
    \/ CompleteRead(r) \/ CompleteAgain(r)
    \/ InsertSignature(r) \/ MarkSigned(r) \/ CompleteWrite(r)
    \/ DeclineRead(r) \/ DeclineWrite(r) \/ DeclinePeople(r)

FinalizeStep(r) == FinalizeRead(r) \/ FinalizeWrite(r)

SweepStep(w) == SweepRead(w) \/ SweepWrite(w) \/ SweepThrow(w)

Next ==
    \/ \E r \in Slots : StaffStep(r) \/ SignerStep(r) \/ FinalizeStep(r)
                        \/ Abort(r)
    \/ \E w \in Sweepers : SweepStep(w) \/ SweepAbort(w)
    \/ \E s \in Sessions : Elapse(s)

Spec == Init /\ [][Next]_vars

-----------------------------------------------------------------------------
(* Properties.                                                             *)

\* A session that is processing or completed carries a signature row of
\* everybody who has to sign: of the signer, and of a guardian whenever the
\* customer is a minor under the template's policy.  complete enforces it on
\* a copy of the participants, createSession by inserting their rows before
\* the token leaves the service.
SignedBeforeProcessing ==
    \A s \in Sessions :
        status[s] \in {"processing", "completed"} => Required(s) \subseteq Signed(s)

\* Whatever the log or a webhook says of a finished signing is true even when
\* another handler has overwritten the status since: the signatures exist.
AnnouncedMeansSigned ==
    \A s \in Sessions :
        ({"completed", "finalized"} \cap (audited[s] \cup announced[s])) # {}
            => Required(s) \subseteq Signed(s)

\* A participant is shown as signed only once the signature row is there.
MarkedMeansSigned ==
    \A s \in Sessions, p \in Roles : person[s][p] = "signed" => p \in Signed(s)

\* Both: nothing that is shown or said of a signature precedes it.
ClaimsMatchSignatures == AnnouncedMeansSigned /\ MarkedMeansSigned

\* The link of a session that was cancelled, declined or expired is dead.
DeadLinkIsRevoked ==
    \A s \in Sessions :
        status[s] \in {"cancelled", "declined", "expired"} => revoked[s]

\* What complete is documented to persist: the response to every required
\* field and a consent row (named after its role here) of every signatory.
EvidenceIsPersisted ==
    \A s \in Sessions :
        status[s] = "processing" => RequiredFields \cup Required(s) \subseteq responses[s]

\* A submitted session is retried until it is finalized: it leaves processing
\* only for completed or failed.
SubmissionIsNeverLost ==
    [][\A s \in Sessions :
          status[s] = "processing"
              => status'[s] \in {"processing", "completed", "failed"}]_vars

\* Handlers that may still write the status of session s.
WritingPcs == {"resend", "cancel", "expire", "open", "save", "sign", "mark",
               "commit", "decline", "finalize"}
Writers(s) == {r \in Slots : req[r].sess = s /\ req[r].pc \in WritingPcs}
Sweeping(s) == {w \in Sweepers : batch[w][s] # "none"}

Settled(s) == /\ status[s] \in Terminal
              /\ Writers(s) = {} /\ Sweeping(s) = {}

\* Terminal is final once the handlers that were in flight have returned: no
\* request, sweep or finalization that starts later can touch the status.
SettledIsFinal ==
    [][\A s \in Sessions :
          Settled(s) => Settled(s)' /\ status'[s] = status[s]]_vars

\* Handlers past the step at which they read session s and not yet past their
\* last write to its status or its evidence.
EvidenceWriters(s) ==
    {r \in Slots : /\ req[r].sess = s
                   /\ req[r].pc \notin {"idle", "audit", "invite", "announce",
                                       "finalize"}}

Submitted(s) == /\ status[s] \in {"processing", "completed"}
                /\ EvidenceWriters(s) = {} /\ Sweeping(s) = {}

\* A submission is frozen once the handlers that were in flight when it was
\* accepted have returned: no later save, second submission, decline, cancel
\* or sweep adds a response or a signature, marks a participant or takes the
\* session back.  Those in flight still may: a save past its check does.
EvidenceIsFrozen ==
    [][\A s \in Sessions :
          Submitted(s) => /\ Submitted(s)'
                          /\ sigs'[s] = sigs[s]
                          /\ responses'[s] = responses[s]
                          /\ person'[s] = person[s]]_vars

\* The copies held by the handlers in flight all agree with the row.
AllCurrent(s) == /\ \A r \in Writers(s) : req[r].seen = status[s]
                 /\ \A w \in Sweeping(s) : batch[w][s] = status[s]

\* Steps of the code that TRANSITIONS does not list: openByToken takes
\* created through sent in memory, complete takes viewed through in_progress
\* in memory, saveProgress rewrites in_progress, and lazy expiry ends an
\* in_progress session without asking assertTransition.
CodeSteps == {<<"none", "created">>, <<"created", "viewed">>,
              <<"viewed", "processing">>, <<"in_progress", "expired">>}

\* As long as no handler holds a stale copy, the status only moves along the
\* transition table and the four steps above.
FreshWritesFollowTable ==
    [][\A s \in Sessions :
          AllCurrent(s) /\ status'[s] # status[s]
              => <<status[s], status'[s]>> \in Transitions \cup CodeSteps]_vars
=============================================================================

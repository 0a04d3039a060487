--------------------------- MODULE DocumentAccess ---------------------------
(***************************************************************************)
(* What happens to a document once it is filed: download tokens and        *)
(* downloads, the public verification page, and voiding                    *)
(* (packages/documents/src/service.ts, apps/api/src/routes/documents.ts).  *)
(*                                                                         *)
(* Each handler is several statements, with a read of the object storage   *)
(* among them, and may fail or die before any.  get restricts a request to *)
(* documents of its own organization, so that one organization is enough.  *)
(* Of the access log only the downloads are counted.                       *)
(***************************************************************************)
EXTENDS Naturals, FiniteSets

CONSTANTS
    Papers,       \* ids of documents
    Tokens,       \* download tokens
    Reasons,      \* why a document may be voided
    NoReason,
    Clerks,       \* handlers that may be in progress
    MaxServed     \* bound on the downloads of a document

ASSUME AccessAssumption ==
    /\ NoReason \notin Reasons
    /\ MaxServed \in Nat
    /\ IsFiniteSet(Clerks)

VARIABLES
    paper,     \* the documents: filed or not, void or not, and why
    object,    \* the signed PDF in the storage
    token,     \* per token: its document, and whether its holder has it
    access,    \* document_access_events: document and action
    logged,    \* how many of them are downloads, by document
    voidings,  \* document.voided audit events: document and reason
    served,    \* history: downloads that left the server, by document
    shown,     \* history: the documents that a verification page called void
    clerk      \* what each handler is doing

accessVars == <<paper, object, token, access, logged, voidings, served, shown, clerk>>

NoPaper == 0
Unused == [paper |-> NoPaper, state |-> "unused"]
AtRest == [pc |-> "idle", paper |-> NoPaper, token |-> NoPaper,
           reason |-> NoReason, status |-> "absent", intact |-> FALSE,
           damaged |-> FALSE]

PaperRow == [status : {"absent", "completed", "void"}, reason : Reasons \cup {NoReason}]
TokenRow == [paper : Papers \cup {NoPaper}, state : {"unused", "stored", "out", "expired"}]
AccessEvent ==
    [paper : Papers, action : {"voided", "download_token_issued", "downloaded", "viewed"}]
ClerkState ==
    [pc : {"idle", "void", "void_audit", "void_access", "issued", "fetch",
           "download_access", "serve", "verify", "page"},
     paper : Papers \cup {NoPaper}, token : Tokens \cup {NoPaper},
     reason : Reasons \cup {NoReason}, status : {"absent", "completed", "void"},
     intact : BOOLEAN, damaged : BOOLEAN]

\* The type invariant of documents and their handlers.
AccessTypeOK ==
    /\ paper \in [Papers -> PaperRow]
    /\ object \in [Papers -> {"missing", "intact", "altered"}]
    /\ token \in [Tokens -> TokenRow]
    /\ access \subseteq AccessEvent
    /\ logged \in [Papers -> Nat]
    /\ voidings \subseteq [paper : Papers, reason : Reasons]
    /\ served \in [Papers -> Nat]
    /\ shown \subseteq Papers
    /\ clerk \in [Clerks -> ClerkState]

AccessInit ==
    /\ paper = [d \in Papers |-> [status |-> "absent", reason |-> NoReason]]
    /\ object = [d \in Papers |-> "missing"]
    /\ token = [t \in Tokens |-> Unused]
    /\ access = {}
    /\ logged = [d \in Papers |-> 0]
    /\ voidings = {}
    /\ served = [d \in Papers |-> 0]
    /\ shown = {}
    /\ clerk = [h \in Clerks |-> AtRest]

Doing(h, pc) == clerk[h].pc = pc
Rest(h) == clerk' = [clerk EXCEPT ![h] = AtRest]
Filed(d) == paper[d].status # "absent"

\* recordAccess.
RecordAccess(d, action) ==
    /\ access' = access \cup {[paper |-> d, action |-> action]}
    /\ logged' = IF action = "downloaded" THEN [logged EXCEPT ![d] = @ + 1]
                 ELSE logged

\* finalize files the document, its PDF first.
FilePaper(d) ==
    /\ ~Filed(d)
    /\ paper' = [paper EXCEPT ![d].status = "completed"]
    /\ object' = [object EXCEPT ![d] = "intact"]
    /\ UNCHANGED <<token, access, logged, voidings, served, shown, clerk>>

\* Somebody rewrites or removes the PDF behind the service's back.
DamageObject(d) ==
    /\ object[d] = "intact"
    /\ \E state \in {"altered", "missing"} : object' = [object EXCEPT ![d] = state]
    /\ UNCHANGED <<paper, token, access, logged, voidings, served, shown, clerk>>

\* What a storage adapter's get may return: the bytes, or null, which it
\* makes of every error.
StorageGet(d) == {object[d], "missing"}

-----------------------------------------------------------------------------
(* void.                                                                   *)

\* The reason is required.
VoidRead(h, d, reason) ==
    /\ Doing(h, "idle")
    /\ Filed(d)
    /\ clerk' = [clerk EXCEPT ![h] =
           [AtRest EXCEPT !.pc = "void", !.paper = d, !.reason = reason]]
    /\ UNCHANGED <<paper, object, token, access, logged, voidings, served, shown>>

\* Mutant: the update is built and never executed.
VoidWriteUnexecuted(h) ==
    /\ Doing(h, "void")
    /\ clerk' = [clerk EXCEPT ![h].pc = "void_audit"]
    /\ UNCHANGED <<paper, object, token, access, logged, voidings, served, shown>>

\* Whether it was void before is not looked at; the bytes are left alone.
VoidWrite(h) ==
    LET w == clerk[h]
    IN /\ Doing(h, "void")
       /\ paper' = [paper EXCEPT ![w.paper] = [status |-> "void", reason |-> w.reason]]
       /\ clerk' = [clerk EXCEPT ![h].pc = "void_audit"]
       /\ UNCHANGED <<object, token, access, logged, voidings, served, shown>>

VoidAudit(h) ==
    LET w == clerk[h]
    IN /\ Doing(h, "void_audit")
       /\ voidings' = voidings \cup {[paper |-> w.paper, reason |-> w.reason]}
       /\ clerk' = [clerk EXCEPT ![h].pc = "void_access"]
       /\ UNCHANGED <<paper, object, token, access, logged, served, shown>>

VoidAccess(h) ==
    /\ Doing(h, "void_access")
    /\ RecordAccess(clerk[h].paper, "voided")
    /\ Rest(h)
    /\ UNCHANGED <<paper, object, token, voidings, served, shown>>

-----------------------------------------------------------------------------
(* issueDownloadToken and downloadByToken.                                 *)

IssueToken(h, d, t) ==
    /\ Doing(h, "idle")
    /\ Filed(d)
    /\ token[t] = Unused
    /\ token' = [token EXCEPT ![t] = [paper |-> d, state |-> "stored"]]
    /\ clerk' = [clerk EXCEPT ![h] =
           [AtRest EXCEPT !.pc = "issued", !.paper = d, !.token = t]]
    /\ UNCHANGED <<paper, object, access, logged, voidings, served, shown>>

\* The issue is logged and only then is the token handed out.
IssueAccess(h) ==
    /\ Doing(h, "issued")
    /\ RecordAccess(clerk[h].paper, "download_token_issued")
    /\ token' = [token EXCEPT ![clerk[h].token].state =
           IF @ = "stored" THEN "out" ELSE @]
    /\ Rest(h)
    /\ UNCHANGED <<paper, object, voidings, served, shown>>

\* Five minutes pass.
ExpireToken(t) ==
    /\ token[t].state \in {"stored", "out"}
    /\ token' = [token EXCEPT ![t].state = "expired"]
    /\ UNCHANGED <<paper, object, access, logged, voidings, served, shown, clerk>>

\* A token may be used again until it expires, void or not.
DownloadRead(h, t) ==
    /\ Doing(h, "idle")
    /\ token[t].state = "out"
    /\ clerk' = [clerk EXCEPT ![h] = [AtRest EXCEPT
           !.pc = "fetch", !.paper = token[t].paper, !.token = t]]
    /\ UNCHANGED <<paper, object, token, access, logged, voidings, served, shown>>

\* Whatever the storage has is taken as it is; without an object there is no
\* download (GiveUp).
DownloadFetch(h) ==
    /\ Doing(h, "fetch")
    /\ \E found \in StorageGet(clerk[h].paper) : found # "missing"
    /\ clerk' = [clerk EXCEPT ![h].pc = "download_access"]
    /\ UNCHANGED <<paper, object, token, access, logged, voidings, served, shown>>

\* Mutant: the bytes are on their way before the access is logged.
DownloadAccessLate(h) ==
    /\ Doing(h, "download_access")
    /\ logged[clerk[h].paper] < MaxServed
    /\ \/ RecordAccess(clerk[h].paper, "downloaded")
       \/ UNCHANGED <<access, logged>>
    /\ clerk' = [clerk EXCEPT ![h].pc = "serve"]
    /\ UNCHANGED <<paper, object, token, voidings, served, shown>>

DownloadAccess(h) ==
    /\ Doing(h, "download_access")
    /\ logged[clerk[h].paper] < MaxServed
    /\ RecordAccess(clerk[h].paper, "downloaded")
    /\ clerk' = [clerk EXCEPT ![h].pc = "serve"]
    /\ UNCHANGED <<paper, object, token, voidings, served, shown>>

DownloadServe(h) ==
    /\ Doing(h, "serve")
    /\ served' = [served EXCEPT ![clerk[h].paper] = @ + 1]
    /\ Rest(h)
    /\ UNCHANGED <<paper, object, token, access, logged, voidings, shown>>

-----------------------------------------------------------------------------
(* verificationData and the page.                                          *)

\* Whether the PDF was damaged before the page was asked for is kept for the
\* property.
VerifyRead(h, d) ==
    /\ Doing(h, "idle")
    /\ Filed(d)
    /\ clerk' = [clerk EXCEPT ![h] = [AtRest EXCEPT
           !.pc = "verify", !.paper = d, !.status = paper[d].status,
           !.damaged = object[d] # "intact"]]
    /\ UNCHANGED <<paper, object, token, access, logged, voidings, served, shown>>

\* integrity_ok: the bytes hash to what the document's row says; null does
\* not, whether the object is gone or could not be read.
VerifyFetch(h) ==
    /\ Doing(h, "verify")
    /\ \E found \in StorageGet(clerk[h].paper) :
          clerk' = [clerk EXCEPT ![h].pc = "page", ![h].intact = (found = "intact")]
    /\ UNCHANGED <<paper, object, token, access, logged, voidings, served, shown>>

\* The look is logged and the page is sent.
VerifyAnswer(h) ==
    LET w == clerk[h]
    IN /\ Doing(h, "page")
       /\ RecordAccess(w.paper, "viewed")
       /\ shown' = IF w.status = "void" THEN shown \cup {w.paper} ELSE shown
       /\ Rest(h)
       /\ UNCHANGED <<paper, object, token, voidings, served>>

-----------------------------------------------------------------------------

\* The handler fails, for want of the object or otherwise, or dies.
GiveUp(h) ==
    /\ ~Doing(h, "idle")
    /\ Rest(h)
    /\ UNCHANGED <<paper, object, token, access, logged, voidings, served, shown>>

AccessNext ==
    \/ \E d \in Papers : FilePaper(d) \/ DamageObject(d)
    \/ \E t \in Tokens : ExpireToken(t)
    \/ \E h \in Clerks :
          \/ \E d \in Papers :
                \/ \E reason \in Reasons : VoidRead(h, d, reason)
                \/ \E t \in Tokens : IssueToken(h, d, t)
                \/ VerifyRead(h, d)
          \/ \E t \in Tokens : DownloadRead(h, t)
          \/ VoidWrite(h)
          \/ VoidAudit(h)
          \/ VoidAccess(h)
          \/ IssueAccess(h)
          \/ DownloadFetch(h)
          \/ DownloadAccess(h)
          \/ DownloadServe(h)
          \/ VerifyFetch(h)
          \/ VerifyAnswer(h)
          \/ GiveUp(h)

AccessSpec == AccessInit /\ [][AccessNext]_accessVars

-----------------------------------------------------------------------------
(* Properties.                                                             *)

\* No bytes leave unseen: every download that was served is in the access
\* log, and so is the issue of a token for that document, whatever failed
\* or died on the way; the log may only claim more than happened.
DownloadsAreLogged ==
    \A d \in Papers :
        /\ served[d] <= logged[d]
        /\ served[d] > 0 =>
              [paper |-> d, action |-> "download_token_issued"] \in access

\* What the outside is told of a document agrees with it for good: the log
\* has a voiding only if the audit chain has, the chain only if the document
\* is void, a page says void only of such a document, and no page is about to
\* say passed of a PDF that had been damaged before it was asked for.  The
\* converse does not hold: a page says failed of an intact PDF that the
\* storage did not hand out.
TrailsAndPagesAreTrue ==
    /\ \A d \in Papers : [paper |-> d, action |-> "voided"] \in access =>
          \E v \in voidings : v.paper = d
    /\ \A v \in voidings : paper[v.paper].status = "void"
    /\ \A d \in shown : paper[d].status = "void"
    /\ \A h \in Clerks : Doing(h, "page") => ~(clerk[h].intact /\ clerk[h].damaged)

=============================================================================

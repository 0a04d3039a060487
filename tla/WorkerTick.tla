----------------------------- MODULE WorkerTick -----------------------------
(***************************************************************************)
(* The background worker (apps/worker/src/index.ts): runJobsOnce, with the *)
(* document finalization of packages/documents/src/service.ts inside it,   *)
(* against the request handlers of SigningSession.                         *)
(*                                                                         *)
(* A tick lists the processing sessions, finalizes them one by one (each   *)
(* storage put and each database statement is a step), sweeps the lapsed   *)
(* sessions and then fans out document.generated.  Ticks overlap: the Node *)
(* loop starts one every interval without waiting for the last, and the    *)
(* cron trigger of the cloud worker does not wait either.  The deliveries  *)
(* a tick starts with touch none of this state and are left out here: they *)
(* are DeliveryQueue.                                                      *)
(***************************************************************************)
EXTENDS SigningSession, Integers, Sequences

CONSTANTS
    MaxDocuments,   \* bound on the document ids newId() may return
    FinalizeLimit,  \* how many sessions one tick takes on
    MaxFailures     \* bound on thrown errors and killed ticks

ASSUME WorkerAssumption ==
    /\ MaxDocuments \in Nat
    /\ FinalizeLimit \in Nat \ {0}
    /\ MaxFailures \in Nat

VARIABLES
    doc,        \* per document id: its artifacts, its row, its audit link
    tick,       \* per worker: where its tick stands
    fannedOut,  \* documents announced by a document.generated webhook
    failures    \* errors and kills so far

DocIds == 1 .. MaxDocuments

docVars == <<doc, tick, fannedOut, failures>>
allVars == <<vars, docVars>>

TickPcs == {"idle", "next", "snapshot", "put", "count", "insert", "record",
            "link", "complete", "sweep", "fanout"}
FinalizePcs == {"snapshot", "put", "count", "insert", "record", "link",
                "complete"}

\* The artifacts in the order finalize stores them.
Artifacts == <<"source-snapshot.json", "signed.pdf", "certificate.pdf",
               "manifest.json">>

NoDocument == [sess |-> NoSession, stored |-> 0, signers |-> {},
               number |-> 0, trail |-> "none"]
IdleTick == [pc |-> "idle", queue |-> {}, done |-> {}, doc |-> 0,
             number |-> 0]

\* A document row exists once it has its number.
Rows == {d \in DocIds : doc[d].number > 0}
DocumentsOf(s) == {d \in Rows : doc[d].sess = s}

\* The type invariant of the worker and of the documents table.
WorkerTypeOK ==
    /\ doc \in [DocIds -> [sess : Sessions \cup {NoSession},
                           stored : 0 .. Len(Artifacts),
                           signers : SUBSET Roles, number : Nat,
                           trail : {"none", "recorded", "linked"}]]
    /\ tick \in [Sweepers -> [pc : TickPcs, queue : SUBSET Sessions,
                              done : SUBSET Sessions,
                              doc : DocIds \cup {0}, number : Nat]]
    /\ fannedOut \subseteq DocIds
    /\ failures \in 0 .. MaxFailures

WorkerInit ==
    /\ Init
    /\ doc = [d \in DocIds |-> NoDocument]
    /\ tick = [w \in Sweepers |-> IdleTick]
    /\ fannedOut = {}
    /\ failures = 0

TickAt(w, label) == tick[w].pc = label
TickGoto(w, label) == tick' = [tick EXCEPT ![w].pc = label]

-----------------------------------------------------------------------------
(* finalizeProcessing: list, then finalize each.                           *)


Processing == {s \in Sessions : status[s] = "processing"}

\* Ticks that would find nothing to do are left out: they change nothing.
TickStart(w) ==
    /\ TickAt(w, "idle")
    /\ Processing # {} \/ \E s \in Sessions : Lapsed(s)
    /\ \E q \in SUBSET Processing :
          /\ \/ q = Processing /\ Cardinality(q) <= FinalizeLimit
             \/ q # Processing /\ Cardinality(q) = FinalizeLimit
          /\ tick' = [tick EXCEPT ![w] =
                        [IdleTick EXCEPT !.pc = "next", !.queue = q]]
    /\ UNCHANGED <<vars, doc, fannedOut, failures>>

\* finalize reads the session again and takes a fresh document id.  Ids that
\* were never used are all alike: the model takes the least of them.
PickSession(w) ==
    /\ TickAt(w, "next")
    /\ \E s \in tick[w].queue, d \in DocIds :
          /\ status[s] = "processing"
          /\ doc[d].sess = NoSession
          /\ \A e \in 1 .. d - 1 : doc[e].sess # NoSession
          /\ doc' = [doc EXCEPT ![d].sess = s]
          /\ tick' = [tick EXCEPT ![w].pc = "snapshot", ![w].doc = d,
                                  ![w].queue = @ \ {s}]
    /\ UNCHANGED <<vars, fannedOut, failures>>

\* Somebody else has moved the session on since it was listed.
SkipSession(w) ==
    /\ TickAt(w, "next")
    /\ \E s \in tick[w].queue :
          /\ status[s] # "processing"
          /\ tick' = [tick EXCEPT ![w].queue = @ \ {s}]
    /\ UNCHANGED <<vars, doc, fannedOut, failures>>

\* buildEvidenceSnapshot: whose signatures the artifacts will show.
TakeSnapshot(w) ==
    LET d == tick[w].doc
    IN  /\ TickAt(w, "snapshot")
        /\ doc' = [doc EXCEPT ![d].signers = Signed(doc[d].sess)]
        /\ TickGoto(w, "put")
        /\ UNCHANGED <<vars, fannedOut, failures>>

\* Mutant: the manifest is left out.
PutAllButManifest(w) ==
    LET d == tick[w].doc
        n == doc[d].stored + 1
    IN  /\ TickAt(w, "put")
        /\ doc' = [doc EXCEPT ![d].stored = n]
        /\ TickGoto(w, IF n = Len(Artifacts) - 1 THEN "count" ELSE "put")
        /\ UNCHANGED <<vars, fannedOut, failures>>

\* storage.put of the next artifact.
PutArtifact(w) ==
    LET d == tick[w].doc
        n == doc[d].stored + 1
    IN  /\ TickAt(w, "put")
        /\ doc' = [doc EXCEPT ![d].stored = n]
        /\ TickGoto(w, IF n = Len(Artifacts) THEN "count" ELSE "put")
        /\ UNCHANGED <<vars, fannedOut, failures>>

\* nextDocumentNumber: SELECT count(id) of the organization's documents, plus
\* one.  The model is one organization within one calendar year, which is the
\* other half of a document number.
CountDocuments(w) ==
    /\ TickAt(w, "count")
    /\ tick' = [tick EXCEPT ![w].pc = "insert",
                            ![w].number = Cardinality(Rows) + 1]
    /\ UNCHANGED <<vars, doc, fannedOut, failures>>

\* Mutant: no unique index on the document number.
NumberNeverTaken(n) == n \notin Nat

NumberTaken(n) == \E d \in Rows : doc[d].number = n

\* INSERT INTO documents, under the unique index on the document number.
InsertDocument(w) ==
    /\ TickAt(w, "insert")
    /\ ~NumberTaken(tick[w].number)
    /\ doc' = [doc EXCEPT ![tick[w].doc].number = tick[w].number]
    /\ TickGoto(w, "record")
    /\ UNCHANGED <<vars, fannedOut, failures>>

\* Mutant: a refused insert counts as done by somebody else.
RefusedIsDone(w) ==
    /\ TickAt(w, "insert")
    /\ NumberTaken(tick[w].number)
    /\ TickGoto(w, "complete")
    /\ UNCHANGED <<vars, doc, fannedOut, failures>>

\* The insert lost the race for its number: finalize throws, the loop of
\* finalizeProcessing catches it and goes on.
InsertRefused(w) ==
    /\ TickAt(w, "insert")
    /\ NumberTaken(tick[w].number)
    /\ TickGoto(w, "next")
    /\ UNCHANGED <<vars, doc, fannedOut, failures>>

\* audit.record of document.generated.
RecordGenerated(w) ==
    /\ TickAt(w, "record")
    /\ doc' = [doc EXCEPT ![tick[w].doc].trail = "recorded"]
    /\ TickGoto(w, "link")
    /\ UNCHANGED <<vars, fannedOut, failures>>

\* UPDATE documents SET audit_chain_hash.
LinkAudit(w) ==
    /\ TickAt(w, "link")
    /\ doc' = [doc EXCEPT ![tick[w].doc].trail = "linked"]
    /\ TickGoto(w, "complete")
    /\ UNCHANGED <<vars, fannedOut, failures>>

\* UPDATE signing_sessions SET status = completed, whatever it is by now.
CompleteSession(w) ==
    LET s == doc[tick[w].doc].sess
    IN  /\ TickAt(w, "complete")
        /\ SetStatus(s, "completed")
        /\ tick' = [tick EXCEPT ![w].pc = "next", ![w].done = @ \cup {s}]
        /\ UNCHANGED <<revoked, overdue, minor, issued, peopleVars, responses,
                       logVars, req, batch, doc, fannedOut, failures>>

\* Any other error inside finalize, caught by finalizeProcessing.
FinalizeThrows(w) ==
    /\ tick[w].pc \in FinalizePcs
    /\ failures < MaxFailures
    /\ failures' = failures + 1
    /\ TickGoto(w, "next")
    /\ UNCHANGED <<vars, doc, fannedOut>>

-----------------------------------------------------------------------------
(* expireOverdue, then the fan-out.                                        *)

BeginSweep(w) ==
    /\ TickAt(w, "next")
    /\ tick[w].queue = {}
    /\ TickGoto(w, "sweep")
    /\ UNCHANGED <<vars, doc, fannedOut, failures>>

\* The sweep finds sessions to expire and works through them.
SweepSome(w) ==
    /\ TickAt(w, "sweep")
    /\ SweepRead(w) \/ SweepWrite(w)
    /\ IF batch'[w] = NoBatch THEN TickGoto(w, "fanout") ELSE UNCHANGED tick
    /\ UNCHANGED <<doc, fannedOut, failures>>

SweepNone(w) ==
    /\ TickAt(w, "sweep")
    /\ batch[w] = NoBatch
    /\ ~\E s \in Sessions : Lapsed(s)
    /\ TickGoto(w, "fanout")
    /\ UNCHANGED <<vars, doc, fannedOut, failures>>

\* expireOverdue throws, nobody catches it inside the tick: what this tick
\* has finalized is never fanned out.
SweepFails(w) ==
    /\ TickAt(w, "sweep")
    /\ SweepThrow(w)
    /\ tick' = [tick EXCEPT ![w] = IdleTick]
    /\ UNCHANGED <<doc, fannedOut, failures>>

\* One document of the session is looked up and announced.
FanOut(w) ==
    /\ TickAt(w, "fanout")
    /\ \E s \in tick[w].done, d \in Rows :
          /\ doc[d].sess = s
          /\ fannedOut' = fannedOut \cup {d}
          /\ tick' = [tick EXCEPT ![w].done = @ \ {s}]
    /\ UNCHANGED <<vars, doc, failures>>

TickEnd(w) ==
    /\ TickAt(w, "fanout")
    /\ tick[w].done = {}
    /\ tick' = [tick EXCEPT ![w] = IdleTick]
    /\ UNCHANGED <<vars, doc, fannedOut, failures>>

\* The worker is killed in the middle of a tick.
TickKilled(w) ==
    /\ ~TickAt(w, "idle")
    /\ failures < MaxFailures
    /\ failures' = failures + 1
    /\ tick' = [tick EXCEPT ![w] = IdleTick]
    /\ batch' = [batch EXCEPT ![w] = NoBatch]
    /\ UNCHANGED <<rowVars, overdue, minor, issued, peopleVars, responses,
                   logVars, req, doc, fannedOut>>

-----------------------------------------------------------------------------

FinalizeJob(w) ==
    \/ TickStart(w) \/ PickSession(w) \/ SkipSession(w) \/ TakeSnapshot(w)
    \/ PutArtifact(w) \/ CountDocuments(w) \/ InsertDocument(w)
    \/ InsertRefused(w) \/ RecordGenerated(w) \/ LinkAudit(w)
    \/ CompleteSession(w)

SweepJob(w) == BeginSweep(w) \/ SweepSome(w) \/ SweepNone(w) \/ SweepFails(w)

FanOutJob(w) == FanOut(w) \/ TickEnd(w)

WorkerStep(w) == FinalizeJob(w) \/ SweepJob(w) \/ FanOutJob(w)

\* The handlers of the API and the clock.
ApiStep ==
    /\ \/ \E r \in Slots : StaffStep(r) \/ SignerStep(r) \/ Abort(r)
       \/ \E s \in Sessions : Elapse(s)
    /\ UNCHANGED docVars

WorkerNext ==
    \/ ApiStep
    \/ \E w \in Sweepers : WorkerStep(w) \/ FinalizeThrows(w) \/ TickKilled(w)

WorkerSpec == WorkerInit /\ [][WorkerNext]_allVars

\* Ticks are started for ever and run on; requests owe nothing.  That a tick
\* gets as far as finalization supposes that its deliveries do not throw:
\* DeliveryQueue tells when they do.
WorkerFairSpec == WorkerSpec /\ \A w \in Sweepers : WF_allVars(WorkerStep(w))

-----------------------------------------------------------------------------
(* Properties.                                                             *)

\* A completed session has a document whose four artifacts are stored and
\* whose row is tied to the audit chain: the status is written last, and no
\* crash, retry or overlapping tick gets in front of it.
CompletedHasDocument ==
    \A s \in Sessions : status[s] = "completed" =>
        \E d \in DocumentsOf(s) : doc[d].trail = "linked"

\* A row in documents never points at an artifact that is not stored.
RowsPointAtArtifacts ==
    \A d \in Rows : doc[d].stored = Len(Artifacts)

\* What was rendered shows the signature of everybody who had to sign.
DocumentShowsSigners ==
    \A d \in Rows : Required(doc[d].sess) \subseteq doc[d].signers

\* Within a year document numbers are 1, 2, ..., n without a gap and without
\* a duplicate, although they come from a count that may be stale when it is used.
NumbersAreGapless ==
    /\ {doc[d].number : d \in Rows} = 1 .. Cardinality(Rows)
    /\ \A d, e \in Rows : doc[d].number = doc[e].number => d = e

\* What the header of complete and of the worker say: duplicates and retries
\* never create a second signature or a second document.
NothingTwice ==
    \A s \in Sessions :
        /\ \A p \in Roles : sigs[s][p] <= 1
        /\ Cardinality(DocumentsOf(s)) <= 1

=============================================================================

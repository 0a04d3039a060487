------------------------- MODULE WorkerTick_proofs -------------------------
(***************************************************************************)
(* Proofs about WorkerTick, for every number of overlapping ticks, request *)
(* handlers, documents and failures.                                       *)
(***************************************************************************)
EXTENDS WorkerTick, SigningSession_proofs, FiniteSetTheorems

Document == [sess : Sessions \cup {NoSession}, stored : 0 .. Len(Artifacts),
             signers : SUBSET Roles, number : Nat,
             trail : {"none", "recorded", "linked"}]

TickRecord == [pc : TickPcs, queue : SUBSET Sessions, done : SUBSET Sessions,
               doc : DocIds \cup {0}, number : Nat]

\* A document id in use belongs to a session whose signers have all signed.
\* The finalizations that are under way hold different ids.
DocumentInv(d) ==
    /\ doc[d].sess = NoSession => doc[d] = NoDocument
    /\ doc[d].sess # NoSession => AllSigned(doc[d].sess)
    /\ d \in Rows => /\ doc[d].stored = Len(Artifacts)
                     /\ Required(doc[d].sess) \subseteq doc[d].signers

\* What a tick in the middle of finalize may rely on: its document id is in
\* use, and each statement it has executed has left its mark.
TickInv(w) ==
    LET d == tick[w].doc
        pc == tick[w].pc
    IN  pc \in FinalizePcs =>
          /\ d \in DocIds
          /\ doc[d].sess \in Sessions
          /\ pc \in {"snapshot", "put", "count", "insert"} => doc[d].number = 0
          /\ pc \in {"record", "link", "complete"} => d \in Rows
          /\ pc = "snapshot" => doc[d].stored = 0
          /\ pc = "put" => doc[d].stored < Len(Artifacts)
          /\ pc \in {"count", "insert"} => doc[d].stored = Len(Artifacts)
          /\ pc \in {"put", "count", "insert"}
                => Required(doc[d].sess) \subseteq doc[d].signers
          /\ pc = "insert" => tick[w].number \in 1 .. Cardinality(Rows) + 1
          /\ pc = "complete" <=> doc[d].trail = "linked"

DistinctDocuments ==
    \A v, w \in Sweepers :
        /\ v # w
        /\ tick[v].pc \in FinalizePcs
        /\ tick[w].pc \in FinalizePcs
        => tick[v].doc # tick[w].doc

WorkerInv ==
    /\ \A d \in DocIds : DocumentInv(d)
    /\ \A w \in Sweepers : TickInv(w)
    /\ DistinctDocuments
    /\ NumbersAreGapless
    /\ CompletedHasDocument
    /\ \A r \in Slots : ~At(r, "finalize")

-----------------------------------------------------------------------------
(* The worker and the service.                                             *)

\* To the service, every step of a tick but the last statement of finalize is
\* a step of its own sweep, or no step at all.
LEMMA StepSplit ==
    ASSUME TypeOK, [WorkerNext]_allVars
    PROVE  [Next]_vars \/ \E w \in Sweepers : CompleteSession(w)
<1>1. ASSUME ApiStep
      PROVE  Next
  BY <1>1 DEF ApiStep, Next
<1>2. ASSUME NEW w \in Sweepers, FinalizeJob(w)
      PROVE  UNCHANGED vars \/ CompleteSession(w)
  BY <1>2
     DEF FinalizeJob, TickStart, PickSession, SkipSession, TakeSnapshot,
         PutArtifact, CountDocuments, InsertDocument, InsertRefused,
         RecordGenerated, LinkAudit
<1>3. ASSUME NEW w \in Sweepers, SweepJob(w)
      PROVE  [Next]_vars
  BY <1>3 DEF SweepJob, BeginSweep, SweepSome, SweepNone, SweepFails, Next,
              SweepStep
<1>4. ASSUME NEW w \in Sweepers, FanOutJob(w) \/ FinalizeThrows(w)
      PROVE  UNCHANGED vars
  BY <1>4 DEF FanOutJob, FanOut, TickEnd, FinalizeThrows
<1>5. ASSUME NEW w \in Sweepers, TickKilled(w)
      PROVE  [Next]_vars
  <2>1. CASE batch[w] = NoBatch
    <3>1. batch' = batch
      BY <1>5, <2>1 DEF TickKilled, TypeOK
    <3> QED
      BY <1>5, <3>1 DEF TickKilled, vars, rowVars, peopleVars, logVars
  <2>2. CASE batch[w] # NoBatch
    <3>1. SweepAbort(w)
      BY <1>5, <2>2 DEF TickKilled, SweepAbort
    <3> QED
      BY <3>1 DEF Next
  <2> QED
    BY <2>1, <2>2
<1>6. CASE UNCHANGED allVars
  BY <1>6 DEF allVars
<1> QED
  BY <1>1, <1>2, <1>3, <1>4, <1>5, <1>6 DEF WorkerNext, WorkerStep

\* What the last statement of finalize does to the service's state.
LEMMA CompleteEffect ==
    ASSUME TypeOK, NEW w \in Sweepers, TickInv(w), CompleteSession(w)
    PROVE  \E s \in Sessions :
             /\ s = doc[tick[w].doc].sess
             /\ status' = [status EXCEPT ![s] = "completed"]
             /\ UNCHANGED <<revoked, overdue, minor, issued, person, sigs,
                            responses, audited, announced, req, batch>>
  BY DEF CompleteSession, TickInv, TickAt, FinalizePcs, SetStatus,
         peopleVars, logVars

LEMMA ServiceStep ==
    ASSUME TypeOK, SignedInv, WorkerInv, [WorkerNext]_allVars
    PROVE  /\ TypeOK' /\ SignedInv'
           /\ \A s \in Sessions : /\ Required(s)' = Required(s)
                                   /\ Signed(s) \subseteq Signed(s)'
<1>1. CASE [Next]_vars
  BY <1>1, RequestStep, TablesStep, TypeSplit, SignedStep, Monotone
<1>2. CASE \E w \in Sweepers : CompleteSession(w)
  <2>1. PICK w \in Sweepers : CompleteSession(w)
    BY <1>2
  <2>2. TickInv(w)
    BY DEF WorkerInv
  <2>3. PICK s \in Sessions :
           /\ s = doc[tick[w].doc].sess
           /\ status' = [status EXCEPT ![s] = "completed"]
           /\ UNCHANGED <<revoked, overdue, minor, issued, person, sigs,
                          responses, audited, announced, req, batch>>
    BY <2>1, <2>2, CompleteEffect
  <2>4. TypeOK'
    BY <2>3 DEF TypeOK, Status
  <2>5. \A t \in Sessions : /\ Required(t)' = Required(t)
                            /\ Signed(t)' = Signed(t)
                            /\ Present(t)' = Present(t)
    BY <2>3 DEF Required, Signed, Present
  <2>6. AllSigned(s)
    <3>1. TickAt(w, "complete")
      BY <2>1 DEF CompleteSession
    <3>2. tick[w].doc \in DocIds
      BY <2>2, <3>1 DEF TickInv, TickAt, FinalizePcs
    <3>3. DocumentInv(tick[w].doc)
      BY <3>2 DEF WorkerInv
    <3>4. s # NoSession
      BY SigningAssumption
    <3> QED
      BY <2>3, <3>3, <3>4 DEF DocumentInv
  <2>7. SignedBeforeProcessing'
    BY <2>3, <2>5, <2>6
       DEF SignedInv, SignedBeforeProcessing, AllSigned, TypeOK
  <2>8. AnnouncedMeansSigned' /\ MarkedMeansSigned'
    BY <2>3, <2>5 DEF SignedInv, AnnouncedMeansSigned, MarkedMeansSigned
  <2>9. InvitedMeansPresent'
    BY <2>3, <2>5 DEF SignedInv, InvitedMeansPresent, AllPresent
  <2>10. ASSUME NEW r \in Slots
         PROVE  HandlerInv(r)'
    <3>1. req'[r] = req[r] /\ NextToSign(r)' = NextToSign(r)
      BY <2>3 DEF NextToSign
    <3>2. HandlerInv(r)
      BY DEF SignedInv
    <3> QED
      BY <2>5, <3>1, <3>2 DEF HandlerInv, At, AllSigned, AllPresent
  <2> QED
    BY <2>4, <2>5, <2>7, <2>8, <2>9, <2>10 DEF SignedInv
<1> QED
  BY <1>1, <1>2, StepSplit

-----------------------------------------------------------------------------
(* Type correctness of the worker.                                         *)

LEMMA FourArtifacts == Len(Artifacts) = 4
  BY DEF Artifacts

LEMMA RowsFinite ==
    /\ IsFiniteSet(DocIds)
    /\ IsFiniteSet(Rows)
    /\ Cardinality(Rows) \in Nat
<1>1. IsFiniteSet(DocIds)
  BY WorkerAssumption, FS_Interval DEF DocIds
<1>2. Rows \subseteq DocIds
  BY DEF Rows
<1> QED
  BY <1>1, <1>2, FS_Subset, FS_CardinalityType

\* The three ways a tick changes its own record.
LEMMA TickGotoType ==
    ASSUME WorkerTypeOK, NEW w \in Sweepers, NEW l \in TickPcs, TickGoto(w, l)
    PROVE  tick' \in [Sweepers -> TickRecord]
  BY DEF WorkerTypeOK, TickRecord, TickGoto

LEMMA TickIdleType ==
    ASSUME WorkerTypeOK, NEW w \in Sweepers,
           tick' = [tick EXCEPT ![w] = IdleTick]
    PROVE  tick' \in [Sweepers -> TickRecord]
<1>1. IdleTick \in TickRecord
  BY DEF IdleTick, TickRecord, TickPcs
<1> QED
  BY <1>1 DEF WorkerTypeOK, TickRecord

LEMMA WorkerTypeStep ==
    ASSUME WorkerTypeOK, WorkerInv, [WorkerNext]_allVars
    PROVE  WorkerTypeOK'
<1>t. /\ doc \in [DocIds -> Document]
      /\ tick \in [Sweepers -> TickRecord]
      /\ fannedOut \subseteq DocIds
      /\ failures \in 0 .. MaxFailures
  BY DEF WorkerTypeOK, Document, TickRecord
<1>q. ASSUME doc' \in [DocIds -> Document], tick' \in [Sweepers -> TickRecord],
             fannedOut' \subseteq DocIds, failures' \in 0 .. MaxFailures
      PROVE  WorkerTypeOK'
  BY <1>q DEF WorkerTypeOK, Document, TickRecord
<1>p. {"idle", "next", "snapshot", "put", "count", "insert", "record", "link",
       "complete", "sweep", "fanout"} = TickPcs
  BY DEF TickPcs
<1>1. ASSUME NEW w \in Sweepers, TickStart(w)
      PROVE  WorkerTypeOK'
  <2>1. PICK q \in SUBSET Processing :
           tick' = [tick EXCEPT ![w] =
                      [IdleTick EXCEPT !.pc = "next", !.queue = q]]
    BY <1>1 DEF TickStart
  <2>2. [IdleTick EXCEPT !.pc = "next", !.queue = q] \in TickRecord
    BY DEF IdleTick, TickRecord, TickPcs, Processing
  <2> QED
    BY <1>1, <1>t, <1>q, <2>1, <2>2 DEF TickStart
<1>2. ASSUME NEW w \in Sweepers, PickSession(w)
      PROVE  WorkerTypeOK'
  <2>1. PICK s \in Sessions, d \in DocIds :
           /\ doc' = [doc EXCEPT ![d].sess = s]
           /\ tick' = [tick EXCEPT ![w].pc = "snapshot", ![w].doc = d,
                                   ![w].queue = @ \ {s}]
           /\ UNCHANGED <<fannedOut, failures>>
    BY <1>2, <1>t DEF PickSession, TickRecord
  <2>2. [doc[d] EXCEPT !.sess = s] \in Document
    BY <1>t DEF Document
  <2>3. tick[w] \in TickRecord
    BY <1>t
  <2>4. [tick[w] EXCEPT !.pc = "snapshot", !.doc = d, !.queue = @ \ {s}]
           \in TickRecord
    BY <2>3, <1>p DEF TickRecord
  <2>5. doc' \in [DocIds -> Document]
    BY <1>t, <2>1, <2>2
  <2>6. tick' \in [Sweepers -> TickRecord]
    BY <1>t, <2>1, <2>4
  <2> QED
    BY <1>t, <1>q, <2>1, <2>5, <2>6
<1>3. ASSUME NEW w \in Sweepers, SkipSession(w)
      PROVE  WorkerTypeOK'
  <2>1. PICK s : tick' = [tick EXCEPT ![w].queue = @ \ {s}]
    BY <1>3 DEF SkipSession
  <2>2. tick' \in [Sweepers -> TickRecord]
    BY <1>t, <2>1 DEF TickRecord
  <2> QED
    BY <1>3, <1>t, <1>q, <2>2 DEF SkipSession
<1>4. ASSUME NEW w \in Sweepers, TakeSnapshot(w)
      PROVE  WorkerTypeOK'
  <2>1. doc' \in [DocIds -> Document]
    <3>1. doc' = [doc EXCEPT ![tick[w].doc].signers =
                               Signed(doc[tick[w].doc].sess)]
      BY <1>4 DEF TakeSnapshot
    <3>2. Signed(doc[tick[w].doc].sess) \subseteq Roles
      BY DEF Signed
    <3>3. ASSUME NEW d \in DocIds, NEW R \in SUBSET Roles
          PROVE  [doc[d] EXCEPT !.signers = R] \in Document
      BY <1>t DEF Document
    <3>4. doc' = [doc EXCEPT ![tick[w].doc] =
                    [doc[tick[w].doc] EXCEPT !.signers =
                       Signed(doc[tick[w].doc].sess)]]
      BY <3>1
    <3> QED
      BY <1>t, <3>2, <3>3, <3>4
  <2> QED
    BY <1>4, <1>t, <1>q, <1>p, <2>1, TickGotoType DEF TakeSnapshot
<1>5. ASSUME NEW w \in Sweepers, PutArtifact(w)
      PROVE  WorkerTypeOK'
  <2>1. doc' = [doc EXCEPT ![tick[w].doc].stored = @ + 1]
    BY <1>5 DEF PutArtifact
  <2>2. doc[tick[w].doc].stored + 1 \in 0 .. Len(Artifacts)
    <3>1. TickInv(w) /\ tick[w].pc = "put"
      BY <1>5 DEF PutArtifact, TickAt, WorkerInv
    <3>2. tick[w].doc \in DocIds /\ doc[tick[w].doc].stored < Len(Artifacts)
      BY <3>1 DEF TickInv, FinalizePcs
    <3>3. doc[tick[w].doc].stored \in 0 .. Len(Artifacts)
      BY <1>t, <3>2 DEF Document
    <3> QED
      BY <3>2, <3>3, FourArtifacts
  <2>3. doc' \in [DocIds -> Document]
    <3>1. ASSUME tick[w].doc \in DocIds
          PROVE  [doc[tick[w].doc] EXCEPT !.stored = @ + 1] \in Document
      BY <1>t, <2>2, <3>1 DEF Document
    <3> QED
      BY <1>t, <2>1, <3>1
  <2> QED
    BY <1>5, <1>t, <1>q, <1>p, <2>3, TickGotoType DEF PutArtifact
<1>6. ASSUME NEW w \in Sweepers, CountDocuments(w)
      PROVE  WorkerTypeOK'
  <2>1. tick' = [tick EXCEPT ![w].pc = "insert",
                             ![w].number = Cardinality(Rows) + 1]
    BY <1>6 DEF CountDocuments
  <2>2. Cardinality(Rows) + 1 \in Nat
    BY RowsFinite
  <2>3. [tick[w] EXCEPT !.pc = "insert", !.number = Cardinality(Rows) + 1]
           \in TickRecord
    BY <1>t, <2>2, <1>p DEF TickRecord
  <2>4. tick' \in [Sweepers -> TickRecord]
    BY <1>t, <2>1, <2>3
  <2> QED
    BY <1>6, <1>t, <1>q, <2>4 DEF CountDocuments
<1>7. ASSUME NEW w \in Sweepers, InsertDocument(w)
      PROVE  WorkerTypeOK'
  <2>1. tick[w].number \in Nat
    BY <1>t DEF TickRecord
  <2>2. doc' \in [DocIds -> Document]
    <3>1. ASSUME NEW d \in DocIds
          PROVE  [doc[d] EXCEPT !.number = tick[w].number] \in Document
      BY <1>t, <2>1 DEF Document
    <3>2. doc' = [doc EXCEPT ![tick[w].doc].number = tick[w].number]
      BY <1>7 DEF InsertDocument
    <3> QED
      BY <1>t, <3>1, <3>2
  <2> QED
    BY <1>7, <1>t, <1>q, <1>p, <2>2, TickGotoType DEF InsertDocument
<1>8. ASSUME NEW w \in Sweepers, RecordGenerated(w) \/ LinkAudit(w)
      PROVE  WorkerTypeOK'
  <2>1. PICK v \in {"recorded", "linked"} :
           doc' = [doc EXCEPT ![tick[w].doc].trail = v]
    BY <1>8 DEF RecordGenerated, LinkAudit
  <2>2. ASSUME NEW d \in DocIds
        PROVE  [doc[d] EXCEPT !.trail = v] \in Document
    BY <1>t DEF Document
  <2>3. doc' \in [DocIds -> Document]
    BY <1>t, <2>1, <2>2
  <2>4. tick' \in [Sweepers -> TickRecord]
    BY <1>8, <1>t, <1>p, TickGotoType DEF RecordGenerated, LinkAudit
  <2> QED
    BY <1>8, <1>t, <1>q, <2>3, <2>4 DEF RecordGenerated, LinkAudit
<1>9. ASSUME NEW w \in Sweepers, CompleteSession(w)
      PROVE  WorkerTypeOK'
  <2>1. PICK s : /\ s = doc[tick[w].doc].sess
                 /\ tick' = [tick EXCEPT ![w].pc = "next",
                                         ![w].done = @ \cup {s}]
    BY <1>9 DEF CompleteSession
  <2>2. s \in Sessions
    BY <1>9, <2>1 DEF WorkerInv, TickInv, CompleteSession, TickAt, FinalizePcs
  <2>3. [tick[w] EXCEPT !.pc = "next", !.done = @ \cup {s}] \in TickRecord
    BY <1>t, <2>2, <1>p DEF TickRecord
  <2>4. tick' \in [Sweepers -> TickRecord]
    BY <1>t, <2>1, <2>3
  <2> QED
    BY <1>9, <1>t, <1>q, <2>4 DEF CompleteSession
<1>10. ASSUME NEW w \in Sweepers,
              \/ InsertRefused(w) \/ BeginSweep(w) \/ SweepNone(w)
              \/ SweepSome(w) \/ FinalizeThrows(w)
       PROVE  WorkerTypeOK'
  <2>1. tick' \in [Sweepers -> TickRecord]
    BY <1>10, <1>t, <1>p, TickGotoType
       DEF InsertRefused, BeginSweep, SweepNone, SweepSome, FinalizeThrows
  <2>2. UNCHANGED <<doc, fannedOut>>
    BY <1>10 DEF InsertRefused, BeginSweep, SweepNone, SweepSome,
                 FinalizeThrows
  <2>3. failures' \in 0 .. MaxFailures
    BY <1>10, <1>t, WorkerAssumption
       DEF InsertRefused, BeginSweep, SweepNone, SweepSome, FinalizeThrows
  <2> QED
    BY <1>t, <1>q, <2>1, <2>2, <2>3
<1>11. ASSUME NEW w \in Sweepers, SweepFails(w) \/ TickEnd(w) \/ TickKilled(w)
       PROVE  WorkerTypeOK'
  <2>1. tick' \in [Sweepers -> TickRecord]
    BY <1>11, TickIdleType DEF SweepFails, TickEnd, TickKilled
  <2>2. UNCHANGED <<doc, fannedOut>>
    BY <1>11 DEF SweepFails, TickEnd, TickKilled
  <2>3. failures' \in 0 .. MaxFailures
    BY <1>11, <1>t, WorkerAssumption DEF SweepFails, TickEnd, TickKilled
  <2> QED
    BY <1>t, <1>q, <2>1, <2>2, <2>3
<1>12. ASSUME NEW w \in Sweepers, FanOut(w)
       PROVE  WorkerTypeOK'
  <2>1. PICK s \in tick[w].done, d \in Rows :
           /\ fannedOut' = fannedOut \cup {d}
           /\ tick' = [tick EXCEPT ![w].done = @ \ {s}]
    BY <1>12 DEF FanOut
  <2>2. tick' \in [Sweepers -> TickRecord]
    BY <1>t, <2>1 DEF TickRecord
  <2>3. fannedOut' \subseteq DocIds
    BY <1>t, <2>1 DEF Rows
  <2> QED
    BY <1>12, <1>t, <1>q, <2>2, <2>3 DEF FanOut
<1>13. CASE UNCHANGED docVars
  BY <1>13, <1>t, <1>q DEF docVars
<1> QED
  BY <1>1, <1>2, <1>3, <1>4, <1>5, <1>6, <1>7, <1>8, <1>9, <1>10, <1>11,
     <1>12, <1>13
     DEF WorkerNext, WorkerStep, FinalizeJob, SweepJob, FanOutJob, ApiStep,
         allVars

-----------------------------------------------------------------------------
(* Documents and the ticks that write them.                                *)

\* Only the tick that holds a document writes it, and it starts with one
\* nobody holds.
LEMMA DocumentWrites ==
    ASSUME [WorkerNext]_allVars, doc' # doc
    PROVE  \E w \in Sweepers :
             /\ UNCHANGED vars
             /\ \/ PickSession(w) \/ TakeSnapshot(w) \/ PutArtifact(w)
                \/ InsertDocument(w) \/ RecordGenerated(w) \/ LinkAudit(w)
<1>1. ~ApiStep
  BY DEF ApiStep, docVars
<1>2. PICK w \in Sweepers : WorkerStep(w) \/ FinalizeThrows(w) \/ TickKilled(w)
  BY <1>1 DEF WorkerNext, allVars, docVars
<1> QED
  BY <1>2
     DEF WorkerStep, FinalizeJob, SweepJob, FanOutJob, TickStart,
         PickSession, SkipSession, TakeSnapshot, PutArtifact, CountDocuments,
         InsertDocument, InsertRefused, RecordGenerated, LinkAudit,
         CompleteSession, BeginSweep, SweepSome, SweepNone, SweepFails,
         FanOut, TickEnd, FinalizeThrows, TickKilled

\* A row that is there stays, and so do its number and its audit link.
LEMMA DocumentsKept ==
    ASSUME WorkerTypeOK, WorkerInv, [WorkerNext]_allVars, NEW d \in DocIds
    PROVE  /\ doc[d].sess # NoSession => doc'[d].sess = doc[d].sess
           /\ doc[d].number > 0 => doc'[d].number = doc[d].number
           /\ doc[d].trail = "linked" => doc'[d].trail = "linked"
<1>t. doc \in [DocIds -> Document]
  BY DEF WorkerTypeOK, Document
<1>1. CASE doc' = doc
  BY <1>1
<1>2. ASSUME NEW w \in Sweepers, PickSession(w)
      PROVE  /\ doc[d].sess # NoSession => doc'[d].sess = doc[d].sess
             /\ doc'[d].number = doc[d].number
             /\ doc'[d].trail = doc[d].trail
  <2>1. PICK s \in tick[w].queue, e \in DocIds :
           /\ doc[e].sess = NoSession
           /\ doc' = [doc EXCEPT ![e].sess = s]
    BY <1>2 DEF PickSession
  <2> QED
    BY <1>t, <2>1 DEF Document
<1>3. ASSUME NEW w \in Sweepers, TakeSnapshot(w) \/ PutArtifact(w)
      PROVE  /\ doc'[d].sess = doc[d].sess
             /\ doc'[d].number = doc[d].number
             /\ doc'[d].trail = doc[d].trail
  <2>1. CASE TakeSnapshot(w)
    <3>1. PICK x : doc' = [doc EXCEPT ![tick[w].doc].signers = x]
      BY <2>1 DEF TakeSnapshot
    <3> QED
      BY <1>t, <3>1 DEF Document
  <2>2. CASE PutArtifact(w)
    <3>1. PICK x : doc' = [doc EXCEPT ![tick[w].doc].stored = x]
      BY <2>2 DEF PutArtifact
    <3> QED
      BY <1>t, <3>1 DEF Document
  <2> QED
    BY <1>3, <2>1, <2>2
<1>4. ASSUME NEW w \in Sweepers, InsertDocument(w)
      PROVE  /\ doc'[d].sess = doc[d].sess
             /\ doc[d].number > 0 => doc'[d].number = doc[d].number
             /\ doc'[d].trail = doc[d].trail
  <2>1. /\ doc' = [doc EXCEPT ![tick[w].doc].number = tick[w].number]
        /\ tick[w].pc = "insert"
    BY <1>4 DEF InsertDocument, TickAt
  <2>2. doc[tick[w].doc].number = 0
    BY <2>1 DEF WorkerInv, TickInv, FinalizePcs
  <2>3. CASE d = tick[w].doc
    BY <1>t, <2>1, <2>2, <2>3 DEF Document
  <2>4. CASE d # tick[w].doc
    BY <1>t, <2>1, <2>4 DEF Document
  <2> QED
    BY <2>3, <2>4
<1>5. ASSUME NEW w \in Sweepers, RecordGenerated(w) \/ LinkAudit(w)
      PROVE  /\ doc'[d].sess = doc[d].sess
             /\ doc'[d].number = doc[d].number
             /\ doc[d].trail = "linked" => doc'[d].trail = "linked"
  <2>1. PICK x : /\ doc' = [doc EXCEPT ![tick[w].doc].trail = x]
                 /\ x = "linked" \/ tick[w].pc = "record"
    BY <1>5 DEF RecordGenerated, LinkAudit, TickAt
  <2>2. tick[w].pc = "record" => doc[tick[w].doc].trail # "linked"
    BY DEF WorkerInv, TickInv, FinalizePcs
  <2> QED
    BY <1>t, <2>1, <2>2 DEF Document
<1> QED
  BY <1>1, <1>2, <1>3, <1>4, <1>5, DocumentWrites

LEMMA RowsGrow ==
    ASSUME WorkerTypeOK, WorkerInv, [WorkerNext]_allVars
    PROVE  /\ Rows \subseteq Rows'
           /\ Cardinality(Rows) <= Cardinality(Rows')
           /\ Cardinality(Rows') \in Nat
<1>1. Rows \subseteq Rows'
  BY DocumentsKept DEF Rows
<1>2. Rows' \subseteq DocIds
  BY DEF Rows, DocIds
<1>3. IsFiniteSet(Rows')
  BY <1>2, RowsFinite, FS_Subset
<1> QED
  BY <1>1, <1>3, RowsFinite, FS_Subset, FS_CardinalityType

\* A tick's locals are its own.
LEMMA TickOwner ==
    ASSUME WorkerTypeOK, [WorkerNext]_allVars, NEW w \in Sweepers,
           tick'[w] # tick[w]
    PROVE  WorkerStep(w) \/ FinalizeThrows(w) \/ TickKilled(w)
<1>1. ~ApiStep /\ ~UNCHANGED allVars
  BY DEF ApiStep, allVars, docVars
<1>2. PICK v \in Sweepers : WorkerStep(v) \/ FinalizeThrows(v) \/ TickKilled(v)
  BY <1>1 DEF WorkerNext
<1>3. ASSUME v # w
      PROVE  FALSE
  <2>1. tick \in [Sweepers -> TickRecord]
    BY DEF WorkerTypeOK, TickRecord
  <2>2. ~FinalizeJob(v)
    BY <1>3, <2>1
       DEF FinalizeJob, TickStart, PickSession, SkipSession, TakeSnapshot,
           PutArtifact, CountDocuments, InsertDocument, InsertRefused,
           RecordGenerated, LinkAudit, CompleteSession, TickGoto
  <2>3. ~(SweepJob(v) \/ FanOutJob(v) \/ FinalizeThrows(v) \/ TickKilled(v))
    BY <1>3, <2>1
       DEF SweepJob, FanOutJob, BeginSweep, SweepSome, SweepNone, SweepFails,
           FanOut, TickEnd, FinalizeThrows, TickKilled, TickGoto
  <2> QED
    BY <1>2, <2>2, <2>3 DEF WorkerStep
<1> QED
  BY <1>2, <1>3

-----------------------------------------------------------------------------
(* The invariant of the worker is inductive.                               *)

\* A document nobody touches keeps what is known of it.
LEMMA DocumentFrame ==
    ASSUME TypeOK, SignedInv, WorkerTypeOK, WorkerInv, [WorkerNext]_allVars,
           NEW d \in DocIds, doc'[d] = doc[d]
    PROVE  DocumentInv(d)'
<1>1. DocumentInv(d)
  BY DEF WorkerInv
<1>2. doc[d].sess # NoSession => doc[d].sess \in Sessions
  BY DEF WorkerTypeOK
<1>3. doc[d].sess # NoSession =>
        /\ Required(doc[d].sess)' = Required(doc[d].sess)
        /\ AllSigned(doc[d].sess) => AllSigned(doc[d].sess)'
  BY <1>2, ServiceStep DEF AllSigned
<1>4. d \in Rows' <=> d \in Rows
  BY DEF Rows
<1>5. d \in Rows => doc[d].sess # NoSession
  BY <1>1 DEF DocumentInv, Rows, NoDocument
<1> QED
  BY <1>1, <1>3, <1>4, <1>5 DEF DocumentInv, NoDocument

\* A tick that does not move keeps what it relies on: nobody else writes its
\* document, and rows are only added.
LEMMA TickFrame ==
    ASSUME TypeOK, SignedInv, WorkerTypeOK, WorkerInv, [WorkerNext]_allVars,
           NEW w \in Sweepers, tick'[w] = tick[w], ~PutArtifact(w)
    PROVE  TickInv(w)'
<1> SUFFICES ASSUME tick[w].pc \in FinalizePcs
             PROVE  TickInv(w)'
  BY DEF TickInv
<1> DEFINE d == tick[w].doc
<1>1. TickInv(w) /\ d \in DocIds /\ doc[d].sess \in Sessions
  BY DEF WorkerInv, TickInv
<1>2. doc'[d] = doc[d]
  <2> SUFFICES ASSUME doc' # doc PROVE doc'[d] = doc[d]
    OBVIOUS
  <2>t. /\ tick \in [Sweepers -> TickRecord]
        /\ doc \in [DocIds -> Document]
    BY DEF WorkerTypeOK, TickRecord, Document
  <2>1. ASSUME NEW v \in Sweepers, PickSession(v)
        PROVE  doc'[d] = doc[d]
    <3>1. PICK s \in tick[v].queue, e \in DocIds :
                                 /\ doc[e].sess = NoSession
                                 /\ doc' = [doc EXCEPT ![e].sess = s]
      BY <2>1 DEF PickSession
    <3> QED
      BY <1>1, <2>t, <3>1, SigningAssumption
  <2>2. ASSUME NEW v \in Sweepers,
               \/ TakeSnapshot(v) \/ PutArtifact(v) \/ InsertDocument(v)
               \/ RecordGenerated(v) \/ LinkAudit(v)
        PROVE  doc'[d] = doc[d]
    <3>1. v # w
      <4>1. ~TakeSnapshot(w) /\ ~InsertDocument(w)
        BY <2>t DEF TakeSnapshot, InsertDocument, TickAt, TickGoto, TickRecord
      <4>2. ~RecordGenerated(w) /\ ~LinkAudit(w)
        BY <2>t DEF RecordGenerated, LinkAudit, TickAt, TickGoto, TickRecord
      <4> QED
        BY <2>2, <4>1, <4>2
    <3>2. tick[v].pc \in FinalizePcs
      BY <2>2 DEF TakeSnapshot, PutArtifact, InsertDocument, RecordGenerated,
                  LinkAudit, TickAt, FinalizePcs
    <3>3. tick[v].doc # d
      BY <3>1, <3>2 DEF WorkerInv, DistinctDocuments
    <3>4. \A e \in DocIds : e # tick[v].doc => doc'[e] = doc[e]
      <4>1. CASE TakeSnapshot(v)
        BY <2>t, <4>1 DEF TakeSnapshot
      <4>2. CASE PutArtifact(v)
        BY <2>t, <4>2 DEF PutArtifact
      <4>3. CASE InsertDocument(v)
        BY <2>t, <4>3 DEF InsertDocument
      <4>4. CASE RecordGenerated(v)
        BY <2>t, <4>4 DEF RecordGenerated
      <4>5. CASE LinkAudit(v)
        BY <2>t, <4>5 DEF LinkAudit
      <4> QED
        BY <2>2, <4>1, <4>2, <4>3, <4>4, <4>5
    <3> QED
      BY <1>1, <3>3, <3>4
  <2> QED
    BY <2>1, <2>2, DocumentWrites
<1>3. Required(doc[d].sess)' = Required(doc[d].sess)
  <2>1. doc'[d].sess = doc[d].sess
    BY <1>2
  <2> QED
    BY <1>1, <2>1, ServiceStep
<1>4. d \in Rows' <=> d \in Rows
  BY <1>2 DEF Rows
<1>5. tick[w].number \in 1 .. Cardinality(Rows) + 1
        => tick[w].number \in 1 .. Cardinality(Rows') + 1
  BY RowsGrow, RowsFinite
<1> QED
  BY <1>1, <1>2, <1>3, <1>4, <1>5 DEF TickInv

\* What holds of the document a tick is working on.
LEMMA OwnDocument ==
    ASSUME TypeOK, SignedInv, WorkerTypeOK, WorkerInv, [WorkerNext]_allVars,
           NEW w \in Sweepers, tick[w].pc \in FinalizePcs
    PROVE  /\ tick[w].doc \in DocIds
           /\ doc[tick[w].doc] \in Document
           /\ doc[tick[w].doc].sess \in Sessions
           /\ doc[tick[w].doc].sess # NoSession
           /\ DocumentInv(tick[w].doc)
           /\ TickInv(w)
<1>1. TickInv(w)
  BY DEF WorkerInv
<1>2. tick[w].doc \in DocIds /\ doc[tick[w].doc].sess \in Sessions
  BY <1>1 DEF TickInv
<1> QED
  BY <1>1, <1>2, SigningAssumption DEF WorkerInv, WorkerTypeOK, Document

\* From what the step has done to the document and to the tick, what the next
\* step may rely on.
LEMMA Conclude ==
    ASSUME NEW w \in Sweepers, NEW d \in DocIds, NEW s \in Sessions,
           NEW l \in TickPcs,
           s # NoSession, tick'[w].doc = d, tick'[w].pc = l, doc'[d].sess = s,
           AllSigned(s)',
           l \in {"snapshot", "put", "count", "insert"} => doc'[d].number = 0,
           l \in {"record", "link", "complete"} => doc'[d].number > 0,
           l = "snapshot" => doc'[d].stored = 0,
           l = "put" => doc'[d].stored < Len(Artifacts),
           l \notin {"snapshot", "put"} => doc'[d].stored = Len(Artifacts),
           l # "snapshot" => Required(s)' \subseteq doc'[d].signers,
           l = "insert" => tick'[w].number \in 1 .. Cardinality(Rows') + 1,
           l = "complete" <=> doc'[d].trail = "linked",
           l \in FinalizePcs
    PROVE  TickInv(w)' /\ DocumentInv(d)'
<1>1. d \in Rows' <=> doc'[d].number > 0
  BY DEF Rows
<1>2. ~(0 > 0)
  OBVIOUS
<1>3. l \in {"snapshot", "put", "count", "insert", "record", "link", "complete"}
  BY DEF FinalizePcs
<1>4. DocumentInv(d)'
  BY <1>1, <1>2, <1>3 DEF DocumentInv
<1>5. TickInv(w)'
  BY <1>1, <1>3 DEF TickInv
<1> QED
  BY <1>4, <1>5

LEMMA PickStep ==
    ASSUME TypeOK, SignedInv, WorkerTypeOK, WorkerInv, [WorkerNext]_allVars,
           NEW w \in Sweepers, PickSession(w)
    PROVE  /\ TickInv(w)'
           /\ \A d \in DocIds : d = tick'[w].doc => DocumentInv(d)'
<1>1. PICK s \in tick[w].queue, d \in DocIds :
         /\ status[s] = "processing"
         /\ doc[d].sess = NoSession
         /\ doc' = [doc EXCEPT ![d].sess = s]
         /\ tick' = [tick EXCEPT ![w].pc = "snapshot", ![w].doc = d,
                                 ![w].queue = @ \ {s}]
  BY DEF PickSession
<1>2. s \in Sessions /\ s # NoSession
  BY SigningAssumption DEF WorkerTypeOK
<1>3. doc[d] = NoDocument
  BY <1>1 DEF WorkerInv, DocumentInv
<1>4. tick'[w].pc = "snapshot" /\ tick'[w].doc = d
  BY <1>1 DEF WorkerTypeOK
<1>5. /\ doc'[d].sess = s /\ doc'[d].number = 0
      /\ doc'[d].stored = 0 /\ doc'[d].trail = "none"
  BY <1>1, <1>3 DEF NoDocument, WorkerTypeOK
<1>6. AllSigned(s)'
  <2>1. AllSigned(s)
    BY <1>1, <1>2 DEF SignedInv, SignedBeforeProcessing, AllSigned
  <2> QED
    BY <1>2, <2>1, ServiceStep DEF AllSigned
<1>7. "snapshot" \in TickPcs /\ "snapshot" \in FinalizePcs
  BY DEF TickPcs, FinalizePcs
<1> QED
  BY <1>2, <1>4, <1>5, <1>6, <1>7, Conclude

LEMMA SnapshotStep ==
    ASSUME TypeOK, SignedInv, WorkerTypeOK, WorkerInv, [WorkerNext]_allVars,
           NEW w \in Sweepers, TakeSnapshot(w)
    PROVE  /\ TickInv(w)'
           /\ \A d \in DocIds : d = tick'[w].doc => DocumentInv(d)'
<1>1. /\ tick[w].pc = "snapshot"
      /\ doc' = [doc EXCEPT ![tick[w].doc].signers =
                              Signed(doc[tick[w].doc].sess)]
      /\ tick' = [tick EXCEPT ![w].pc = "put"]
  BY DEF TakeSnapshot, TickAt, TickGoto
<1>2. PICK d \in DocIds, s \in Sessions :
         /\ d = tick[w].doc /\ s = doc[d].sess /\ s # NoSession
         /\ doc[d] \in Document /\ DocumentInv(d) /\ TickInv(w)
  BY <1>1, OwnDocument DEF FinalizePcs
<1>3. tick'[w].pc = "put" /\ tick'[w].doc = d
  BY <1>1, <1>2 DEF WorkerTypeOK
<1>4. doc[d].stored = 0 /\ doc[d].number = 0 /\ doc[d].trail # "linked"
  BY <1>1, <1>2 DEF TickInv, FinalizePcs
<1>5. /\ doc'[d].sess = s /\ doc'[d].number = 0 /\ doc'[d].stored = 0
      /\ doc'[d].trail # "linked" /\ doc'[d].signers = Signed(s)
  BY <1>1, <1>2, <1>4 DEF WorkerTypeOK, Document
<1>6. AllSigned(s)' /\ Required(s)' = Required(s) /\ AllSigned(s)
  BY <1>2, ServiceStep DEF DocumentInv, AllSigned
<1>7. Required(s)' \subseteq doc'[d].signers
  BY <1>5, <1>6 DEF AllSigned
<1>8. doc'[d].stored < Len(Artifacts)
  BY <1>5, FourArtifacts
<1>9. "put" \in TickPcs /\ "put" \in FinalizePcs
  BY DEF TickPcs, FinalizePcs
<1> QED
  BY <1>2, <1>3, <1>5, <1>6, <1>7, <1>8, <1>9, Conclude

LEMMA PutStep ==
    ASSUME TypeOK, SignedInv, WorkerTypeOK, WorkerInv, [WorkerNext]_allVars,
           NEW w \in Sweepers, PutArtifact(w)
    PROVE  /\ TickInv(w)'
           /\ \A d \in DocIds : d = tick'[w].doc => DocumentInv(d)'
<1>1. /\ tick[w].pc = "put"
      /\ doc' = [doc EXCEPT ![tick[w].doc].stored = @ + 1]
      /\ tick' = [tick EXCEPT ![w].pc =
            IF doc[tick[w].doc].stored + 1 = Len(Artifacts)
            THEN "count" ELSE "put"]
  BY DEF PutArtifact, TickAt, TickGoto
<1>2. PICK d \in DocIds, s \in Sessions :
         /\ d = tick[w].doc /\ s = doc[d].sess /\ s # NoSession
         /\ doc[d] \in Document /\ DocumentInv(d) /\ TickInv(w)
  BY <1>1, OwnDocument DEF FinalizePcs
<1>3. /\ tick'[w].doc = d
      /\ tick'[w].pc = IF doc[d].stored + 1 = Len(Artifacts)
                       THEN "count" ELSE "put"
  BY <1>1, <1>2 DEF WorkerTypeOK
<1>4. /\ doc[d].stored < Len(Artifacts) /\ doc[d].stored \in 0 .. Len(Artifacts)
      /\ doc[d].number = 0 /\ doc[d].trail # "linked"
      /\ Required(s) \subseteq doc[d].signers
  BY <1>1, <1>2 DEF TickInv, FinalizePcs, Document
<1>5. /\ doc'[d].sess = s /\ doc'[d].number = 0
      /\ doc'[d].stored = doc[d].stored + 1
      /\ doc'[d].trail # "linked" /\ doc'[d].signers = doc[d].signers
  BY <1>1, <1>2, <1>4 DEF WorkerTypeOK, Document
<1>6. AllSigned(s)' /\ Required(s)' = Required(s)
  BY <1>2, ServiceStep DEF DocumentInv, AllSigned
<1>7. Required(s)' \subseteq doc'[d].signers
  BY <1>4, <1>5, <1>6
<1>8. CASE doc[d].stored + 1 = Len(Artifacts)
  <2>1. tick'[w].pc = "count" /\ doc'[d].stored = Len(Artifacts)
    BY <1>3, <1>5, <1>8
  <2>2. "count" \in TickPcs /\ "count" \in FinalizePcs
    BY DEF TickPcs, FinalizePcs
  <2> QED
    BY <1>2, <1>3, <1>5, <1>6, <1>7, <2>1, <2>2, Conclude
<1>9. CASE doc[d].stored + 1 # Len(Artifacts)
  <2>1. doc'[d].stored < Len(Artifacts)
    BY <1>4, <1>5, <1>9, FourArtifacts
  <2>2. tick'[w].pc = "put"
    BY <1>3, <1>9
  <2>3. "put" \in TickPcs /\ "put" \in FinalizePcs
    BY DEF TickPcs, FinalizePcs
  <2> QED
    BY <1>2, <1>3, <1>5, <1>6, <1>7, <2>1, <2>2, <2>3, Conclude
<1> QED
  BY <1>8, <1>9

LEMMA CountStep ==
    ASSUME TypeOK, SignedInv, WorkerTypeOK, WorkerInv, [WorkerNext]_allVars,
           NEW w \in Sweepers, CountDocuments(w)
    PROVE  TickInv(w)'
<1>1. /\ tick[w].pc = "count" /\ doc' = doc
      /\ tick' = [tick EXCEPT ![w].pc = "insert",
                              ![w].number = Cardinality(Rows) + 1]
  BY DEF CountDocuments, TickAt
<1>2. PICK d \in DocIds, s \in Sessions :
         /\ d = tick[w].doc /\ s = doc[d].sess /\ s # NoSession
         /\ doc[d] \in Document /\ DocumentInv(d) /\ TickInv(w)
  BY <1>1, OwnDocument DEF FinalizePcs
<1>3. /\ tick'[w].pc = "insert" /\ tick'[w].doc = d
      /\ tick'[w].number = Cardinality(Rows) + 1
  BY <1>1, <1>2 DEF WorkerTypeOK
<1>4. /\ doc'[d].sess = s /\ doc'[d].number = 0
      /\ doc'[d].stored = Len(Artifacts) /\ doc'[d].trail # "linked"
      /\ Required(s) \subseteq doc'[d].signers
  BY <1>1, <1>2 DEF TickInv, FinalizePcs
<1>5. AllSigned(s)' /\ Required(s)' = Required(s)
  BY <1>2, ServiceStep DEF DocumentInv, AllSigned
<1>6. tick'[w].number \in 1 .. Cardinality(Rows') + 1
  <2>1. Rows' = Rows
    BY <1>1 DEF Rows
  <2> QED
    BY <1>3, <2>1, RowsFinite
<1> QED
  BY <1>2, <1>3, <1>4, <1>5, <1>6, Conclude DEF FinalizePcs, TickPcs

LEMMA InsertStep ==
    ASSUME TypeOK, SignedInv, WorkerTypeOK, WorkerInv, [WorkerNext]_allVars,
           NEW w \in Sweepers, InsertDocument(w)
    PROVE  /\ TickInv(w)'
           /\ \A d \in DocIds : d = tick'[w].doc => DocumentInv(d)'
<1>1. /\ tick[w].pc = "insert"
      /\ doc' = [doc EXCEPT ![tick[w].doc].number = tick[w].number]
      /\ tick' = [tick EXCEPT ![w].pc = "record"]
  BY DEF InsertDocument, TickAt, TickGoto
<1>2. PICK d \in DocIds, s \in Sessions :
         /\ d = tick[w].doc /\ s = doc[d].sess /\ s # NoSession
         /\ doc[d] \in Document /\ DocumentInv(d) /\ TickInv(w)
  BY <1>1, OwnDocument DEF FinalizePcs
<1>3. tick'[w].pc = "record" /\ tick'[w].doc = d
  BY <1>1, <1>2 DEF WorkerTypeOK
<1>4. /\ tick[w].number \in 1 .. Cardinality(Rows) + 1
      /\ doc[d].stored = Len(Artifacts) /\ doc[d].trail # "linked"
      /\ Required(s) \subseteq doc[d].signers
  BY <1>1, <1>2 DEF TickInv, FinalizePcs
<1>5. tick[w].number > 0
  BY <1>4, RowsFinite
<1>6. /\ doc'[d].sess = s /\ doc'[d].number = tick[w].number
      /\ doc'[d].stored = Len(Artifacts) /\ doc'[d].trail # "linked"
      /\ doc'[d].signers = doc[d].signers
  BY <1>1, <1>2, <1>4 DEF WorkerTypeOK, Document
<1>7. AllSigned(s)' /\ Required(s)' = Required(s)
  BY <1>2, ServiceStep DEF DocumentInv, AllSigned
<1>8. doc'[d].number > 0 /\ Required(s)' \subseteq doc'[d].signers
  BY <1>4, <1>5, <1>6, <1>7
<1>9. "record" \in TickPcs /\ "record" \in FinalizePcs
  BY DEF TickPcs, FinalizePcs
<1> QED
  BY <1>2, <1>3, <1>6, <1>7, <1>8, <1>9, Conclude

LEMMA TrailStep ==
    ASSUME TypeOK, SignedInv, WorkerTypeOK, WorkerInv, [WorkerNext]_allVars,
           NEW w \in Sweepers, RecordGenerated(w) \/ LinkAudit(w)
    PROVE  /\ TickInv(w)'
           /\ \A d \in DocIds : d = tick'[w].doc => DocumentInv(d)'
<1>1. PICK v \in {"recorded", "linked"}, l \in {"link", "complete"} :
         /\ tick[w].pc \in {"record", "link"}
         /\ doc' = [doc EXCEPT ![tick[w].doc].trail = v]
         /\ tick' = [tick EXCEPT ![w].pc = l]
         /\ l = "complete" <=> v = "linked"
  BY DEF RecordGenerated, LinkAudit, TickAt, TickGoto
<1>2. PICK d \in DocIds, s \in Sessions :
         /\ d = tick[w].doc /\ s = doc[d].sess /\ s # NoSession
         /\ doc[d] \in Document /\ DocumentInv(d) /\ TickInv(w)
  BY <1>1, OwnDocument DEF FinalizePcs
<1>3. tick'[w].pc = l /\ tick'[w].doc = d
  BY <1>1, <1>2 DEF WorkerTypeOK
<1>4. d \in Rows
  BY <1>1, <1>2 DEF TickInv, FinalizePcs
<1>5. /\ doc[d].number > 0 /\ doc[d].stored = Len(Artifacts)
      /\ Required(s) \subseteq doc[d].signers
  BY <1>2, <1>4 DEF DocumentInv, Rows
<1>6. /\ doc'[d].sess = s /\ doc'[d].number = doc[d].number
      /\ doc'[d].stored = Len(Artifacts) /\ doc'[d].trail = v
      /\ doc'[d].signers = doc[d].signers
  BY <1>1, <1>2, <1>5 DEF WorkerTypeOK, Document
<1>7. AllSigned(s)' /\ Required(s)' = Required(s)
  BY <1>2, ServiceStep DEF DocumentInv, AllSigned
<1>8. /\ doc'[d].number > 0 /\ Required(s)' \subseteq doc'[d].signers
      /\ l = "complete" <=> doc'[d].trail = "linked"
  BY <1>1, <1>5, <1>6, <1>7
<1>9. l \in TickPcs /\ l \in FinalizePcs
  BY DEF TickPcs, FinalizePcs
<1> QED
  BY <1>2, <1>3, <1>6, <1>7, <1>8, <1>9, Conclude

\* After any step a tick may rely on what its next step needs.
LEMMA TickStep ==
    ASSUME TypeOK, SignedInv, WorkerTypeOK, WorkerInv, [WorkerNext]_allVars,
           NEW w \in Sweepers
    PROVE  TickInv(w)'
<1>t. tick \in [Sweepers -> TickRecord]
  BY DEF WorkerTypeOK, TickRecord
<1>1. CASE tick'[w] = tick[w]
  BY <1>1, TickFrame, PutStep
<1>2. ASSUME tick'[w].pc \notin FinalizePcs
      PROVE  TickInv(w)'
  BY <1>2 DEF TickInv
<1>3. CASE FinalizeJob(w)
  <2>1. ASSUME TickStart(w)
        PROVE  tick'[w].pc = "next"
    BY <1>t, <2>1 DEF TickStart, IdleTick
  <2>2. ASSUME SkipSession(w) \/ InsertRefused(w) \/ CompleteSession(w)
        PROVE  tick'[w].pc = "next"
    BY <1>t, <2>2 DEF SkipSession, InsertRefused, CompleteSession, TickAt,
                      TickGoto, TickRecord
  <2>3. "next" \notin FinalizePcs
    BY DEF FinalizePcs
  <2> QED
    BY <1>2, <1>3, <2>1, <2>2, <2>3, PickStep, SnapshotStep, PutStep,
       CountStep, InsertStep, TrailStep DEF FinalizeJob
<1>4. CASE SweepJob(w) \/ FanOutJob(w) \/ FinalizeThrows(w) \/ TickKilled(w)
  <2>1. ASSUME NEW l \in {"next", "sweep", "fanout"}, TickGoto(w, l)
        PROVE  tick'[w].pc \notin FinalizePcs
    BY <1>t, <2>1 DEF TickGoto, TickRecord, FinalizePcs
  <2>2. ASSUME tick' = [tick EXCEPT ![w] = IdleTick]
        PROVE  tick'[w].pc \notin FinalizePcs
    BY <1>t, <2>2 DEF IdleTick, FinalizePcs
  <2>3. ASSUME FanOut(w)
        PROVE  tick'[w].pc \notin FinalizePcs
    BY <1>t, <2>3 DEF FanOut, TickAt, TickRecord, FinalizePcs
  <2>4. ASSUME UNCHANGED tick
        PROVE  TickInv(w)'
    BY <2>4, <1>1
  <2> QED
    BY <1>2, <1>4, <2>1, <2>2, <2>3, <2>4
       DEF SweepJob, FanOutJob, BeginSweep, SweepSome, SweepNone, SweepFails,
           TickEnd, FinalizeThrows, TickKilled
<1> QED
  BY <1>1, <1>3, <1>4, TickOwner DEF WorkerStep

LEMMA DocumentStep ==
    ASSUME TypeOK, SignedInv, WorkerTypeOK, WorkerInv, [WorkerNext]_allVars,
           NEW d \in DocIds
    PROVE  DocumentInv(d)'
<1>t. /\ tick \in [Sweepers -> TickRecord]
      /\ doc \in [DocIds -> Document]
  BY DEF WorkerTypeOK, TickRecord, Document
<1>1. CASE doc'[d] = doc[d]
  BY <1>1, DocumentFrame
<1>2. CASE doc'[d] # doc[d]
  <2>1. PICK w \in Sweepers :
           \/ PickSession(w) \/ TakeSnapshot(w) \/ PutArtifact(w)
           \/ InsertDocument(w) \/ RecordGenerated(w) \/ LinkAudit(w)
    BY <1>2, DocumentWrites
  <2>2. ASSUME PickSession(w)
        PROVE  d = tick'[w].doc
    <3>1. PICK s \in tick[w].queue, e \in DocIds :
             /\ doc' = [doc EXCEPT ![e].sess = s]
             /\ tick' = [tick EXCEPT ![w].pc = "snapshot", ![w].doc = e,
                                     ![w].queue = @ \ {s}]
      BY <2>2 DEF PickSession
    <3>2. d = e
      BY <1>2, <1>t, <3>1
    <3> QED
      BY <1>t, <3>1, <3>2 DEF TickRecord
  <2>3. ASSUME NEW l, NEW x, TickGoto(w, l),
               doc' = [doc EXCEPT ![tick[w].doc] = x]
        PROVE  d = tick'[w].doc
    BY <1>2, <1>t, <2>3 DEF TickGoto, TickRecord
  <2>4. ASSUME \/ TakeSnapshot(w) \/ PutArtifact(w) \/ InsertDocument(w)
               \/ RecordGenerated(w) \/ LinkAudit(w)
        PROVE  d = tick'[w].doc
    BY <2>3, <2>4 DEF TakeSnapshot, PutArtifact, InsertDocument,
                      RecordGenerated, LinkAudit
  <2> QED
    BY <2>1, <2>2, <2>4, PickStep, SnapshotStep, PutStep, InsertStep,
       TrailStep
<1> QED
  BY <1>1, <1>2

\* A tick gets a document from PickSession, and only loses it again.
LEMMA HoldingStep ==
    ASSUME TypeOK, WorkerTypeOK, WorkerInv, [WorkerNext]_allVars,
           NEW w \in Sweepers, tick'[w].pc \in FinalizePcs, ~PickSession(w)
    PROVE  tick[w].pc \in FinalizePcs /\ tick'[w].doc = tick[w].doc
<1>t. tick \in [Sweepers -> TickRecord]
  BY DEF WorkerTypeOK, TickRecord
<1>1. CASE tick'[w] = tick[w]
  BY <1>1
<1>2. CASE FinalizeJob(w)
  <2>1. ~TickStart(w)
    BY <1>t DEF TickStart, IdleTick, FinalizePcs
  <2>2. ~SkipSession(w) /\ ~InsertRefused(w) /\ ~CompleteSession(w)
    BY <1>t DEF SkipSession, InsertRefused, CompleteSession, TickAt, TickGoto,
                TickRecord, FinalizePcs
  <2>3. ASSUME \/ TakeSnapshot(w) \/ PutArtifact(w) \/ CountDocuments(w)
               \/ InsertDocument(w) \/ RecordGenerated(w) \/ LinkAudit(w)
        PROVE  tick[w].pc \in FinalizePcs /\ tick'[w].doc = tick[w].doc
    BY <1>t, <2>3 DEF TakeSnapshot, PutArtifact, CountDocuments,
                      InsertDocument, RecordGenerated, LinkAudit, TickAt,
                      TickGoto, TickRecord, FinalizePcs
  <2> QED
    BY <1>2, <2>1, <2>2, <2>3 DEF FinalizeJob
<1>3. CASE SweepJob(w) \/ FanOutJob(w) \/ FinalizeThrows(w) \/ TickKilled(w)
  <2>1. ASSUME NEW l \in {"next", "sweep", "fanout"}
        PROVE  ~TickGoto(w, l)
    BY <1>t, <2>1 DEF TickGoto, TickRecord, FinalizePcs
  <2>2. tick' # [tick EXCEPT ![w] = IdleTick]
    BY <1>t DEF IdleTick, FinalizePcs
  <2>3. ~FanOut(w)
    BY <1>t DEF FanOut, TickAt, TickRecord, FinalizePcs
  <2>4. UNCHANGED tick
    BY <1>3, <2>1, <2>2, <2>3
       DEF SweepJob, FanOutJob, BeginSweep, SweepSome, SweepNone, SweepFails,
           TickEnd, FinalizeThrows, TickKilled
  <2> QED
    BY <1>1, <2>4
<1> QED
  BY <1>1, <1>2, <1>3, TickOwner DEF WorkerStep

LEMMA DistinctStep ==
    ASSUME TypeOK, WorkerTypeOK, WorkerInv, [WorkerNext]_allVars
    PROVE  DistinctDocuments'
<1>t. tick \in [Sweepers -> TickRecord]
  BY DEF WorkerTypeOK, TickRecord
<1> SUFFICES ASSUME NEW v \in Sweepers, NEW w \in Sweepers, v # w,
                    tick'[v].pc \in FinalizePcs, tick'[w].pc \in FinalizePcs
             PROVE  tick'[v].doc # tick'[w].doc
  BY DEF DistinctDocuments
<1>1. CASE ~PickSession(v) /\ ~PickSession(w)
  BY <1>1, HoldingStep DEF WorkerInv, DistinctDocuments
<1>2. ASSUME NEW x \in Sweepers, NEW y \in Sweepers, x # y, PickSession(x),
             tick'[x].pc \in FinalizePcs, tick'[y].pc \in FinalizePcs
      PROVE  tick'[x].doc # tick'[y].doc
  <2>1. PICK s \in tick[x].queue, e \in DocIds :
           /\ doc[e].sess = NoSession
           /\ tick' = [tick EXCEPT ![x].pc = "snapshot", ![x].doc = e,
                                   ![x].queue = @ \ {s}]
    BY <1>2 DEF PickSession
  <2>2. tick'[x].doc = e /\ tick'[y] = tick[y]
    BY <1>2, <1>t, <2>1 DEF TickRecord
  <2>3. doc[tick[y].doc].sess \in Sessions
    BY <1>2, <2>2 DEF WorkerInv, TickInv
  <2> QED
    BY <2>1, <2>2, <2>3, SigningAssumption
<1> QED
  BY <1>1, <1>2

\* The count a tick uses for the next number may be stale, but then the number
\* is taken: one that is not is the next in line.
LEMMA NumbersStep ==
    ASSUME TypeOK, SignedInv, WorkerTypeOK, WorkerInv, [WorkerNext]_allVars
    PROVE  NumbersAreGapless'
<1>t. doc \in [DocIds -> Document]
  BY DEF WorkerTypeOK, Document
<1>g. NumbersAreGapless
  BY DEF WorkerInv
<1>1. ASSUME \A d \in DocIds : doc'[d].number = doc[d].number
      PROVE  NumbersAreGapless'
  <2>1. Rows' = Rows
    BY <1>1 DEF Rows
  <2>2. \A d \in Rows : doc'[d].number = doc[d].number
    BY <1>1 DEF Rows
  <2> QED
    BY <1>g, <2>1, <2>2 DEF NumbersAreGapless
<1>2. ASSUME NEW w \in Sweepers, InsertDocument(w)
      PROVE  NumbersAreGapless'
  <2>1. PICK d \in DocIds, n \in Nat :
           /\ d = tick[w].doc /\ n = tick[w].number
           /\ doc' = [doc EXCEPT ![d].number = n]
           /\ doc[d].number = 0
           /\ n \in 1 .. Cardinality(Rows) + 1
           /\ \A e \in Rows : doc[e].number # n
    <3>1. tick[w].pc = "insert" /\ TickInv(w)
      BY <1>2 DEF InsertDocument, TickAt, WorkerInv
    <3>2. /\ tick[w].doc \in DocIds /\ doc[tick[w].doc].number = 0
          /\ tick[w].number \in 1 .. Cardinality(Rows) + 1
      BY <3>1 DEF TickInv, FinalizePcs
    <3>3. tick[w].number \in Nat
      BY <3>2, RowsFinite
    <3> QED
      BY <1>2, <3>2, <3>3 DEF InsertDocument, NumberTaken
  <2>2. \A e \in DocIds :
           doc'[e].number = IF e = d THEN n ELSE doc[e].number
    BY <1>t, <2>1 DEF Document
  <2>3. n > 0
    BY <2>1, RowsFinite
  <2>4. Rows' = Rows \cup {d} /\ d \notin Rows
    BY <2>1, <2>2, <2>3 DEF Rows
  <2>5. Cardinality(Rows') = Cardinality(Rows) + 1
    BY <2>4, RowsFinite, FS_AddElement
  <2>6. n \notin 1 .. Cardinality(Rows)
    BY <1>g, <2>1 DEF NumbersAreGapless
  <2>7. n = Cardinality(Rows) + 1
    BY <2>1, <2>6, RowsFinite
  <2>8. Rows \subseteq DocIds
    BY DEF Rows
  <2>9. \A e \in Rows : doc'[e].number = doc[e].number
    BY <2>2, <2>4, <2>8
  <2>10. {doc'[e].number : e \in Rows'} = 1 .. Cardinality(Rows')
    <3>1. {doc'[e].number : e \in Rows'}
             = {doc[e].number : e \in Rows} \cup {n}
      BY <2>1, <2>2, <2>4, <2>9
    <3>2. {doc[e].number : e \in Rows} = 1 .. Cardinality(Rows)
      BY <1>g DEF NumbersAreGapless
    <3>3. (1 .. Cardinality(Rows)) \cup {Cardinality(Rows) + 1}
             = 1 .. Cardinality(Rows) + 1
      BY RowsFinite
    <3> QED
      BY <2>5, <2>7, <3>1, <3>2, <3>3
  <2>11. \A e, f \in Rows' : doc'[e].number = doc'[f].number => e = f
    BY <1>g, <2>1, <2>2, <2>4, <2>9 DEF NumbersAreGapless
  <2> QED
    BY <2>10, <2>11 DEF NumbersAreGapless
<1>3. ASSUME NEW w \in Sweepers, PickSession(w)
      PROVE  \A d \in DocIds : doc'[d].number = doc[d].number
  <2>1. PICK s \in tick[w].queue, e \in DocIds :
           doc' = [doc EXCEPT ![e].sess = s]
    BY <1>3 DEF PickSession
  <2> QED
    BY <1>t, <2>1 DEF Document
<1>4. ASSUME NEW w \in Sweepers, TakeSnapshot(w)
      PROVE  \A d \in DocIds : doc'[d].number = doc[d].number
  BY <1>4, <1>t DEF TakeSnapshot, Document
<1>5. ASSUME NEW w \in Sweepers, PutArtifact(w)
      PROVE  \A d \in DocIds : doc'[d].number = doc[d].number
  BY <1>5, <1>t DEF PutArtifact, Document
<1>6. ASSUME NEW w \in Sweepers, RecordGenerated(w) \/ LinkAudit(w)
      PROVE  \A d \in DocIds : doc'[d].number = doc[d].number
  <2>1. PICK v : doc' = [doc EXCEPT ![tick[w].doc].trail = v]
    BY <1>6 DEF RecordGenerated, LinkAudit
  <2> QED
    BY <1>t, <2>1 DEF Document
<1>7. CASE doc' = doc
  BY <1>1, <1>7
<1> QED
  BY <1>1, <1>2, <1>3, <1>4, <1>5, <1>6, <1>7, DocumentWrites

LEMMA CompletedStep ==
    ASSUME TypeOK, SignedInv, WorkerTypeOK, WorkerInv, [WorkerNext]_allVars
    PROVE  CompletedHasDocument'
<1> SUFFICES ASSUME NEW s \in Sessions, status'[s] = "completed"
             PROVE  \E d \in DocumentsOf(s)' : doc'[d].trail = "linked"
  BY DEF CompletedHasDocument
<1>1. ASSUME NEW d \in DocIds, doc[d].sess = s, doc[d].number > 0,
             doc[d].trail = "linked"
      PROVE  \E e \in DocumentsOf(s)' : doc'[e].trail = "linked"
  <2>1. s # NoSession
    BY SigningAssumption
  <2>2. /\ doc'[d].sess = s /\ doc'[d].number > 0
        /\ doc'[d].trail = "linked"
    BY <1>1, <2>1, DocumentsKept
  <2> QED
    BY <2>2 DEF DocumentsOf, Rows
<1>2. CASE status[s] = "completed"
  BY <1>1, <1>2 DEF WorkerInv, CompletedHasDocument, DocumentsOf, Rows
<1>3. CASE status[s] # "completed"
  <2>1. ~[Next]_vars
    <3>1. \A r \in Slots : ~At(r, "finalize")
      BY DEF WorkerInv
    <3> QED
      BY <1>3, <3>1, StatusWrites
  <2>2. PICK w \in Sweepers : CompleteSession(w)
    BY <2>1, StepSplit
  <2>3. TickInv(w) /\ tick[w].pc = "complete"
    BY <2>2 DEF WorkerInv, CompleteSession, TickAt
  <2>4. s = doc[tick[w].doc].sess
    <3>1. PICK t \in Sessions :
             /\ t = doc[tick[w].doc].sess
             /\ status' = [status EXCEPT ![t] = "completed"]
      BY <2>2, <2>3, CompleteEffect
    <3> QED
      BY <1>3, <3>1 DEF TypeOK
  <2>5. /\ tick[w].doc \in DocIds /\ doc[tick[w].doc].number > 0
        /\ doc[tick[w].doc].trail = "linked"
    BY <2>3 DEF TickInv, FinalizePcs, Rows
  <2> QED
    BY <1>1, <2>4, <2>5
<1> QED
  BY <1>2, <1>3

\* The worker does not use finalizeSession.
LEMMA NoFinalizeStep ==
    ASSUME TypeOK, SignedInv, WorkerInv, [WorkerNext]_allVars, NEW r \in Slots
    PROVE  ~At(r, "finalize")'
<1> SUFFICES ASSUME req'[r].pc = "finalize" PROVE FALSE
  BY DEF At
<1>1. req'[r] # req[r]
  BY DEF WorkerInv, At
<1>2. ~\E w \in Sweepers : CompleteSession(w)
  BY <1>1 DEF CompleteSession
<1>3. [Next]_vars
  BY <1>2, StepSplit
<1>4. ApiStep
  BY <1>1
     DEF WorkerNext, allVars, vars, WorkerStep, FinalizeJob, SweepJob,
         FanOutJob, TickStart, PickSession, SkipSession, TakeSnapshot,
         PutArtifact, CountDocuments, InsertDocument, InsertRefused,
         RecordGenerated, LinkAudit, CompleteSession, BeginSweep, SweepSome,
         SweepRead, SweepWrite, SweepNone, SweepFails, SweepThrow, FanOut,
         TickEnd, FinalizeThrows, TickKilled
<1>5. PICK q \in Slots : StaffStep(q) \/ SignerStep(q) \/ Abort(q)
  BY <1>1, <1>4 DEF ApiStep, Elapse
<1>6. ASSUME NEW l, Goto(q, l)
      PROVE  l = "finalize"
  BY <1>1, <1>6 DEF Goto, TypeOK
<1>7. ASSUME NEW t, NEW l, NEW todo, NEW e, Take(q, t, l, todo, e)
      PROVE  l = "finalize"
  BY <1>1, <1>7 DEF Take, TypeOK
<1>8. ~Return(q)
  BY <1>1 DEF Return, Idle, TypeOK
<1>9. CASE StaffStep(q) \/ Abort(q)
  <2>1. ~CreateSession(q)
    BY <1>1 DEF CreateSession, TypeOK
  <2> QED
    BY <1>6, <1>7, <1>8, <1>9, <2>1
       DEF StaffStep, CreateSigner, CreateGuardian, Audit, Invite, Announce,
           ResendRead, ResendWrite, CancelRead, CancelWrite, Abort
<1>10. CASE SignerStep(q)
  <2>1. ~SaveField(q)
    <3>1. ASSUME NEW f, req' = [req EXCEPT ![q].todo = @ \ {f}]
          PROVE  req'[r].pc = req[r].pc
      BY <3>1 DEF TypeOK
    <3> QED
      BY <1>8, <3>1 DEF SaveField, WorkerInv, At
  <2>2. ~MarkSigned(q)
    <3>1. ASSUME MarkSigned(q)
          PROVE  req'[r].pc \in {req[r].pc, "commit", "sign"}
      BY <3>1 DEF MarkSigned, TypeOK
    <3> QED
      BY <3>1 DEF WorkerInv, At
  <2> QED
    BY <1>6, <1>7, <1>8, <1>10, <2>1, <2>2
       DEF SignerStep, ExpireRead, ExpireWrite, OpenRead, OpenWrite, SaveRead,
           SaveWrite, CompleteRead, CompleteAgain, InsertSignature,
           CompleteWrite, DeclineRead, DeclineWrite, DeclinePeople
<1> QED
  BY <1>5, <1>9, <1>10

-----------------------------------------------------------------------------
(* The theorems.                                                           *)

LEMMA WorkerInductive ==
    WorkerSpec => [](TypeOK /\ SignedInv /\ WorkerTypeOK /\ WorkerInv)
<1> DEFINE Inv == TypeOK /\ SignedInv /\ WorkerTypeOK /\ WorkerInv
<1>1. WorkerInit => Inv
  <2> SUFFICES ASSUME WorkerInit PROVE Inv
    OBVIOUS
  <2>1. TypeOK
    <3>1. Idle \in Request
      BY DEF Idle, Request, Pcs, Status, Events
    <3>2. TablesOK
      BY SigningAssumption DEF WorkerInit, Init, TablesOK, NoBatch
    <3> QED
      BY <3>1, <3>2, TypeSplit DEF WorkerInit, Init
  <2>2. SignedInv
    BY DEF WorkerInit, Init, SignedInv, SignedBeforeProcessing,
           AnnouncedMeansSigned, MarkedMeansSigned, InvitedMeansPresent,
           HandlerInv, Idle, At
  <2>3. NoDocument \in Document /\ IdleTick \in TickRecord
    BY FourArtifacts DEF NoDocument, Document, IdleTick, TickRecord, TickPcs
  <2>4. WorkerTypeOK
    BY <2>3, WorkerAssumption
       DEF WorkerInit, WorkerTypeOK, Document, TickRecord
  <2>5. Rows = {}
    BY DEF WorkerInit, Rows, NoDocument
  <2>6. \A d \in DocIds : DocumentInv(d)
    BY <2>5 DEF WorkerInit, DocumentInv, NoDocument
  <2>7. /\ \A w \in Sweepers : TickInv(w)
        /\ DistinctDocuments
    BY DEF WorkerInit, TickInv, DistinctDocuments, IdleTick, FinalizePcs
  <2>8. NumbersAreGapless
    <3>1. Cardinality(Rows) = 0
      BY <2>5, FS_EmptySet
    <3>2. {doc[d].number : d \in Rows} = {}
      BY <2>5
    <3> QED
      BY <2>5, <3>1, <3>2 DEF NumbersAreGapless
  <2>9. CompletedHasDocument /\ \A r \in Slots : ~At(r, "finalize")
    BY DEF WorkerInit, Init, CompletedHasDocument, At, Idle
  <2> QED
    BY <2>1, <2>2, <2>4, <2>6, <2>7, <2>8, <2>9 DEF WorkerInv
<1>2. Inv /\ [WorkerNext]_allVars => Inv'
  <2> SUFFICES ASSUME Inv, [WorkerNext]_allVars PROVE Inv'
    OBVIOUS
  <2>1. WorkerInv'
    BY TickStep, DocumentStep, DistinctStep, NumbersStep, CompletedStep,
       NoFinalizeStep DEF WorkerInv
  <2> QED
    BY <2>1, ServiceStep, WorkerTypeStep
<1> QED
  BY <1>1, <1>2, PTL DEF WorkerSpec

\* The documents table and the ticks' locals keep their shape.
THEOREM WorkerTypeCorrect == WorkerSpec => []WorkerTypeOK
  BY WorkerInductive, PTL

\* Document numbers are 1, 2, ..., n for any number of overlapping ticks: the
\* stale count and the unique index together leave no gap.
THEOREM NumbersGapless == WorkerSpec => []NumbersAreGapless
<1>1. WorkerInv => NumbersAreGapless
  BY DEF WorkerInv
<1> QED
  BY <1>1, WorkerInductive, PTL

\* Every completed session has a document that is tied to the audit chain,
\* through any crash, retry or overlap of ticks.
THEOREM CompletedDocumented == WorkerSpec => []CompletedHasDocument
<1>1. WorkerInv => CompletedHasDocument
  BY DEF WorkerInv
<1> QED
  BY <1>1, WorkerInductive, PTL

\* A row of documents is inserted after all four of its artifacts.
THEOREM RowsComplete == WorkerSpec => []RowsPointAtArtifacts
<1>1. WorkerInv => RowsPointAtArtifacts
  BY DEF WorkerInv, DocumentInv, RowsPointAtArtifacts, Rows
<1> QED
  BY <1>1, WorkerInductive, PTL

\* No document is rendered without the signature of everybody who had to sign
\* its session.
THEOREM DocumentsShowSigners == WorkerSpec => []DocumentShowsSigners
<1>1. WorkerInv => DocumentShowsSigners
  BY DEF WorkerInv, DocumentInv, DocumentShowsSigners, Rows
<1> QED
  BY <1>1, WorkerInductive, PTL

\* The guarantees of the signing service survive the worker: with finalize in
\* the picture a session is still processing or completed only when signed.
THEOREM WorkerKeepsSigned == WorkerSpec => []SignedBeforeProcessing
<1>1. SignedInv => SignedBeforeProcessing
  BY DEF SignedInv
<1> QED
  BY <1>1, WorkerInductive, PTL
=============================================================================

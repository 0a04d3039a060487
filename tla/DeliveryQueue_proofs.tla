------------------------- MODULE DeliveryQueue_proofs -------------------------
(***************************************************************************)
(* Proofs about DeliveryQueue, for any number of rows, endpoints and       *)
(* overlapping ticks, any attempt limit and any number of kills.           *)
(***************************************************************************)
EXTENDS DeliveryQueue, TLAPS

Row == [status : {"none", "pending", "delivered", "failed", "dead_letter"},
        attempt : 0 .. MaxAttempts, to : Endpoints \cup {NoEndpoint},
        due : BOOLEAN]
Tick == [pc : Pcs, batch : SUBSET Items, seen : [Items -> 0 .. MaxAttempts],
         item : SUBSET Items, ok : BOOLEAN]

LEMMA TypeParts ==
    QueueTypeOK <=> /\ endpoint \in [Endpoints -> {"none", "active", "disabled"}]
                    /\ row \in [Items -> Row]
                    /\ worker \in [Workers -> Tick]
                    /\ tries \in [Items -> 0 .. MaxAttempts]
                    /\ accepted \subseteq Items
                    /\ failures \in 0 .. MaxFailures
  BY DEF QueueTypeOK, Row, Tick

-----------------------------------------------------------------------------
(* The inductive invariant.                                                *)
(*                                                                         *)
(* The three state properties are not inductive: a tick writes from a copy *)
(* of the attempt counter.  What makes the write true is that the counter, *)
(* and every copy of it, stays behind the attempts that were made, and     *)
(* strictly behind once the tick has made its own.                         *)

RowInv(i) ==
    LET m == row[i]
    IN  /\ m.status = "pending" => m.attempt < MaxAttempts
        /\ m.attempt <= tries[i]
        /\ m.status = "delivered" => i \in accepted
        /\ m.status = "dead_letter" => tries[i] = MaxAttempts
        /\ m.status = "failed" => m.to # NoEndpoint /\ endpoint[m.to] = "disabled"
        /\ i \in Hooks /\ m.status # "none"
              => m.to \in Endpoints /\ endpoint[m.to] # "none"

HookPcs == {"hooks", "drop", "post", "record"}

TickInv(w) ==
    LET t == worker[w]
    IN  /\ t.pc \in HookPcs => t.batch \cup t.item \subseteq Hooks
        /\ \A i \in t.batch \cup t.item : /\ row[i].status # "none"
                                          /\ t.seen[i] < MaxAttempts
                                          /\ t.seen[i] <= tries[i]
        /\ t.pc \in {"record", "record_mail"}
              => \A i \in t.item : /\ t.seen[i] < tries[i]
                                   /\ t.ok => i \in accepted
        /\ t.pc = "drop" => \A i \in t.item : endpoint[row[i].to] = "disabled"

QueueInv ==
    /\ QueueTypeOK
    /\ \A i \in Items : RowInv(i)
    /\ \A w \in Workers : TickInv(w)

-----------------------------------------------------------------------------
(* What every step keeps.                                                  *)

\* The steps of worker w.
TickStep(w) == HookStep(w) \/ MailStep(w) \/ RecordSentFails(w) \/ TickKilled(w)

LEMMA NextCases ==
    ASSUME [Next]_vars
    PROVE  \/ \E e \in Endpoints : RegisterEndpoint(e) \/ RemoveEndpoint(e)
           \/ EnqueueHook \/ EnqueueMail
           \/ \E i \in Items : BackoffOver(i)
           \/ \E w \in Workers : TickStep(w)
           \/ UNCHANGED vars
  BY DEF Next, TickStep

\* The three ways in which the rows change during a tick.
LEMMA TickWrites ==
    ASSUME NEW w \in Workers, TickStep(w)
    PROVE  \/ row' = row
           \/ DropHook(w)
           \/ RecordHook(w) \/ RecordMail(w)
  BY DEF TickStep, HookStep, TickStart, LookUpRemoved, LookUpActive,
         LookUpThrows, PostHook, MailStep, HooksDone, SendMail, MailsDone,
         RecordSentFails, TickKilled

\* The two ways in which the attempts change.
LEMMA TickSends ==
    ASSUME NEW w \in Workers, TickStep(w)
    PROVE  /\ UNCHANGED endpoint
           /\ \/ UNCHANGED <<tries, accepted>>
              \/ PostHook(w) \/ SendMail(w)
  BY DEF TickStep, HookStep, TickStart, LookUpRemoved, LookUpActive,
         LookUpThrows, DropHook, PostHook, RecordHook, MailStep, HooksDone,
         SendMail, RecordMail, MailsDone, RecordSentFails, TickKilled

\* A tick writes the worker's own record only.
LEMMA OthersStay ==
    ASSUME QueueTypeOK, NEW w \in Workers, TickStep(w)
    PROVE  worker' = [worker EXCEPT ![w] = worker'[w]]
<1> USE DEF QueueTypeOK
<1>1. ASSUME NEW record, worker' = [worker EXCEPT ![w] = record]
      PROVE  worker' = [worker EXCEPT ![w] = worker'[w]]
  BY <1>1
<1>2. CASE TickStart(w) \/ HooksDone(w)
  BY <1>1, <1>2 DEF TickStart, HooksDone, Load
<1>3. CASE LookUpRemoved(w) \/ LookUpActive(w)
  BY <1>1, <1>3 DEF LookUpRemoved, LookUpActive, Begin
<1>4. CASE \/ LookUpThrows(w) \/ MailsDone(w) \/ RecordSentFails(w)
           \/ TickKilled(w)
  BY <1>1, <1>4 DEF LookUpThrows, MailsDone, RecordSentFails, TickKilled
<1>5. CASE DropHook(w) \/ RecordHook(w) \/ RecordMail(w)
  BY <1>1, <1>5 DEF DropHook, RecordHook, RecordMail, Done
<1>6. CASE PostHook(w) \/ SendMail(w)
  BY <1>1, <1>6 DEF PostHook, SendMail, Send
<1> QED
  BY <1>2, <1>3, <1>4, <1>5, <1>6 DEF TickStep, HookStep, MailStep

\* What Send does to the attempts.
LEMMA SendGrows ==
    ASSUME QueueTypeOK, NEW w \in Workers, NEW i \in Items, NEW label,
           Send(w, i, label)
    PROVE  /\ \A j \in Items : tries'[j] \in tries[j] .. MaxAttempts
           /\ tries'[i] > tries[i] \/ tries'[i] = MaxAttempts
           /\ accepted \subseteq accepted'
           /\ accepted' \subseteq Items
           /\ tries' \in [Items -> 0 .. MaxAttempts]
<1>1. PICK taken \in BOOLEAN :
        /\ tries' = [tries EXCEPT ![i] = IF @ < MaxAttempts THEN @ + 1 ELSE @]
        /\ accepted' = IF taken THEN accepted \cup {i} ELSE accepted
  BY DEF Send
<1>2. tries \in [Items -> 0 .. MaxAttempts] /\ MaxAttempts \in Nat
  BY QueueAssumption DEF QueueTypeOK
<1>3. accepted \subseteq accepted' /\ accepted' \subseteq Items
  BY <1>1 DEF QueueTypeOK
<1>4. tries'[i] = IF tries[i] < MaxAttempts THEN tries[i] + 1 ELSE tries[i]
  BY <1>1, <1>2
<1>5. \A j \in Items \ {i} : tries'[j] = tries[j]
  BY <1>1, <1>2
<1>6. /\ tries'[i] \in tries[i] .. MaxAttempts
      /\ tries'[i] > tries[i] \/ tries'[i] = MaxAttempts
  BY <1>2, <1>4
<1>7. \A j \in Items : tries'[j] \in tries[j] .. MaxAttempts
  BY <1>2, <1>5, <1>6
<1>8. tries' \in [Items -> 0 .. MaxAttempts]
  <2>1. tries' = [j \in Items |-> tries'[j]]
    BY <1>1, <1>2
  <2>2. \A j \in Items : tries'[j] \in 0 .. MaxAttempts
    BY <1>2, <1>7
  <2> QED
    BY <2>1, <2>2
<1> QED
  BY <1>3, <1>6, <1>7, <1>8

LEMMA AttemptsGrow ==
    ASSUME QueueInv, [Next]_vars
    PROVE  /\ tries' \in [Items -> 0 .. MaxAttempts]
           /\ accepted' \subseteq Items
           /\ accepted \subseteq accepted'
           /\ \A i \in Items : tries[i] <= tries'[i]
<1>t. QueueTypeOK
  BY DEF QueueInv
<1>1. CASE UNCHANGED <<tries, accepted>>
  BY <1>t, <1>1, QueueAssumption DEF QueueTypeOK
<1>2. ASSUME NEW w \in Workers, PostHook(w) \/ SendMail(w)
      PROVE  \E i \in Items, label \in Pcs : Send(w, i, label)
  <2>1. worker[w].item \subseteq Items /\ worker[w].batch \subseteq Items
    BY <1>t DEF QueueTypeOK
  <2> QED
    BY <1>2, <2>1 DEF PostHook, SendMail, Pcs
<1>3. ASSUME NEW w \in Workers, NEW i \in Items, NEW label, Send(w, i, label)
      PROVE  /\ tries' \in [Items -> 0 .. MaxAttempts]
             /\ accepted' \subseteq Items
             /\ accepted \subseteq accepted'
             /\ \A j \in Items : tries[j] <= tries'[j]
  <2>1. \A j \in Items : tries[j] \in Nat /\ tries'[j] \in tries[j] .. MaxAttempts
    BY <1>3, <1>t, SendGrows, QueueAssumption DEF QueueTypeOK
  <2> QED
    BY <1>3, <1>t, <2>1, SendGrows, QueueAssumption
<1>4. \/ UNCHANGED <<tries, accepted>>
      \/ \E w \in Workers : PostHook(w) \/ SendMail(w)
  BY NextCases, TickSends
  DEF RegisterEndpoint, RemoveEndpoint, EnqueueHook, EnqueueMail, BackoffOver,
      vars
<1> QED
  BY <1>1, <1>2, <1>3, <1>4

LEMMA EndpointsKept ==
    ASSUME QueueTypeOK, [Next]_vars
    PROVE  /\ endpoint' \in [Endpoints -> {"none", "active", "disabled"}]
           /\ \A e \in Endpoints :
                 /\ endpoint[e] # "none" => endpoint'[e] # "none"
                 /\ endpoint[e] = "disabled" => endpoint'[e] = "disabled"
<1>t. endpoint \in [Endpoints -> {"none", "active", "disabled"}]
  BY TypeParts
<1>1. ASSUME NEW e \in Endpoints, RegisterEndpoint(e) \/ RemoveEndpoint(e)
      PROVE  /\ endpoint' \in [Endpoints -> {"none", "active", "disabled"}]
             /\ \A d \in Endpoints :
                   /\ endpoint[d] # "none" => endpoint'[d] # "none"
                   /\ endpoint[d] = "disabled" => endpoint'[d] = "disabled"
  BY <1>1, <1>t DEF RegisterEndpoint, RemoveEndpoint
<1>2. ASSUME NEW w \in Workers, TickStep(w)
      PROVE  UNCHANGED endpoint
  BY <1>2, TickSends
<1> QED
  BY <1>t, <1>1, <1>2, NextCases
  DEF EnqueueHook, EnqueueMail, BackoffOver, vars

\* A row that was inserted keeps its endpoint and is never uninserted.
LEMMA RowsKept ==
    ASSUME QueueTypeOK, [Next]_vars, NEW i \in Items, row[i].status # "none"
    PROVE  row'[i].status # "none" /\ row'[i].to = row[i].to
<1>t. row \in [Items -> Row] /\ row[i] \in Row
  BY TypeParts
<1>1. CASE EnqueueHook \/ EnqueueMail
  BY <1>1, <1>t DEF EnqueueHook, EnqueueMail, Insert
<1>2. ASSUME NEW j \in Items, BackoffOver(j)
      PROVE  row'[i].status # "none" /\ row'[i].to = row[i].to
  BY <1>2, <1>t DEF BackoffOver, Row
<1>3. ASSUME NEW w \in Workers, DropHook(w)
      PROVE  row'[i].status # "none" /\ row'[i].to = row[i].to
  BY <1>3, <1>t DEF DropHook, Row
<1>4. ASSUME NEW w \in Workers, RecordHook(w) \/ RecordMail(w)
      PROVE  row'[i].status # "none" /\ row'[i].to = row[i].to
  BY <1>4, <1>t DEF RecordHook, RecordMail, Record, Outcome
<1> QED
  BY <1>1, <1>2, <1>3, <1>4, NextCases, TickWrites
  DEF RegisterEndpoint, RemoveEndpoint, vars

-----------------------------------------------------------------------------
(* The rows.                                                               *)

\* What a tick writes for a row it has made its attempt at.
LEMMA OutcomeTrue ==
    ASSUME QueueInv, [Next]_vars, NEW w \in Workers, NEW i \in worker[w].item,
           worker[w].pc \in {"record", "record_mail"}, row'[i] = Outcome(w, i)
    PROVE  row'[i] \in Row /\ RowInv(i)'
<1>1. /\ i \in Items
      /\ worker[w].seen[i] \in 0 .. MaxAttempts
      /\ worker[w].ok \in BOOLEAN
      /\ row[i] \in Row
      /\ tries[i] \in 0 .. MaxAttempts
      /\ tries'[i] \in 0 .. MaxAttempts
      /\ MaxAttempts \in Nat \ {0}
  BY TypeParts, AttemptsGrow, QueueAssumption DEF QueueInv, Tick
<1>2. /\ row[i].status # "none"
      /\ worker[w].seen[i] < MaxAttempts
      /\ worker[w].seen[i] < tries[i]
      /\ worker[w].ok => i \in accepted
  BY DEF QueueInv, TickInv
<1>3. worker[w].seen[i] < tries'[i]
  BY <1>1, <1>2, AttemptsGrow
<1>4. i \in Hooks => row[i].to \in Endpoints /\ endpoint'[row[i].to] # "none"
  BY <1>1, <1>2, EndpointsKept DEF QueueInv, RowInv
<1>5. /\ row'[i].attempt = worker[w].seen[i] + 1
      /\ row'[i].to = row[i].to
      /\ row'[i].due = FALSE
      /\ row'[i].status = IF worker[w].ok THEN "delivered"
                          ELSE IF worker[w].seen[i] + 1 >= MaxAttempts
                               THEN "dead_letter" ELSE "pending"
  BY DEF Outcome
<1>6. row'[i] \in Row
  <2>1. row[i].to \in Endpoints \cup {NoEndpoint}
    BY <1>1 DEF Row
  <2>2. worker[w].seen[i] + 1 \in 0 .. MaxAttempts
    BY <1>1, <1>2
  <2> QED
    BY <2>1, <2>2 DEF Outcome, Row
<1>7. row'[i].status = "delivered" => i \in accepted'
  BY <1>2, <1>5, AttemptsGrow
<1>8. row'[i].status = "dead_letter" => tries'[i] = MaxAttempts
  BY <1>1, <1>2, <1>3, <1>5
<1>9. /\ row'[i].status = "pending" => row'[i].attempt < MaxAttempts
      /\ row'[i].attempt <= tries'[i]
  BY <1>1, <1>2, <1>3, <1>5
<1> QED
  BY <1>4, <1>5, <1>6, <1>7, <1>8, <1>9 DEF RowInv

LEMMA RowStays ==
    ASSUME QueueInv, [Next]_vars, NEW i \in Items,
           row'[i].status = row[i].status, row'[i].attempt = row[i].attempt,
           row'[i].to = row[i].to
    PROVE  RowInv(i)'
<1>1. /\ row[i] \in Row /\ MaxAttempts \in Nat
      /\ tries[i] \in 0 .. MaxAttempts
      /\ tries'[i] \in 0 .. MaxAttempts
      /\ tries[i] <= tries'[i]
  BY TypeParts, AttemptsGrow, QueueAssumption DEF QueueInv
<1>2. RowInv(i) /\ QueueTypeOK
  BY DEF QueueInv
<1>3. row[i].status = "failed" =>
        row[i].to # NoEndpoint /\ endpoint'[row[i].to] = "disabled"
  BY <1>1, <1>2, EndpointsKept DEF RowInv, Row
<1>4. i \in Hooks /\ row[i].status # "none" =>
        row[i].to \in Endpoints /\ endpoint'[row[i].to] # "none"
  BY <1>2, EndpointsKept DEF RowInv
<1>5. /\ row[i].attempt <= tries'[i]
      /\ row[i].status = "dead_letter" => tries'[i] = MaxAttempts
  BY <1>1, <1>2 DEF RowInv, Row
<1>6. row[i].status = "delivered" => i \in accepted'
  BY <1>2, AttemptsGrow DEF RowInv
<1> QED
  BY <1>2, <1>3, <1>4, <1>5, <1>6 DEF RowInv

LEMMA InsertTrue ==
    ASSUME QueueInv, [Next]_vars, NEW i \in Items, NEW j \in Items,
           NEW e \in Endpoints \cup {NoEndpoint}, Insert(j, e),
           j \in Hooks => e \in Endpoints /\ endpoint[e] # "none"
    PROVE  row' \in [Items -> Row] /\ RowInv(i)'
<1>1. row \in [Items -> Row] /\ MaxAttempts \in Nat \ {0}
  BY TypeParts, QueueAssumption DEF QueueInv
<1>2. [status |-> "pending", attempt |-> 0, to |-> e, due |-> TRUE] \in Row
  BY <1>1 DEF Row
<1>3. row' \in [Items -> Row]
  BY <1>1, <1>2 DEF Insert
<1>4. CASE i = j
  <2>1. row'[i] = [status |-> "pending", attempt |-> 0, to |-> e, due |-> TRUE]
    BY <1>1, <1>4 DEF Insert
  <2>2. tries'[i] \in 0 .. MaxAttempts
    BY AttemptsGrow
  <2>3. j \in Hooks => endpoint'[e] # "none"
    BY EndpointsKept DEF QueueInv
  <2> QED
    BY <1>1, <1>3, <1>4, <2>1, <2>2, <2>3 DEF RowInv
<1>5. CASE i # j
  BY <1>1, <1>3, <1>5, RowStays DEF Insert
<1> QED
  BY <1>4, <1>5

LEMMA RowsStep ==
    ASSUME QueueInv, [Next]_vars, NEW i \in Items
    PROVE  row' \in [Items -> Row] /\ RowInv(i)'
<1>t. row \in [Items -> Row] /\ worker \in [Workers -> Tick]
  BY TypeParts DEF QueueInv
<1>1. CASE EnqueueHook
  <2>1. PICK h \in Hooks, e \in Endpoints : endpoint[e] # "none" /\ Insert(h, e)
    BY <1>1 DEF EnqueueHook
  <2> QED
    BY <2>1, InsertTrue DEF Items
<1>2. CASE EnqueueMail
  <2>1. PICK m \in Mails : Insert(m, NoEndpoint)
    BY <1>2 DEF EnqueueMail
  <2>2. m \notin Hooks /\ m \in Items
    BY QueueAssumption DEF Items
  <2> QED
    BY <2>1, <2>2, InsertTrue
<1>3. ASSUME NEW j \in Items, BackoffOver(j)
      PROVE  row' \in [Items -> Row] /\ RowInv(i)'
  <2>1. row' = [row EXCEPT ![j] = [row[j] EXCEPT !.due = TRUE]]
    BY <1>3 DEF BackoffOver
  <2>2. \A k \in Items : [row[k] EXCEPT !.due = TRUE] \in Row
    BY <1>t DEF Row
  <2>3. row' \in [Items -> Row]
    BY <1>t, <2>1, <2>2
  <2>4. /\ row'[i].status = row[i].status
        /\ row'[i].attempt = row[i].attempt
        /\ row'[i].to = row[i].to
    BY <1>t, <2>1 DEF Row
  <2> QED
    BY <2>3, <2>4, RowStays
<1>4. ASSUME NEW w \in Workers, DropHook(w)
      PROVE  row' \in [Items -> Row] /\ RowInv(i)'
  <2>1. row' = [k \in Items |-> IF k \in worker[w].item
                                THEN [row[k] EXCEPT !.status = "failed"]
                                ELSE row[k]]
    BY <1>4 DEF DropHook
  <2>2. \A k \in Items : [row[k] EXCEPT !.status = "failed"] \in Row
    BY <1>t DEF Row
  <2>3. row' \in [Items -> Row]
    BY <1>t, <2>1, <2>2
  <2>4. CASE i \in worker[w].item
    <3>1. /\ i \in Hooks
          /\ row[i].status # "none"
          /\ endpoint[row[i].to] = "disabled"
      BY <1>4, <2>4 DEF DropHook, At, QueueInv, TickInv, HookPcs
    <3>2. /\ row'[i].status = "failed"
          /\ row'[i].attempt = row[i].attempt
          /\ row'[i].to = row[i].to
      BY <1>t, <2>1, <2>4 DEF Row
    <3>3. row[i].to \in Endpoints /\ row[i].to # NoEndpoint
      BY <3>1, QueueAssumption DEF QueueInv, RowInv
    <3>4. UNCHANGED <<endpoint, tries>>
      BY <1>4 DEF DropHook
    <3>5. row[i].attempt <= tries[i]
      BY DEF QueueInv, RowInv
    <3> QED
      BY <2>3, <3>1, <3>2, <3>3, <3>4, <3>5 DEF RowInv
  <2>5. CASE i \notin worker[w].item
    BY <2>1, <2>3, <2>5, RowStays
  <2> QED
    BY <2>4, <2>5
<1>5. ASSUME NEW w \in Workers, RecordHook(w) \/ RecordMail(w)
      PROVE  row' \in [Items -> Row] /\ RowInv(i)'
  <2>1. row' = [k \in Items |-> IF k \in worker[w].item THEN Outcome(w, k)
                                ELSE row[k]]
    BY <1>5 DEF RecordHook, RecordMail, Record
  <2>2. worker[w].pc \in {"record", "record_mail"}
    BY <1>5 DEF RecordHook, RecordMail, At
  <2>3. \A k \in worker[w].item : row'[k] \in Row /\ RowInv(k)'
    <3> SUFFICES ASSUME NEW k \in worker[w].item
                 PROVE  row'[k] \in Row /\ RowInv(k)'
      OBVIOUS
    <3>1. row'[k] = Outcome(w, k)
      BY <1>t, <2>1 DEF Tick
    <3> QED
      BY <2>2, <3>1, OutcomeTrue
  <2>4. row' \in [Items -> Row]
    <3>1. \A k \in Items : row'[k] \in Row
      BY <1>t, <2>1, <2>3
    <3> QED
      BY <2>1, <3>1
  <2>5. CASE i \in worker[w].item
    BY <2>3, <2>4, <2>5
  <2>6. CASE i \notin worker[w].item
    BY <2>1, <2>4, <2>6, RowStays
  <2> QED
    BY <2>5, <2>6
<1>6. CASE row' = row
  BY <1>t, <1>6, RowStays
<1> QED
  BY <1>1, <1>2, <1>3, <1>4, <1>5, <1>6, NextCases, TickWrites
  DEF RegisterEndpoint, RemoveEndpoint, vars

-----------------------------------------------------------------------------
(* The ticks.                                                              *)

\* What a tick knows about a row stays true whoever moves.
LEMMA CopyKept ==
    ASSUME QueueInv, [Next]_vars, NEW i \in Items, NEW n \in 0 .. MaxAttempts,
           row[i].status # "none"
    PROVE  /\ row'[i].status # "none"
           /\ n <= tries[i] => n <= tries'[i]
           /\ n < tries[i] => n < tries'[i]
           /\ i \in accepted => i \in accepted'
           /\ i \in Hooks /\ endpoint[row[i].to] = "disabled"
                => endpoint'[row'[i].to] = "disabled"
<1>1. QueueTypeOK /\ RowInv(i) /\ MaxAttempts \in Nat
  BY QueueAssumption DEF QueueInv
<1>2. row'[i].status # "none" /\ row'[i].to = row[i].to
  BY <1>1, RowsKept
<1>3. /\ tries[i] \in 0 .. MaxAttempts
      /\ tries'[i] \in 0 .. MaxAttempts
      /\ tries[i] <= tries'[i]
      /\ accepted \subseteq accepted'
  BY <1>1, TypeParts, AttemptsGrow
<1>4. i \in Hooks => row[i].to \in Endpoints
  BY <1>1 DEF RowInv
<1> QED
  BY <1>1, <1>2, <1>3, <1>4, EndpointsKept

LEMMA TickStays ==
    ASSUME QueueInv, [Next]_vars, NEW w \in Workers, worker'[w] = worker[w]
    PROVE  TickInv(w)'
<1>1. TickInv(w) /\ worker[w] \in Tick
  BY TypeParts DEF QueueInv
<1>2. ASSUME NEW i \in worker[w].batch \cup worker[w].item
      PROVE  i \in Items /\ worker[w].seen[i] \in 0 .. MaxAttempts
  BY <1>1 DEF Tick
<1>3. ASSUME NEW i \in worker[w].batch \cup worker[w].item
      PROVE  /\ row'[i].status # "none"
             /\ worker[w].seen[i] < MaxAttempts
             /\ worker[w].seen[i] <= tries'[i]
  BY <1>1, <1>2, CopyKept DEF TickInv
<1>4. ASSUME NEW i \in worker[w].item
      PROVE  /\ worker[w].pc \in {"record", "record_mail"}
                  => /\ worker[w].seen[i] < tries'[i]
                     /\ worker[w].ok => i \in accepted'
             /\ worker[w].pc = "drop" => endpoint'[row'[i].to] = "disabled"
  BY <1>1, <1>2, CopyKept DEF TickInv, HookPcs
<1> QED
  BY <1>1, <1>3, <1>4 DEF TickInv

LEMMA IdleTick == IdleWorker \in Tick
  BY QueueAssumption DEF IdleWorker, Tick, Pcs

LEMMA IdleTrue ==
    ASSUME QueueTypeOK, NEW w \in Workers,
           worker' = [worker EXCEPT ![w] = IdleWorker]
    PROVE  worker'[w] \in Tick /\ TickInv(w)'
<1>1. worker'[w] = IdleWorker
  BY DEF QueueTypeOK
<1> QED
  BY <1>1, IdleTick DEF TickInv, IdleWorker, HookPcs

\* A batch that has just been read.
LEMMA LoadTrue ==
    ASSUME QueueInv, NEW w \in Workers, NEW queue \in SUBSET Items,
           NEW label \in {"hooks", "mails"}, Load(w, label, queue),
           label = "hooks" => queue = Hooks,
           UNCHANGED <<row, tries>>
    PROVE  worker'[w] \in Tick /\ TickInv(w)'
<1>t. QueueTypeOK /\ row \in [Items -> Row] /\ MaxAttempts \in Nat \ {0}
  BY TypeParts, QueueAssumption DEF QueueInv
<1>1. PICK batch \in SUBSET Due(queue) :
        worker' = [worker EXCEPT ![w] =
                     [IdleWorker EXCEPT !.pc = label, !.batch = batch,
                        !.seen = [i \in Items |-> IF i \in batch
                                                  THEN row[i].attempt ELSE 0]]]
  BY DEF Load
<1> DEFINE copies == [i \in Items |-> IF i \in batch THEN row[i].attempt ELSE 0]
<1>2. /\ worker'[w].pc = label
      /\ worker'[w].batch = batch
      /\ worker'[w].item = {}
      /\ worker'[w].seen = copies
      /\ worker'[w] = [IdleWorker EXCEPT !.pc = label, !.batch = batch,
                                         !.seen = copies]
  BY <1>t, <1>1 DEF QueueTypeOK, IdleWorker
<1>3. batch \subseteq queue /\ batch \subseteq Items
  BY DEF Due
<1>4. ASSUME NEW i \in batch
      PROVE  /\ row[i].status = "pending"
             /\ copies[i] = row[i].attempt
             /\ row[i].attempt < MaxAttempts
             /\ row[i].attempt <= tries[i]
  BY <1>3 DEF Due, Pending, QueueInv, RowInv
<1>5. copies \in [Items -> 0 .. MaxAttempts]
  BY <1>t DEF Row
<1>6. worker'[w] \in Tick
  <2> HIDE DEF copies
  <2> QED
    BY <1>2, <1>3, <1>5, IdleTick DEF Tick, Pcs
<1>7. TickInv(w)'
  <2> HIDE DEF copies
  <2> QED
    BY <1>2, <1>3, <1>4 DEF TickInv, HookPcs
<1> QED
  BY <1>6, <1>7

\* A row that has just been taken from the batch.
LEMMA BeginTrue ==
    ASSUME QueueInv, NEW w \in Workers, NEW i \in worker[w].batch,
           NEW label \in {"drop", "post"}, Begin(w, i, label), At(w, "hooks"),
           label = "drop" => endpoint[row[i].to] # "active",
           UNCHANGED <<endpoint, row, tries, accepted>>
    PROVE  worker'[w] \in Tick /\ TickInv(w)'
<1>t. QueueTypeOK /\ worker \in [Workers -> Tick] /\ TickInv(w)
  BY TypeParts DEF QueueInv
<1>1. worker'[w] = [worker[w] EXCEPT !.pc = label, !.item = {i},
                                     !.batch = @ \ {i}]
  BY <1>t DEF Begin
<1>2. i \in Hooks /\ i \in Items /\ row[i].status # "none"
  BY <1>t DEF TickInv, At, HookPcs, Tick
<1>3. row[i].to \in Endpoints /\ endpoint[row[i].to] # "none"
  BY <1>2 DEF QueueInv, RowInv
<1>4. label = "drop" => endpoint[row[i].to] = "disabled"
  BY <1>t, <1>3 DEF QueueTypeOK
<1>5. worker'[w] \in Tick
  <2>1. {i} \in SUBSET Items /\ worker[w].batch \ {i} \in SUBSET Items
    BY <1>t, <1>2 DEF Tick
  <2>2. label \in Pcs
    BY DEF Pcs
  <2> QED
    BY <1>t, <1>1, <2>1, <2>2 DEF Tick
<1>6. /\ worker'[w].pc = label
      /\ worker'[w].item = {i}
      /\ worker'[w].batch = worker[w].batch \ {i}
      /\ worker'[w].seen = worker[w].seen
  BY <1>t, <1>1 DEF Tick
<1> QED
  BY <1>t, <1>2, <1>4, <1>5, <1>6 DEF TickInv, At, HookPcs

\* An attempt that has just been made.
LEMMA SendTrue ==
    ASSUME QueueInv, NEW w \in Workers, NEW label \in {"record", "record_mail"},
           NEW i \in worker[w].batch \cup worker[w].item, Send(w, i, label),
           label = "record" => At(w, "post"),
           UNCHANGED <<endpoint, row>>
    PROVE  worker'[w] \in Tick /\ TickInv(w)'
<1>t. QueueTypeOK /\ worker \in [Workers -> Tick] /\ TickInv(w)
  BY TypeParts DEF QueueInv
<1>1. PICK taken \in BOOLEAN, answered \in BOOLEAN :
        /\ answered => taken
        /\ accepted' = IF taken THEN accepted \cup {i} ELSE accepted
        /\ worker' = [worker EXCEPT ![w].pc = label, ![w].item = {i},
                                    ![w].batch = @ \ {i}, ![w].ok = answered]
  BY DEF Send
<1>2. worker'[w] = [worker[w] EXCEPT !.pc = label, !.item = {i},
                                     !.batch = @ \ {i}, !.ok = answered]
  BY <1>t, <1>1
<1>3. /\ worker'[w].pc = label
      /\ worker'[w].item = {i}
      /\ worker'[w].batch = worker[w].batch \ {i}
      /\ worker'[w].seen = worker[w].seen
      /\ worker'[w].ok = answered
  BY <1>t, <1>2 DEF Tick
<1>4. i \in Items
  BY <1>t DEF Tick
<1>5. worker'[w] \in Tick
  <2>1. {i} \in SUBSET Items /\ worker[w].batch \ {i} \in SUBSET Items
    BY <1>t, <1>4 DEF Tick
  <2>2. label \in Pcs
    BY DEF Pcs
  <2> QED
    BY <1>t, <1>2, <2>1, <2>2 DEF Tick
<1>6. ASSUME NEW j \in worker'[w].batch \cup worker'[w].item
      PROVE  /\ row'[j].status # "none"
             /\ worker'[w].seen[j] < MaxAttempts
             /\ worker'[w].seen[j] <= tries'[j]
             /\ j = i => worker'[w].seen[j] < tries'[j]
  <2>1. j \in worker[w].batch \cup worker[w].item /\ j \in Items
    BY <1>t, <1>3 DEF Tick
  <2>2. /\ worker[w].seen[j] \in 0 .. MaxAttempts
        /\ tries[j] \in 0 .. MaxAttempts
        /\ MaxAttempts \in Nat
    BY <1>t, <2>1, QueueAssumption DEF Tick, QueueTypeOK
  <2>3. /\ row[j].status # "none"
        /\ worker[w].seen[j] < MaxAttempts
        /\ worker[w].seen[j] <= tries[j]
    BY <1>t, <2>1 DEF TickInv
  <2>4. /\ tries'[j] \in tries[j] .. MaxAttempts
        /\ j = i => tries'[j] > tries[j] \/ tries'[j] = MaxAttempts
    BY <1>t, <1>4, <2>1, SendGrows
  <2> QED
    BY <1>3, <2>2, <2>3, <2>4
<1>7. answered => i \in accepted'
  BY <1>1
<1>8. label = "record" => worker'[w].batch \cup worker'[w].item \subseteq Hooks
  BY <1>t, <1>3 DEF TickInv, At, HookPcs
<1> QED
  BY <1>3, <1>5, <1>6, <1>7, <1>8 DEF TickInv, HookPcs

\* A tick that is done with its row.
LEMMA DoneTrue ==
    ASSUME QueueInv, [Next]_vars, NEW w \in Workers,
           NEW label \in {"hooks", "mails"}, Done(w, label),
           label = "hooks" => worker[w].pc \in HookPcs,
           UNCHANGED <<endpoint, tries, accepted>>
    PROVE  worker'[w] \in Tick /\ TickInv(w)'
<1>t. QueueTypeOK /\ worker \in [Workers -> Tick] /\ TickInv(w)
      /\ MaxAttempts \in Nat \ {0}
  BY TypeParts, QueueAssumption DEF QueueInv
<1> DEFINE copies == [i \in Items |-> IF i \in worker[w].item THEN 0
                                      ELSE worker[w].seen[i]]
<1>1. worker'[w] = [worker[w] EXCEPT !.pc = label, !.item = {}, !.ok = FALSE,
                                     !.seen = copies]
  BY <1>t DEF Done, Tick
<1>2. copies \in [Items -> 0 .. MaxAttempts]
  BY <1>t DEF Tick
<1>3. ASSUME NEW i \in worker[w].batch
      PROVE  /\ i \in Items
             /\ row'[i].status # "none"
             /\ copies[i] < MaxAttempts
             /\ copies[i] <= tries'[i]
  <2>1. i \in Items /\ worker[w].seen[i] \in 0 .. MaxAttempts
    BY <1>t DEF Tick
  <2>2. /\ row[i].status # "none"
        /\ worker[w].seen[i] < MaxAttempts
        /\ worker[w].seen[i] <= tries[i]
    BY <1>t DEF TickInv
  <2>3. tries'[i] \in Nat
    BY <2>1, AttemptsGrow, <1>t
  <2> QED
    BY <1>t, <2>1, <2>2, <2>3, CopyKept
<1> HIDE DEF copies
<1>4. /\ worker'[w].pc = label
      /\ worker'[w].item = {}
      /\ worker'[w].batch = worker[w].batch
      /\ worker'[w].seen = copies
  BY <1>t, <1>1 DEF Tick
<1>5. worker'[w] \in Tick
  BY <1>t, <1>1, <1>2 DEF Tick, Pcs
<1>6. label = "hooks" => worker[w].batch \subseteq Hooks
  BY <1>t DEF TickInv
<1> QED
  BY <1>3, <1>4, <1>5, <1>6 DEF TickInv, HookPcs

LEMMA SentFailsTrue ==
    ASSUME QueueInv, NEW w \in Workers, RecordSentFails(w)
    PROVE  worker'[w] \in Tick /\ TickInv(w)'
<1>t. worker \in [Workers -> Tick] /\ TickInv(w)
  BY TypeParts DEF QueueInv
<1>1. worker'[w] = [worker[w] EXCEPT !.ok = FALSE]
  BY <1>t DEF RecordSentFails
<1>2. worker'[w] \in Tick
  BY <1>t, <1>1 DEF Tick
<1>3. /\ worker'[w].pc = worker[w].pc
      /\ worker'[w].item = worker[w].item
      /\ worker'[w].batch = worker[w].batch
      /\ worker'[w].seen = worker[w].seen
      /\ worker'[w].ok = FALSE
  BY <1>t, <1>1 DEF Tick
<1> QED
  BY <1>t, <1>2, <1>3 DEF TickInv, RecordSentFails

LEMMA TickTrue ==
    ASSUME QueueInv, [Next]_vars, NEW w \in Workers, TickStep(w)
    PROVE  worker'[w] \in Tick /\ TickInv(w)'
<1>t. QueueTypeOK
  BY DEF QueueInv
<1>i. worker[w].batch \subseteq Items /\ worker[w].item \subseteq Items
  BY <1>t DEF QueueTypeOK
<1>1. CASE TickStart(w) \/ HooksDone(w)
  <2>1. Hooks \subseteq Items /\ Mails \subseteq Items
    BY DEF Items
  <2> QED
    BY <1>1, <2>1, LoadTrue DEF TickStart, HooksDone
<1>2. CASE LookUpRemoved(w) \/ LookUpActive(w)
  BY <1>2, BeginTrue DEF LookUpRemoved, LookUpActive
<1>3. CASE LookUpThrows(w) \/ MailsDone(w) \/ TickKilled(w)
  BY <1>3, <1>t, IdleTrue DEF LookUpThrows, MailsDone, TickKilled
<1>4. CASE DropHook(w) \/ RecordHook(w) \/ RecordMail(w)
  BY <1>4, DoneTrue DEF DropHook, RecordHook, RecordMail, At, HookPcs
<1>5. CASE PostHook(w) \/ SendMail(w)
  BY <1>5, SendTrue DEF PostHook, SendMail
<1>6. CASE RecordSentFails(w)
  BY <1>6, SentFailsTrue
<1> QED
  BY <1>1, <1>2, <1>3, <1>4, <1>5, <1>6 DEF TickStep, HookStep, MailStep

LEMMA TicksStep ==
    ASSUME QueueInv, [Next]_vars
    PROVE  worker' \in [Workers -> Tick] /\ \A v \in Workers : TickInv(v)'
<1>t. QueueTypeOK /\ worker \in [Workers -> Tick]
  BY TypeParts DEF QueueInv
<1>1. ASSUME NEW w \in Workers, TickStep(w)
      PROVE  worker' \in [Workers -> Tick] /\ \A v \in Workers : TickInv(v)'
  <2>1. worker'[w] \in Tick /\ TickInv(w)'
    BY <1>1, TickTrue
  <2>2. worker' = [worker EXCEPT ![w] = worker'[w]]
    BY <1>1, <1>t, OthersStay
  <2>3. \A v \in Workers \ {w} : worker'[v] = worker[v]
    BY <1>t, <2>2
  <2> QED
    BY <1>t, <2>1, <2>2, <2>3, TickStays
<1>2. CASE UNCHANGED worker
  BY <1>t, <1>2, TickStays
<1> QED
  BY <1>1, <1>2, NextCases
  DEF RegisterEndpoint, RemoveEndpoint, EnqueueHook, EnqueueMail, BackoffOver,
      vars

LEMMA FailuresBounded ==
    ASSUME QueueTypeOK, [Next]_vars
    PROVE  failures' \in 0 .. MaxFailures
<1>1. failures \in 0 .. MaxFailures /\ MaxFailures \in Nat
  BY QueueAssumption DEF QueueTypeOK
<1>2. UNCHANGED failures \/ (failures < MaxFailures /\ failures' = failures + 1)
  BY DEF Next, vars, RegisterEndpoint, RemoveEndpoint, EnqueueHook, EnqueueMail,
         BackoffOver, HookStep, TickStart, LookUpRemoved, LookUpActive,
         LookUpThrows, DropHook, PostHook, RecordHook, MailStep, HooksDone,
         SendMail, RecordMail, MailsDone, RecordSentFails, TickKilled
<1> QED
  BY <1>1, <1>2

LEMMA QueueInvInit == Init => QueueInv
<1> SUFFICES ASSUME Init
             PROVE  QueueInv
  OBVIOUS
<1> USE QueueAssumption DEF Init
<1>1. NoRow \in Row
  BY DEF NoRow, Row
<1>2. QueueTypeOK
  BY <1>1, IdleTick, TypeParts
<1>3. ASSUME NEW i \in Items
      PROVE  RowInv(i)
  BY DEF RowInv, NoRow
<1>4. ASSUME NEW w \in Workers
      PROVE  TickInv(w)
  BY DEF TickInv, IdleWorker, HookPcs
<1> QED
  BY <1>2, <1>3, <1>4 DEF QueueInv

LEMMA QueueInvNext == QueueInv /\ [Next]_vars => QueueInv'
<1> SUFFICES ASSUME QueueInv, [Next]_vars
             PROVE  QueueInv'
  OBVIOUS
<1>1. /\ endpoint' \in [Endpoints -> {"none", "active", "disabled"}]
      /\ failures' \in 0 .. MaxFailures
      /\ tries' \in [Items -> 0 .. MaxAttempts]
      /\ accepted' \subseteq Items
  BY EndpointsKept, FailuresBounded, AttemptsGrow DEF QueueInv
<1>2. row' \in [Items -> Row]
  <2>1. CASE Items = {}
    <3>1. row' \in [{} -> Row] \/ \E i \in Items : TRUE
      BY <2>1, NextCases, TickWrites, TypeParts
      DEF RegisterEndpoint, RemoveEndpoint, EnqueueHook, EnqueueMail,
          BackoffOver, vars, DropHook, RecordHook, RecordMail, Record, Items,
          QueueInv
    <3> QED
      BY <2>1, <3>1
  <2>2. CASE Items # {}
    BY <2>2, RowsStep
  <2> QED
    BY <2>1, <2>2
<1>3. QueueTypeOK'
  BY <1>1, <1>2, TicksStep DEF QueueTypeOK, Row, Tick
<1> QED
  BY <1>3, RowsStep, TicksStep DEF QueueInv

LEMMA QueueInductive == Spec => []QueueInv
  BY QueueInvInit, QueueInvNext, PTL DEF Spec

-----------------------------------------------------------------------------
(* The safety properties of the module.                                    *)

\* The tables keep their types: in particular no attempt counter, and no copy
\* of one, passes the limit, although every tick adds one to what it read.
THEOREM QueueTypeCorrect == Spec => []QueueTypeOK
<1>1. QueueInv => QueueTypeOK
  BY DEF QueueInv
<1> QED
  BY <1>1, QueueInductive, PTL

\* Whatever is shown as delivered, or sent, was taken by its receiver.
THEOREM DeliveredTrue == Spec => []DeliveredWasAccepted
<1>1. QueueInv => DeliveredWasAccepted
  BY DEF QueueInv, RowInv, DeliveredWasAccepted
<1> QED
  BY <1>1, QueueInductive, PTL

\* A message is given up only after the full number of attempts: ticks that
\* overlap or die lose counts but never invent one.
THEOREM DeadLettersExhausted == Spec => []DeadLetterIsExhausted
<1>1. QueueInv => DeadLetterIsExhausted
  BY DEF QueueInv, RowInv, DeadLetterIsExhausted
<1> QED
  BY <1>1, QueueInductive, PTL

\* Only the removal of its endpoint fails a delivery without further attempts.
THEOREM FailedByRemoval == Spec => []FailedMeansRemoved
<1>1. QueueInv => FailedMeansRemoved
  BY DEF QueueInv, RowInv, FailedMeansRemoved
<1> QED
  BY <1>1, QueueInductive, PTL

\* A settled row says what happened to its message.
THEOREM SettledTrue == Spec => []SettledRowsAreTrue
BY DeliveredTrue, DeadLettersExhausted, FailedByRemoval, PTL
DEF SettledRowsAreTrue

-----------------------------------------------------------------------------
(* What a step may not do.                                                 *)

\* A tick comes to hold a row only by reading it as pending.
LEMMA HoldsAppear ==
    ASSUME QueueTypeOK, NEW w \in Workers, TickStep(w), NEW i \in Items,
           Settled(i), ~Holds(w, i)
    PROVE  ~Holds(w, i)'
<1>t. worker \in [Workers -> Tick]
  BY TypeParts
<1>1. ASSUME NEW queue, NEW label, Load(w, label, queue)
      PROVE  ~Holds(w, i)'
  <2>1. PICK batch \in SUBSET Due(queue) :
          worker'[w].batch = batch /\ worker'[w].item = {}
    BY <1>t, <1>1 DEF Load, IdleWorker
  <2>2. i \notin batch
    BY DEF Due, Pending, Settled
  <2> QED
    BY <2>1, <2>2 DEF Holds
<1>2. ASSUME NEW h \in worker[w].batch \cup worker[w].item,
             worker'[w].item = {h}, worker'[w].batch = worker[w].batch \ {h}
      PROVE  ~Holds(w, i)'
  BY <1>2 DEF Holds
<1>3. CASE TickStart(w) \/ HooksDone(w)
  BY <1>1, <1>3 DEF TickStart, HooksDone
<1>4. CASE LookUpRemoved(w) \/ LookUpActive(w)
  <2>1. PICK h \in worker[w].batch, label \in {"drop", "post"} :
          Begin(w, h, label)
    BY <1>4 DEF LookUpRemoved, LookUpActive
  <2>2. worker'[w].item = {h} /\ worker'[w].batch = worker[w].batch \ {h}
    BY <1>t, <2>1 DEF Begin, Tick
  <2> QED
    BY <1>2, <2>2
<1>5. CASE PostHook(w) \/ SendMail(w)
  <2>1. PICK h \in worker[w].batch \cup worker[w].item,
             label \in {"record", "record_mail"} : Send(w, h, label)
    BY <1>5 DEF PostHook, SendMail
  <2>2. worker'[w].item = {h} /\ worker'[w].batch = worker[w].batch \ {h}
    BY <1>t, <2>1 DEF Send, Tick
  <2> QED
    BY <1>2, <2>2
<1>6. CASE LookUpThrows(w) \/ MailsDone(w) \/ TickKilled(w)
  BY <1>t, <1>6 DEF LookUpThrows, MailsDone, TickKilled, Holds, IdleWorker
<1>7. CASE DropHook(w) \/ RecordHook(w) \/ RecordMail(w)
  BY <1>t, <1>7 DEF DropHook, RecordHook, RecordMail, Done, Holds, Tick
<1>8. CASE RecordSentFails(w)
  BY <1>t, <1>8 DEF RecordSentFails, Holds, Tick
<1> QED
  BY <1>3, <1>4, <1>5, <1>6, <1>7, <1>8 DEF TickStep, HookStep, MailStep

LEMMA SettledStep ==
    ASSUME QueueTypeOK, [Next]_vars, NEW i \in Items, Settled(i),
           \A w \in Workers : ~Holds(w, i)
    PROVE  /\ row'[i] = row[i] /\ tries'[i] = tries[i]
           /\ \A w \in Workers : ~Holds(w, i)'
<1>t. /\ row \in [Items -> Row]
      /\ worker \in [Workers -> Tick]
      /\ tries \in [Items -> 0 .. MaxAttempts]
  BY TypeParts
<1>1. ASSUME NEW w \in Workers, TickStep(w)
      PROVE  row'[i] = row[i]
  BY <1>t, <1>1, TickWrites DEF DropHook, RecordHook, RecordMail, Record, Holds
<1>2. ASSUME NEW w \in Workers, TickStep(w)
      PROVE  tries'[i] = tries[i]
  <2>1. CASE PostHook(w) \/ SendMail(w)
    <3>1. PICK h \in worker[w].batch \cup worker[w].item,
               label \in {"record", "record_mail"} : Send(w, h, label)
      BY <2>1 DEF PostHook, SendMail
    <3>2. h # i
      BY <3>1 DEF Holds
    <3> QED
      BY <1>t, <3>1, <3>2 DEF Send
  <2> QED
    BY <1>2, <2>1, TickSends
<1>3. ASSUME NEW w \in Workers, TickStep(w), NEW v \in Workers
      PROVE  ~Holds(v, i)'
  <2>1. CASE v = w
    BY <1>3, <2>1, HoldsAppear
  <2>2. CASE v # w
    BY <1>t, <1>3, <2>2, OthersStay DEF Holds
  <2> QED
    BY <2>1, <2>2
<1>4. CASE EnqueueHook \/ EnqueueMail
  BY <1>t, <1>4 DEF EnqueueHook, EnqueueMail, Insert, Settled, Holds
<1>5. ASSUME NEW j \in Items, BackoffOver(j)
      PROVE  /\ row'[i] = row[i] /\ tries'[i] = tries[i]
             /\ \A w \in Workers : ~Holds(w, i)'
  BY <1>t, <1>5 DEF BackoffOver, Pending, Settled, Holds
<1> QED
  BY <1>1, <1>2, <1>3, <1>4, <1>5, NextCases
  DEF RegisterEndpoint, RemoveEndpoint, vars, Holds

\* Once the ticks that read it as pending are over, a settled message is
\* neither tried nor rewritten: the due query is what protects it.
THEOREM SettledForGood == Spec => SettledStaysSettled
<1>1. QueueTypeOK /\ [Next]_vars
        => [\A i \in Items :
               Settled(i) /\ (\A w \in Workers : ~Holds(w, i))
                 => /\ row'[i] = row[i] /\ tries'[i] = tries[i]
                    /\ \A w \in Workers : ~Holds(w, i)']_vars
  BY SettledStep
<1> QED
  BY <1>1, QueueTypeCorrect, PTL DEF Spec, SettledStaysSettled
=============================================================================

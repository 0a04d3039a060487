---------------------------- MODULE DeliveryQueue ----------------------------
(***************************************************************************)
(* The two retry queues a worker tick starts with: webhook deliveries      *)
(* (packages/webhooks/src/webhooks.ts) and the e-mail outbox               *)
(* (packages/webhooks/src/email.ts).                                       *)
(*                                                                         *)
(* A tick reads the due rows once, then works through its copies: for each *)
(* it sends the message and writes the outcome by id.  No row is claimed,  *)
(* so two ticks may work on the same row, and either may die between the   *)
(* send and the write.  Time is abstracted to one bit per row: whether its *)
(* retry time has come.                                                    *)
(***************************************************************************)
EXTENDS Naturals, FiniteSets

CONSTANTS
    Hooks,        \* ids of webhook_deliveries rows
    Mails,        \* ids of email_outbox rows
    Endpoints,    \* ids of webhook_endpoints rows
    NoEndpoint,   \* the endpoint of an e-mail, or of a row not yet inserted
    Unreadable,   \* endpoints whose secret the worker's key cannot decrypt
    Workers,      \* ticks that may overlap
    MaxAttempts,  \* max_attempts, 6 in the code
    BatchLimit,   \* rows one tick takes from each queue, 20 in the code
    MaxFailures   \* bound on killed ticks and failed database writes

ASSUME QueueAssumption ==
    /\ Hooks \cap Mails = {}
    /\ NoEndpoint \notin Endpoints
    /\ Unreadable \subseteq Endpoints
    /\ MaxAttempts \in Nat \ {0}
    /\ BatchLimit \in Nat \ {0}
    /\ MaxFailures \in Nat

VARIABLES
    endpoint,  \* webhook_endpoints.status, "none" before it is registered
    row,       \* both tables, by id
    worker,    \* per worker: where its tick stands
    tries,     \* attempts at each row so far, counted up to MaxAttempts
    accepted,  \* rows whose receiver has accepted a send
    failures   \* failures so far

vars == <<endpoint, row, worker, tries, accepted, failures>>

Items == Hooks \cup Mails

NoRow == [status |-> "none", attempt |-> 0, to |-> NoEndpoint, due |-> FALSE]

IdleWorker == [pc |-> "idle", batch |-> {}, seen |-> [i \in Items |-> 0],
               item |-> {}, ok |-> FALSE]

Pcs == {"idle", "hooks", "drop", "post", "record", "mails", "record_mail"}

\* The type invariant of the queues and of the ticks.  item holds the one row
\* a tick is working on; "delivered" stands for "sent" in the outbox.
QueueTypeOK ==
    /\ endpoint \in [Endpoints -> {"none", "active", "disabled"}]
    /\ row \in [Items ->
                  [status : {"none", "pending", "delivered", "failed",
                             "dead_letter"},
                   attempt : 0 .. MaxAttempts,
                   to : Endpoints \cup {NoEndpoint}, due : BOOLEAN]]
    /\ worker \in [Workers ->
                     [pc : Pcs, batch : SUBSET Items,
                      seen : [Items -> 0 .. MaxAttempts],
                      item : SUBSET Items, ok : BOOLEAN]]
    /\ tries \in [Items -> 0 .. MaxAttempts]
    /\ accepted \subseteq Items
    /\ failures \in 0 .. MaxFailures

Init ==
    /\ endpoint = [e \in Endpoints |-> "none"]
    /\ row = [i \in Items |-> NoRow]
    /\ worker = [w \in Workers |-> IdleWorker]
    /\ tries = [i \in Items |-> 0]
    /\ accepted = {}
    /\ failures = 0

Pending(i) == row[i].status = "pending"
Settled(i) == row[i].status \in {"delivered", "failed", "dead_letter"}
At(w, label) == worker[w].pc = label

-----------------------------------------------------------------------------
(* Endpoints and events.                                                   *)

RegisterEndpoint(e) ==
    /\ endpoint[e] = "none"
    /\ endpoint' = [endpoint EXCEPT ![e] = "active"]
    /\ UNCHANGED <<row, worker, tries, accepted, failures>>

\* An endpoint is never enabled again.
RemoveEndpoint(e) ==
    /\ endpoint[e] = "active"
    /\ endpoint' = [endpoint EXCEPT ![e] = "disabled"]
    /\ UNCHANGED <<row, worker, tries, accepted, failures>>

\* Inserts a fresh row, due at once.
Insert(i, e) ==
    /\ row[i].status = "none"
    /\ row' = [row EXCEPT ![i] = [status |-> "pending", attempt |-> 0,
                                  to |-> e, due |-> TRUE]]

\* enqueueEvent inserts one delivery for each subscribed endpoint that it has
\* read as active.  Each insert comes some time after that read, when the
\* endpoint may have been removed, and the request may die between two of
\* them: every endpoint registered so far may get its row now, or never.
EnqueueHook ==
    /\ \E h \in Hooks, e \in Endpoints : endpoint[e] # "none" /\ Insert(h, e)
    /\ UNCHANGED <<endpoint, worker, tries, accepted, failures>>

EnqueueMail ==
    /\ \E m \in Mails : Insert(m, NoEndpoint)
    /\ UNCHANGED <<endpoint, worker, tries, accepted, failures>>

\* Mutant: the outbox forgets to set next_attempt_at.
BackoffHooksOnly(i) ==
    /\ Pending(i)
    /\ ~row[i].due
    /\ i \in Hooks
    /\ row' = [row EXCEPT ![i].due = TRUE]
    /\ UNCHANGED <<endpoint, worker, tries, accepted, failures>>

\* next_retry_at of a row that has been tried passes.
BackoffOver(i) ==
    /\ Pending(i)
    /\ ~row[i].due
    /\ row' = [row EXCEPT ![i].due = TRUE]
    /\ UNCHANGED <<endpoint, worker, tries, accepted, failures>>

-----------------------------------------------------------------------------
(* processDueDeliveries.                                                   *)

\* Mutant: the due query forgets the status.
DueByTime(queue) == {i \in queue : row[i].status # "none" /\ row[i].due}

Due(queue) == {i \in queue : Pending(i) /\ row[i].due}

\* The tick reads at most BatchLimit due rows of a queue: their attempt
\* counters are copies from here on.
Load(w, label, queue) ==
    \E batch \in SUBSET Due(queue) :
        /\ \/ batch = Due(queue) /\ Cardinality(batch) <= BatchLimit
           \/ batch # Due(queue) /\ Cardinality(batch) = BatchLimit
        /\ worker' = [worker EXCEPT ![w] =
                        [IdleWorker EXCEPT !.pc = label, !.batch = batch,
                           !.seen = [i \in Items |-> IF i \in batch
                                                     THEN row[i].attempt ELSE 0]]]

\* The tick takes row i from its batch, or is done with its row.
Begin(w, i, label) ==
    worker' = [worker EXCEPT ![w].pc = label, ![w].item = {i},
                             ![w].batch = @ \ {i}]
Done(w, label) ==
    worker' = [worker EXCEPT ![w].pc = label, ![w].item = {},
                             ![w].ok = FALSE,
                             ![w].seen = [i \in Items |->
                                IF i \in worker[w].item THEN 0 ELSE @[i]]]

\* Ticks that would find nothing due are left out: they change nothing here.
TickStart(w) ==
    /\ At(w, "idle")
    /\ Due(Items) # {}
    /\ Load(w, "hooks", Hooks)
    /\ UNCHANGED <<endpoint, row, tries, accepted, failures>>

\* The endpoint of the next delivery is looked up.
LookUpRemoved(w) ==
    /\ At(w, "hooks")
    /\ \E h \in worker[w].batch :
          endpoint[row[h].to] # "active" /\ Begin(w, h, "drop")
    /\ UNCHANGED <<endpoint, row, tries, accepted, failures>>

LookUpActive(w) ==
    /\ At(w, "hooks")
    /\ \E h \in worker[w].batch :
          /\ endpoint[row[h].to] = "active"
          /\ row[h].to \notin Unreadable
          /\ Begin(w, h, "post")
    /\ UNCHANGED <<endpoint, row, tries, accepted, failures>>

\* decryptSecret throws, outside any try: the tick is over, and the row that
\* caused it has not been touched.
LookUpThrows(w) ==
    /\ At(w, "hooks")
    /\ \E h \in worker[w].batch : /\ endpoint[row[h].to] = "active"
                                  /\ row[h].to \in Unreadable
    /\ worker' = [worker EXCEPT ![w] = IdleWorker]
    /\ UNCHANGED <<endpoint, row, tries, accepted, failures>>

DropHook(w) ==
    /\ At(w, "drop")
    /\ row' = [i \in Items |-> IF i \in worker[w].item
                               THEN [row[i] EXCEPT !.status = "failed"]
                               ELSE row[i]]
    /\ Done(w, "hooks")
    /\ UNCHANGED <<endpoint, tries, accepted, failures>>

\* One attempt at row i.  The receiver may accept the message although the
\* answer is lost on its way back.  A worker without a fetcher (the Node one)
\* makes attempts that nobody takes.
Send(w, i, label) ==
    \E taken, answered \in BOOLEAN :
        /\ answered => taken
        /\ tries' = [tries EXCEPT ![i] = IF @ < MaxAttempts THEN @ + 1 ELSE @]
        /\ accepted' = IF taken THEN accepted \cup {i} ELSE accepted
        /\ worker' = [worker EXCEPT ![w].pc = label, ![w].item = {i},
                                    ![w].batch = @ \ {i},
                                    ![w].ok = answered]

PostHook(w) ==
    /\ At(w, "post")
    /\ \E h \in worker[w].item : Send(w, h, "record")
    /\ UNCHANGED <<endpoint, row, failures>>

\* Mutant: the last attempt is not counted.
OutcomeTooSoon(w, i) ==
    LET attempt == worker[w].seen[i] + 1
        dead == attempt + 1 >= MaxAttempts
    IN  [status |-> IF worker[w].ok THEN "delivered"
                    ELSE IF dead THEN "dead_letter" ELSE "pending",
         attempt |-> attempt, to |-> row[i].to, due |-> FALSE]

\* What the tick writes for its row: computed from the copy it has read.
Outcome(w, i) ==
    LET attempt == worker[w].seen[i] + 1
        dead == attempt >= MaxAttempts
    IN  [status |-> IF worker[w].ok THEN "delivered"
                    ELSE IF dead THEN "dead_letter" ELSE "pending",
         attempt |-> attempt, to |-> row[i].to, due |-> FALSE]

Record(w) ==
    row' = [i \in Items |-> IF i \in worker[w].item THEN Outcome(w, i)
                            ELSE row[i]]

RecordHook(w) ==
    /\ At(w, "record")
    /\ Record(w)
    /\ Done(w, "hooks")
    /\ UNCHANGED <<endpoint, tries, accepted, failures>>

-----------------------------------------------------------------------------
(* EmailOutbox.processDue, which the tick calls next.                      *)

HooksDone(w) ==
    /\ At(w, "hooks")
    /\ worker[w].batch = {}
    /\ Load(w, "mails", Mails)
    /\ UNCHANGED <<endpoint, row, tries, accepted, failures>>

SendMail(w) ==
    /\ At(w, "mails")
    /\ \E m \in worker[w].batch : Send(w, m, "record_mail")
    /\ UNCHANGED <<endpoint, row, failures>>

RecordMail(w) ==
    /\ At(w, "record_mail")
    /\ Record(w)
    /\ Done(w, "mails")
    /\ UNCHANGED <<endpoint, tries, accepted, failures>>

\* The update to "sent" is inside the try: when it throws, the mail that was
\* sent is booked as a failed attempt.
RecordSentFails(w) ==
    /\ At(w, "record_mail")
    /\ worker[w].ok
    /\ failures < MaxFailures
    /\ failures' = failures + 1
    /\ worker' = [worker EXCEPT ![w].ok = FALSE]
    /\ UNCHANGED <<endpoint, row, tries, accepted>>

MailsDone(w) ==
    /\ At(w, "mails")
    /\ worker[w].batch = {}
    /\ worker' = [worker EXCEPT ![w] = IdleWorker]
    /\ UNCHANGED <<endpoint, row, tries, accepted, failures>>

\* The worker is killed, or a database call outside the try throws.
TickKilled(w) ==
    /\ ~At(w, "idle")
    /\ failures < MaxFailures
    /\ failures' = failures + 1
    /\ worker' = [worker EXCEPT ![w] = IdleWorker]
    /\ UNCHANGED <<endpoint, row, tries, accepted>>

-----------------------------------------------------------------------------

HookStep(w) ==
    \/ TickStart(w) \/ LookUpRemoved(w) \/ LookUpActive(w) \/ LookUpThrows(w)
    \/ DropHook(w) \/ PostHook(w) \/ RecordHook(w)

MailStep(w) ==
    HooksDone(w) \/ SendMail(w) \/ RecordMail(w) \/ MailsDone(w)

Next ==
    \/ \E e \in Endpoints : RegisterEndpoint(e) \/ RemoveEndpoint(e)
    \/ EnqueueHook \/ EnqueueMail
    \/ \E i \in Items : BackoffOver(i)
    \/ \E w \in Workers : \/ HookStep(w) \/ MailStep(w)
                          \/ RecordSentFails(w) \/ TickKilled(w)

Spec == Init /\ [][Next]_vars

\* Ticks are started for ever and run on, and clocks advance.
FairSpec == /\ Spec
            /\ \A w \in Workers : WF_vars(HookStep(w) \/ MailStep(w))
            /\ \A i \in Items : WF_vars(BackoffOver(i))

-----------------------------------------------------------------------------
(* Properties.                                                             *)

\* A row is only shown as delivered, or sent, when its receiver took it.
DeliveredWasAccepted ==
    \A i \in Items : row[i].status = "delivered" => i \in accepted

\* No row is given up before MaxAttempts attempts were really made: however
\* ticks overlap or die, the counter never runs ahead of the attempts.
DeadLetterIsExhausted ==
    \A i \in Items : row[i].status = "dead_letter" => tries[i] = MaxAttempts

\* A delivery is marked failed, without further attempts, only because its
\* endpoint was removed.
FailedMeansRemoved ==
    \A i \in Items :
        row[i].status = "failed" => row[i].to # NoEndpoint
                                    /\ endpoint[row[i].to] = "disabled"

\* All three: what a settled row says of its message is what happened to it.
SettledRowsAreTrue ==
    DeliveredWasAccepted /\ DeadLetterIsExhausted /\ FailedMeansRemoved

Holds(w, i) == i \in worker[w].batch \cup worker[w].item

\* A settled row is never tried or rewritten again once the ticks that had
\* read it as pending are over.
SettledStaysSettled ==
    [][\A i \in Items :
          Settled(i) /\ (\A w \in Workers : ~Holds(w, i))
              => /\ row'[i] = row[i] /\ tries'[i] = tries[i]
                 /\ \A w \in Workers : ~Holds(w, i)']_vars

\* A pending row whose active endpoint has a secret that cannot be read: it
\* ends every tick that reaches it, before the e-mails are looked at.
Poisoned ==
    \E h \in Hooks : /\ Pending(h)
                     /\ row[h].to \in Unreadable
                     /\ endpoint[row[h].to] = "active"

\* Every queued message is settled in the end, unless an unreadable endpoint
\* stays registered: ticks that die, overlap or fail are made up for.
EveryMessageSettles ==
    <>[]~Poisoned => \A i \in Items : Pending(i) ~> Settled(i)
=============================================================================

--------------------------- MODULE Services_proofs ---------------------------
(***************************************************************************)
(* Proofs about billing, migrations, the front desk, the documents of the  *)
(* archive, the walk through the customers, their import, the status card, *)
(* sign-up, login and sites, for any number of requests, processes, desks, *)
(* clerks, customers, files, days and addresses.                           *)
(***************************************************************************)
EXTENDS Entitlements, Migrator, CheckIns, DocumentAccess, CustomerImport,
        StatusCard, Accounts, FiniteSetTheorems, WellFoundedInduction, TLAPS

-----------------------------------------------------------------------------
(* Billing.                                                                *)

\* What a request found is still about its event, and what was there when it
\* looked is not about it if it found nothing.
LookupHolds(d) ==
    LET v == delivery[d]
    IN v # NoDelivery =>
          /\ v.event \in seen
          /\ v.rows <= Len(entitlements)
          /\ v.found \in 0 .. Len(entitlements)
          /\ v.found # 0 => SameSale(v.event, entitlements[v.found])
          /\ v.found = 0 =>
                \A i \in 1 .. v.rows : ~SameSale(v.event, entitlements[i])

BillingInv ==
    /\ BillingTypeOK
    /\ \A d \in Deliveries : LookupHolds(d)
    /\ EntitlementsAreEarned

LEMMA BillingParts ==
    ASSUME BillingInv
    PROVE  /\ BillingTypeOK
           /\ \A d \in Deliveries : LookupHolds(d)
           /\ EntitlementsAreEarned
  BY DEF BillingInv

LEMMA BillingStarts == BillingInit => BillingInv
<1> SUFFICES ASSUME BillingInit
             PROVE  BillingInv
  OBVIOUS
<1>1. BillingTypeOK
  BY DEF BillingInit, BillingTypeOK
<1>2. \A d \in Deliveries : LookupHolds(d)
  BY DEF BillingInit, LookupHolds
<1>3. EntitlementsAreEarned
  BY DEF BillingInit, EntitlementsAreEarned
<1> QED
  BY <1>1, <1>2, <1>3 DEF BillingInv

\* The row of an event tells of the event.
LEMMA RowOfEvent ==
    ASSUME NEW e \in PaddleEvents
    PROVE  /\ NewEntitlement(e) \in Entitlement
           /\ SameSale(e, NewEntitlement(e))
           /\ StatusAfter(e) = NewEntitlement(e).status
           /\ e.owner = NewEntitlement(e).owner
<1>1. StatusAfter(e) \in {"active", "canceled", "past_due"}
  BY DEF StatusAfter
<1>2. SubscriptionOf(e) \in {x.id : x \in PaddleEvents} \cup {Absent}
  BY DEF SubscriptionOf
<1>3. PlanOf(e) \in {x.item : x \in PaddleEvents} \cup {x.custom : x \in PaddleEvents}
  BY DEF PlanOf
<1> QED
  BY <1>1, <1>2, <1>3 DEF NewEntitlement, Entitlement, SameSale

\* A request is no request only if it has not begun.
LEMMA RequestTyped ==
    ASSUME BillingTypeOK, NEW d \in Deliveries, delivery[d] # NoDelivery
    PROVE  /\ delivery[d].event \in PaddleEvents
           /\ delivery[d].found \in Nat
           /\ delivery[d].rows \in Nat
  BY DEF BillingTypeOK

LEMMA ReceiveKeeps ==
    ASSUME BillingInv, NEW d \in Deliveries, NEW e \in PaddleEvents,
           NEW configured \in BOOLEAN, NEW sigs \in SUBSET {"valid", "invalid"},
           Receive(d, e, configured, sigs)
    PROVE  BillingInv'
<1>1. /\ entitlements' = entitlements
      /\ seen' = seen \cup (IF Relevant(e) /\ "valid" \in sigs THEN {e} ELSE {})
      /\ "valid" \in sigs
      /\ licences' = licences
      /\ downloads' = downloads
  BY DEF Receive, Authentic
<1>2. EntitlementsAreEarned'
  BY <1>1, BillingParts DEF EntitlementsAreEarned
<1>l. Len(entitlements) \in Nat /\ DOMAIN entitlements = 1 .. Len(entitlements)
  BY BillingParts DEF BillingTypeOK
<1>3. CASE ~Relevant(e)
  <2>1. delivery' = delivery /\ seen' = seen
    BY <1>1, <1>3 DEF Receive
  <2>2. BillingTypeOK' /\ \A x \in Deliveries : LookupHolds(x)'
    BY <1>1, <2>1, BillingParts DEF BillingTypeOK, LookupHolds
  <2> QED
    BY <1>2, <2>2 DEF BillingInv
<1>4. CASE Relevant(e)
  <2>1. PICK i \in Nat :
           /\ delivery' = [delivery EXCEPT ![d] =
                 [event |-> e, found |-> i, rows |-> Len(entitlements)]]
           /\ i \in 0 .. Len(entitlements)
           /\ i # 0 => SameSale(e, entitlements[i])
           /\ i = 0 => \A j \in 1 .. Len(entitlements) : ~SameSale(e, entitlements[j])
    <3> DEFINE fit == {i \in DOMAIN entitlements : Matches(e, entitlements[i])}
    <3>1. PICK i \in IF fit = {} THEN {0} ELSE fit :
             delivery' = [delivery EXCEPT ![d] =
                 [event |-> e, found |-> i, rows |-> Len(entitlements)]]
      BY <1>4 DEF Receive
    <3>2. \A j \in 1 .. Len(entitlements) :
             j \in fit <=> SameSale(e, entitlements[j])
      BY <1>l DEF Matches, SameSale
    <3>3. i \in 0 .. Len(entitlements)
      BY <1>l
    <3>4. i # 0 => SameSale(e, entitlements[i])
      BY <1>l, <3>2
    <3>5. i = 0 => \A j \in 1 .. Len(entitlements) : ~SameSale(e, entitlements[j])
      BY <1>l, <3>2
    <3>6. i \in Nat
      BY <1>l, <3>3
    <3> QED
      BY ONLY <3>1, <3>3, <3>4, <3>5, <3>6
  <2>2. seen' = seen \cup {e}
    BY <1>1, <1>4
  <2>3. BillingTypeOK'
    BY <1>1, <1>l, <2>1, <2>2, BillingParts DEF BillingTypeOK
  <2>4. LookupHolds(d)'
    <3> DEFINE v == [event |-> e, found |-> i, rows |-> Len(entitlements)]
    <3>1. delivery'[d] = v
      BY <2>1, BillingParts DEF BillingTypeOK
    <3>2. v.event = e /\ v.found = i /\ v.rows = Len(entitlements)
      OBVIOUS
    <3> HIDE DEF v
    <3> QED
      BY <1>1, <1>l, <2>1, <2>2, <3>1, <3>2 DEF LookupHolds, SameSale
  <2>5. \A x \in Deliveries \ {d} : delivery'[x] = delivery[x]
    BY <2>1, BillingParts DEF BillingTypeOK
  <2>6. \A x \in Deliveries \ {d} : LookupHolds(x)'
    BY <1>1, <2>5, BillingParts DEF LookupHolds
  <2> QED
    BY <1>2, <2>3, <2>4, <2>6 DEF BillingInv
<1> QED
  BY <1>3, <1>4

\* Only rows are appended, and of those there are only their status changes.
LEMMA RowsStay ==
    ASSUME BillingInv, NEW d \in Deliveries, ApplyEvent(d)
    PROVE  /\ entitlements' \in Seq(Entitlement)
           /\ Len(entitlements) <= Len(entitlements')
           /\ \A i \in DOMAIN entitlements, e \in PaddleEvents :
                 SameSale(e, entitlements'[i]) <=> SameSale(e, entitlements[i])
<1> DEFINE e == delivery[d].event
           i == delivery[d].found
<1>1. /\ delivery[d] # NoDelivery
      /\ e \in PaddleEvents
      /\ i \in 0 .. Len(entitlements)
      /\ entitlements \in Seq(Entitlement)
  BY RequestTyped, BillingParts DEF ApplyEvent, LookupHolds, BillingTypeOK
<1>2. CASE i = 0
  <2>1. entitlements' = Append(entitlements, NewEntitlement(e))
    BY <1>2 DEF ApplyEvent
  <2>2. NewEntitlement(e) \in Entitlement
    BY <1>1, RowOfEvent
  <2> HIDE DEF e
  <2> QED
    BY <1>1, <2>1, <2>2
<1>3. CASE i # 0
  <2>1. entitlements' = [entitlements EXCEPT ![i].status = StatusAfter(e)]
    BY <1>3 DEF ApplyEvent
  <2>2. StatusAfter(e) \in {"active", "canceled", "past_due"}
    BY DEF StatusAfter
  <2>3. i \in DOMAIN entitlements /\ entitlements[i] \in Entitlement
    BY <1>1, <1>3
  <2> HIDE DEF e, i
  <2>4. [entitlements[i] EXCEPT !.status = StatusAfter(e)] \in Entitlement
    BY <2>2, <2>3 DEF Entitlement
  <2>5. /\ entitlements' \in Seq(Entitlement)
        /\ Len(entitlements) = Len(entitlements')
    BY <1>1, <2>1, <2>3, <2>4
  <2>6. \A j \in DOMAIN entitlements :
           /\ entitlements'[j].subscription = entitlements[j].subscription
           /\ entitlements'[j].customer = entitlements[j].customer
           /\ entitlements'[j].plan = entitlements[j].plan
    BY <1>1, <2>1, <2>3 DEF Entitlement
  <2> QED
    BY <2>5, <2>6 DEF SameSale
<1> QED
  BY <1>2, <1>3

LEMMA ApplyKeeps ==
    ASSUME BillingInv, NEW d \in Deliveries, ApplyEvent(d)
    PROVE  BillingInv'
<1> DEFINE e == delivery[d].event
           i == delivery[d].found
<1>1. /\ delivery[d] # NoDelivery
      /\ e \in PaddleEvents
      /\ e \in seen
      /\ i \in 0 .. Len(entitlements)
      /\ i # 0 => SameSale(e, entitlements[i])
      /\ entitlements \in Seq(Entitlement)
      /\ seen \subseteq PaddleEvents
  BY RequestTyped, BillingParts DEF ApplyEvent, LookupHolds, BillingTypeOK
<1>2. /\ delivery' = [delivery EXCEPT ![d] = NoDelivery]
      /\ seen' = seen
      /\ licences' = licences
      /\ downloads' = downloads
  BY DEF ApplyEvent
<1>3. BillingTypeOK'
  BY <1>2, RowsStay, BillingParts DEF BillingTypeOK
<1>4. \A x \in Deliveries : LookupHolds(x)'
  <2> SUFFICES ASSUME NEW x \in Deliveries, delivery'[x] # NoDelivery
               PROVE  LookupHolds(x)'
    BY DEF LookupHolds
  <2>1. delivery'[x] = delivery[x]
    BY <1>2, BillingParts DEF BillingTypeOK
  <2>2. LookupHolds(x) /\ delivery[x].event \in PaddleEvents
        /\ delivery[x].found \in Nat /\ delivery[x].rows \in Nat
    BY <2>1, RequestTyped, BillingParts
  <2>3. /\ Len(entitlements) <= Len(entitlements')
        /\ Len(entitlements) \in Nat /\ Len(entitlements') \in Nat
        /\ DOMAIN entitlements = 1 .. Len(entitlements)
    BY <1>1, RowsStay
  <2>4. \A j \in 1 .. Len(entitlements) :
           SameSale(delivery[x].event, entitlements'[j])
              <=> SameSale(delivery[x].event, entitlements[j])
    BY <2>2, <2>3, RowsStay
  <2>5. \A y, row : SameSale(y, row)' <=> SameSale(y, row)
    BY DEF SameSale, SubscriptionOf, PlanOf
  <2> QED
    BY <1>2, <2>1, <2>2, <2>3, <2>4, <2>5 DEF LookupHolds
<1>5. EntitlementsAreEarned'
  <2> DEFINE Earned(row) ==
        /\ \E x \in seen : SameSale(x, row) /\ StatusAfter(x) = row.status
        /\ \E x \in seen : SameSale(x, row) /\ x.owner = row.owner
  <2>1. \A j \in DOMAIN entitlements : Earned(entitlements[j])
    BY BillingParts DEF EntitlementsAreEarned
  <2>2. CASE i = 0
    <3>1. entitlements' = Append(entitlements, NewEntitlement(e))
      BY <2>2 DEF ApplyEvent
    <3>2. Earned(NewEntitlement(e))
      BY <1>1, RowOfEvent
    <3>3. /\ DOMAIN entitlements' = DOMAIN entitlements \cup {Len(entitlements) + 1}
          /\ entitlements'[Len(entitlements) + 1] = NewEntitlement(e)
          /\ \A j \in DOMAIN entitlements : entitlements'[j] = entitlements[j]
      BY <1>1, <3>1, RowOfEvent
    <3> HIDE DEF e, i, Earned
    <3>4. \A j \in DOMAIN entitlements' : Earned(entitlements'[j])
      BY <2>1, <3>2, <3>3
    <3> QED
      BY <1>2, <3>4 DEF Earned, EntitlementsAreEarned
  <2>3. CASE i # 0
    <3>1. entitlements' = [entitlements EXCEPT ![i].status = StatusAfter(e)]
      BY <2>3 DEF ApplyEvent
    <3>2. i \in DOMAIN entitlements /\ entitlements[i] \in Entitlement
      BY <1>1, <2>3
    <3>3. /\ entitlements'[i].status = StatusAfter(e)
          /\ entitlements'[i].owner = entitlements[i].owner
      BY <1>1, <3>1, <3>2 DEF Entitlement
    <3>4. DOMAIN entitlements' = DOMAIN entitlements
      BY <3>1
    <3>5. \A x \in seen : SameSale(x, entitlements'[i]) <=> SameSale(x, entitlements[i])
      BY <1>1, <3>2, RowsStay
    <3>6. Earned(entitlements'[i])
      BY <1>1, <2>1, <2>3, <3>2, <3>3, <3>5
    <3>7. \A j \in DOMAIN entitlements \ {i} : entitlements'[j] = entitlements[j]
      BY <3>1
    <3>8. \A j \in DOMAIN entitlements' : Earned(entitlements'[j])
      BY <2>1, <3>4, <3>6, <3>7
    <3> QED
      BY <1>2, <3>8 DEF EntitlementsAreEarned
  <2> QED
    BY <2>2, <2>3
<1> QED
  BY <1>3, <1>4, <1>5 DEF BillingInv

LEMMA BillingStep ==
    ASSUME BillingInv, [BillingNext]_billingVars
    PROVE  BillingInv'
<1>1. ASSUME NEW d \in Deliveries, DropDelivery(d)
      PROVE  BillingInv'
  <2>1. /\ BillingTypeOK'
        /\ EntitlementsAreEarned'
    BY <1>1, BillingParts DEF DropDelivery, BillingTypeOK, EntitlementsAreEarned
  <2>2. \A x \in Deliveries : delivery'[x] \in {delivery[x], NoDelivery}
    BY <1>1, BillingParts DEF DropDelivery, BillingTypeOK
  <2>3. \A x \in Deliveries : LookupHolds(x)'
    BY <1>1, <2>2, BillingParts DEF DropDelivery, LookupHolds
  <2> QED
    BY <2>1, <2>3 DEF BillingInv
<1>2. ASSUME NEW k \in LicenceKeys, IssueLicence(k) \/ Download(k)
      PROVE  BillingInv'
  BY <1>2, BillingParts DEF IssueLicence, Download, BillingInv, BillingTypeOK,
     EntitlementsAreEarned, LookupHolds
<1>3. CASE UNCHANGED billingVars
  BY <1>3, BillingParts DEF billingVars, BillingInv, BillingTypeOK,
     EntitlementsAreEarned, LookupHolds
<1> QED
  BY <1>1, <1>2, <1>3, ReceiveKeeps, ApplyKeeps DEF BillingNext

LEMMA BillingHolds == BillingSpec => []BillingInv
  BY BillingStarts, BillingStep, PTL DEF BillingSpec

\* The tables of billing.ts and its requests keep their types.
THEOREM BillingTypeCorrect == BillingSpec => []BillingTypeOK
  BY BillingHolds, PTL DEF BillingInv

\* The rows that applyPaddleEvent of billing.ts writes are earned, however
\* many webhook requests overlap, repeat, come out of order or are cut short.
THEOREM EntitlementsEarned == BillingSpec => []EntitlementsAreEarned
  BY BillingHolds, PTL DEF BillingInv

\* The select and the insert of applyPaddleEvent make a second row for a
\* sale only if another request inserted the first one between them.
THEOREM TwinsNeedOverlap == BillingSpec => TwinRowsNeedOverlap
<1>1. ASSUME BillingInv, [BillingNext]_billingVars, OneRowPerSale,
             \A d \in Deliveries : ~Overtaken(d)
      PROVE  OneRowPerSale'
  <2>1. CASE entitlements' = entitlements
    BY <1>1, <2>1 DEF OneRowPerSale
  <2>2. ASSUME NEW d \in Deliveries, ApplyEvent(d)
        PROVE  OneRowPerSale'
    <3> DEFINE e == delivery[d].event
               i == delivery[d].found
               Twin(r, s) == /\ r.subscription = s.subscription
                             /\ r.subscription = Absent =>
                                   r.customer = s.customer /\ r.plan = s.plan
    <3>1. /\ delivery[d] # NoDelivery
          /\ e \in PaddleEvents
          /\ i \in 0 .. Len(entitlements)
          /\ entitlements \in Seq(Entitlement)
          /\ delivery[d].rows \in Nat
          /\ delivery[d].rows <= Len(entitlements)
          /\ i = 0 => \A j \in 1 .. delivery[d].rows : ~SameSale(e, entitlements[j])
      BY <1>1, <2>2, RequestTyped, BillingParts DEF ApplyEvent, LookupHolds, BillingTypeOK
    <3>2. CASE i # 0
      <4>1. entitlements' = [entitlements EXCEPT ![i].status = StatusAfter(e)]
        BY <2>2, <3>2 DEF ApplyEvent
      <4>2. i \in DOMAIN entitlements /\ entitlements[i] \in Entitlement
        BY <3>1, <3>2
      <4>3. \A j \in DOMAIN entitlements :
               /\ entitlements'[j].subscription = entitlements[j].subscription
               /\ entitlements'[j].customer = entitlements[j].customer
               /\ entitlements'[j].plan = entitlements[j].plan
        BY <3>1, <4>1, <4>2 DEF Entitlement
      <4>4. DOMAIN entitlements' = DOMAIN entitlements
        BY <4>1
      <4> QED
        BY <1>1, <4>3, <4>4 DEF OneRowPerSale
    <3>3. CASE i = 0
      <4>1. entitlements' = Append(entitlements, NewEntitlement(e))
        BY <2>2, <3>3 DEF ApplyEvent
      <4>2. \A j \in DOMAIN entitlements : ~SameSale(e, entitlements[j])
        BY <1>1, <3>1, <3>3 DEF Overtaken
      <4>3. \A row : Twin(NewEntitlement(e), row) \/ Twin(row, NewEntitlement(e))
                        => SameSale(e, row)
        BY DEF NewEntitlement, SameSale
      <4>4. \A j, k \in DOMAIN entitlements :
               Twin(entitlements[j], entitlements[k]) => j = k
        BY <1>1 DEF OneRowPerSale
      <4>5. /\ DOMAIN entitlements' = DOMAIN entitlements \cup {Len(entitlements) + 1}
            /\ entitlements'[Len(entitlements) + 1] = NewEntitlement(e)
            /\ \A j \in DOMAIN entitlements : entitlements'[j] = entitlements[j]
        BY <3>1, <4>1, RowOfEvent
      <4> HIDE DEF Twin, e, i
      <4>6. \A j, k \in DOMAIN entitlements' :
               Twin(entitlements'[j], entitlements'[k]) => j = k
        BY <4>2, <4>3, <4>4, <4>5
      <4> QED
        BY <4>6 DEF Twin, OneRowPerSale
    <3> QED
      BY <3>2, <3>3
  <2> QED
    BY <1>1, <2>1, <2>2 DEF BillingNext, billingVars, Receive, DropDelivery,
       IssueLicence, Download
<1> QED
  BY <1>1, BillingHolds, PTL DEF TwinRowsNeedOverlap, BillingSpec

-----------------------------------------------------------------------------
(* Migrations.                                                             *)

\* What a runner holds about the scripts it has loaded.
RunnerHolds(r) ==
    LET v == runner[r]
    IN /\ v.pc \in {"journal", "next", "record"} =>
             \A n \in v.left : v.files[n] # NoChecksum
       /\ v.pc = "journal" =>
             \A n \in Scripts \ v.left : v.files[n] = NoChecksum
       /\ v.pc \in {"next", "record", "done"} =>
             /\ \A n \in Scripts : v.applied[n] \in {NoChecksum, journal[n]}
             /\ \A n \in Scripts \ v.left : v.files[n] \in {NoChecksum, journal[n]}
       /\ v.pc = "record" => \A n \in v.left : Turn(r, n) => v.files[n] \in ran[n]
       /\ v.pc = "done" => v.left = {}

JournalHolds == \A n \in Scripts : journal[n] # NoChecksum => journal[n] \in ran[n]

MigratorInv ==
    /\ MigratorTypeOK
    /\ JournalHolds
    /\ \A r \in Runners : RunnerHolds(r)
    /\ UnjournaledIsTorn

LEMMA MigratorParts ==
    ASSUME MigratorInv
    PROVE  /\ MigratorTypeOK
           /\ JournalHolds
           /\ \A r \in Runners : RunnerHolds(r)
           /\ UnjournaledIsTorn
  BY DEF MigratorInv

LEMMA MigratorStarts == MigratorInit => MigratorInv
<1> SUFFICES ASSUME MigratorInit
             PROVE  MigratorInv
  OBVIOUS
<1>1. MigratorTypeOK
  BY DEF MigratorInit, MigratorTypeOK, NoFiles, Contents, NoRunner
<1>2. JournalHolds
  BY DEF MigratorInit, JournalHolds, NoFiles
<1>3. \A r \in Runners : RunnerHolds(r)
  BY DEF MigratorInit, RunnerHolds, NoRunner
<1>4. UnjournaledIsTorn
  BY DEF MigratorInit, UnjournaledIsTorn
<1> QED
  BY <1>1, <1>2, <1>3, <1>4 DEF MigratorInv

\* Rows and statements stay, so that what the other runners hold stays true.
LEMMA RunnersStay ==
    ASSUME MigratorInv, NEW r \in Runners, runner'[r] = runner[r],
           \A n \in Scripts : journal[n] # NoChecksum => journal'[n] = journal[n],
           \A n \in Scripts : ran[n] \subseteq ran'[n]
    PROVE  RunnerHolds(r)'
<1> DEFINE v == runner[r]
<1>1. RunnerHolds(r) /\ v.left \subseteq Scripts
  BY MigratorParts DEF MigratorTypeOK
<1>2. \A n : Turn(r, n)' <=> Turn(r, n)
  BY DEF Turn
<1>3. v.pc \in {"next", "record", "done"} =>
         /\ \A n \in Scripts : v.applied[n] \in {NoChecksum, journal'[n]}
         /\ \A n \in Scripts \ v.left : v.files[n] \in {NoChecksum, journal'[n]}
  BY <1>1 DEF RunnerHolds
<1>4. v.pc = "record" => \A n \in v.left : Turn(r, n)' => v.files[n] \in ran'[n]
  BY <1>1, <1>2 DEF RunnerHolds
<1> QED
  BY <1>1, <1>3, <1>4 DEF RunnerHolds

LEMMA WriteKeeps ==
    ASSUME MigratorInv, NEW n \in Scripts, NEW c \in Checksums, WriteScript(n, c)
    PROVE  MigratorInv'
<1>1. MigratorTypeOK'
  BY MigratorParts DEF WriteScript, MigratorTypeOK, Contents
<1> QED
  BY <1>1, MigratorParts DEF WriteScript, MigratorInv, JournalHolds, RunnerHolds,
     UnjournaledIsTorn, Running, Turn

LEMMA StartKeeps ==
    ASSUME MigratorInv, NEW r \in Runners,
           StartRunner(r) \/ ReadJournal(r) \/ FinishRunner(r)
    PROVE  MigratorInv'
<1> USE DEF MigratorTypeOK
<1>u. /\ ran' = ran
      /\ journal' = journal
      /\ files' = files
      /\ torn' = torn
  BY DEF StartRunner, ReadJournal, FinishRunner, NoteRunner
<1>t. /\ runner[r].files \in Contents
      /\ runner[r].left \subseteq Scripts
      /\ journal \in Contents
      /\ files \in Contents
  BY MigratorParts
<1>1. \A k \in Runners \ {r} : runner'[k] = runner[k]
  BY MigratorParts DEF StartRunner, ReadJournal, FinishRunner, NoteRunner
<1>2. runner[r].pc # "record" /\ runner'[r].pc # "record"
  BY MigratorParts DEF StartRunner, ReadJournal, FinishRunner, NoteRunner, Running
<1>3. MigratorTypeOK'
  <2>1. NoFiles \in Contents
    BY DEF NoFiles, Contents
  <2>2. CASE StartRunner(r)
    BY <1>u, <2>1, <2>2, MigratorParts DEF StartRunner
  <2>3. CASE ReadJournal(r)
    BY <1>u, <2>3, MigratorParts DEF ReadJournal
  <2>4. CASE FinishRunner(r)
    BY <1>u, <2>4, MigratorParts DEF FinishRunner, NoteRunner
  <2> QED
    BY <2>2, <2>3, <2>4
<1>4. UnjournaledIsTorn'
  <2>1. \A k \in Runners, n \in Scripts :
           Running(k, "record") /\ Turn(k, n) => (Running(k, "record") /\ Turn(k, n))'
    BY <1>1, <1>2 DEF Running, Turn
  <2> QED
    BY <1>u, <2>1, MigratorParts DEF UnjournaledIsTorn
<1>5. RunnerHolds(r)'
  <2>1. CASE StartRunner(r)
    <3>1. runner'[r] = [pc |-> "journal", files |-> files, applied |-> NoFiles,
                        left |-> {n \in Scripts : files[n] # NoChecksum}]
      BY <2>1, MigratorParts DEF StartRunner
    <3> QED
      BY <1>u, <3>1 DEF RunnerHolds
  <2>2. CASE ReadJournal(r)
    <3>1. /\ runner'[r].pc = "next"
          /\ runner'[r].files = runner[r].files
          /\ runner'[r].left = runner[r].left
          /\ runner'[r].applied = journal
          /\ runner[r].pc = "journal"
      BY <2>2, MigratorParts DEF ReadJournal, Running
    <3> QED
      BY <1>u, <3>1, MigratorParts DEF RunnerHolds
  <2>3. CASE FinishRunner(r)
    <3>1. /\ runner'[r].pc = "done"
          /\ runner'[r].files = runner[r].files
          /\ runner'[r].left = runner[r].left
          /\ runner'[r].applied = runner[r].applied
          /\ runner[r].pc = "next"
          /\ runner[r].left = {}
      BY <2>3, MigratorParts DEF FinishRunner, NoteRunner, Running
    <3> QED
      BY <1>u, <3>1, MigratorParts DEF RunnerHolds
  <2> QED
    BY <2>1, <2>2, <2>3
<1>6. \A k \in Runners : RunnerHolds(k)'
  BY <1>u, <1>1, <1>5, RunnersStay
<1> QED
  BY <1>u, <1>3, <1>4, <1>6, MigratorParts DEF MigratorInv, JournalHolds

LEMMA PassKeeps ==
    ASSUME MigratorInv, NEW r \in Runners, NEW n \in Scripts, PassOver(r, n)
    PROVE  MigratorInv'
<1> USE DEF MigratorTypeOK
<1>1. /\ runner[r].pc = "next"
      /\ runner'[r].pc = "next"
      /\ runner'[r].files = runner[r].files
      /\ runner'[r].left = runner[r].left \ {n}
      /\ runner'[r].applied = runner[r].applied
      /\ \A k \in Runners \ {r} : runner'[k] = runner[k]
      /\ runner[r].applied[n] # NoChecksum
      /\ runner[r].applied[n] = runner[r].files[n]
  BY MigratorParts DEF PassOver, Running, Skip
<1>2. files' = files /\ ran' = ran /\ journal' = journal /\ torn' = torn
  BY DEF PassOver
<1>3. MigratorTypeOK'
  BY <1>2, MigratorParts DEF PassOver
<1>4. UnjournaledIsTorn'
  <2>1. \A k \in Runners, m \in Scripts :
           Running(k, "record") /\ Turn(k, m) => (Running(k, "record") /\ Turn(k, m))'
    BY <1>1 DEF Running, Turn
  <2> QED
    BY <1>2, <2>1, MigratorParts DEF UnjournaledIsTorn
<1>5. RunnerHolds(r)'
  <2>1. runner[r].files[n] = journal[n]
    BY <1>1, MigratorParts DEF RunnerHolds
  <2> QED
    BY <1>1, <1>2, <2>1, MigratorParts DEF RunnerHolds
<1>6. \A k \in Runners : RunnerHolds(k)'
  BY <1>1, <1>2, <1>5, RunnersStay
<1> QED
  BY <1>2, <1>3, <1>4, <1>6, MigratorParts DEF MigratorInv, JournalHolds

LEMMA RunKeeps ==
    ASSUME MigratorInv, NEW r \in Runners, NEW n \in Scripts, RunBody(r, n)
    PROVE  MigratorInv'
<1> USE DEF MigratorTypeOK
<1> DEFINE c == runner[r].files[n]
<1>1. /\ runner[r].pc = "next"
      /\ runner'[r].pc = "record"
      /\ runner'[r].files = runner[r].files
      /\ runner'[r].left = runner[r].left
      /\ runner'[r].applied = runner[r].applied
      /\ \A k \in Runners \ {r} : runner'[k] = runner[k]
      /\ Turn(r, n)
  BY MigratorParts DEF RunBody, Running, NoteRunner
<1>2. files' = files /\ journal' = journal /\ torn' = torn
  BY DEF RunBody
<1>3. /\ c \in Checksums
      /\ ran' = [ran EXCEPT ![n] = @ \cup {c}]
  <2>1. n \in runner[r].left /\ c \in Checksums \cup {NoChecksum}
    BY <1>1, MigratorParts DEF Turn, Contents
  <2> QED
    BY <1>1, <2>1, MigratorParts DEF RunnerHolds, RunBody, RunScript
<1>4. /\ \A m \in Scripts : ran[m] \subseteq ran'[m]
      /\ c \in ran'[n]
      /\ \A m \in Scripts \ {n} : ran'[m] = ran[m]
  BY <1>3, MigratorParts
<1>5. MigratorTypeOK'
  <2>1. ran' \in [Scripts -> SUBSET Checksums]
    BY <1>3, MigratorParts
  <2> QED
    BY <1>2, <2>1, MigratorParts DEF RunBody, NoteRunner
<1>6. UnjournaledIsTorn'
  <2>1. \A k \in Runners, m \in Scripts :
           Running(k, "record") /\ Turn(k, m) => (Running(k, "record") /\ Turn(k, m))'
    BY <1>1 DEF Running, Turn
  <2>2. (Running(r, "record") /\ Turn(r, n))'
    BY <1>1 DEF Running, Turn
  <2>3. \A m \in Scripts : ran'[m] # {} /\ journal[m] = NoChecksum =>
           \/ m \in torn
           \/ \E k \in Runners : (Running(k, "record") /\ Turn(k, m))'
    BY <1>4, <2>1, <2>2, MigratorParts DEF UnjournaledIsTorn
  <2> QED
    BY <1>2, <2>3 DEF UnjournaledIsTorn
<1>7. RunnerHolds(r)'
  <2>1. \A m \in Scripts : Turn(r, m)' => m = n
    BY <1>1, MigratorAssumption DEF Turn
  <2> QED
    BY <1>1, <1>2, <1>4, <2>1, MigratorParts DEF RunnerHolds
<1>8. \A k \in Runners : RunnerHolds(k)'
  BY <1>1, <1>2, <1>4, <1>7, RunnersStay
<1>9. JournalHolds'
  BY <1>2, <1>4, MigratorParts DEF JournalHolds
<1> QED
  BY <1>5, <1>6, <1>8, <1>9 DEF MigratorInv

LEMMA RecordKeeps ==
    ASSUME MigratorInv, NEW r \in Runners, NEW n \in Scripts, RecordScript(r, n)
    PROVE  MigratorInv'
<1> USE DEF MigratorTypeOK
<1> DEFINE c == runner[r].files[n]
<1>1. /\ runner[r].pc = "record"
      /\ runner'[r].pc = "next"
      /\ runner'[r].files = runner[r].files
      /\ runner'[r].left = runner[r].left \ {n}
      /\ runner'[r].applied = runner[r].applied
      /\ \A k \in Runners \ {r} : runner'[k] = runner[k]
      /\ Turn(r, n)
  BY MigratorParts DEF RecordScript, Running
<1>2. files' = files /\ ran' = ran /\ torn' = torn
  BY DEF RecordScript
<1>3. /\ c \in ran[n]
      /\ c \in Checksums
  BY <1>1, MigratorParts DEF RunnerHolds, Turn
<1>4. /\ journal[n] = NoChecksum
      /\ journal'[n] = c
      /\ \A m \in Scripts \ {n} : journal'[m] = journal[m]
  BY MigratorParts DEF RecordScript, Contents
<1>5. MigratorTypeOK'
  <2>1. journal' \in Contents
    BY <1>3, MigratorParts DEF RecordScript, Contents
  <2> QED
    BY <1>2, <2>1, MigratorParts DEF RecordScript
<1>6. UnjournaledIsTorn'
  <2>1. \A k \in Runners \ {r}, m \in Scripts :
           Running(k, "record") /\ Turn(k, m) => (Running(k, "record") /\ Turn(k, m))'
    BY <1>1 DEF Running, Turn
  <2>2. \A m \in Scripts : Turn(r, m) => m = n
    BY <1>1, MigratorAssumption DEF Turn
  <2>3. c # NoChecksum
    BY <1>3, MigratorAssumption
  <2>4. \A m \in Scripts : ran[m] # {} /\ journal'[m] = NoChecksum =>
           \/ m \in torn
           \/ \E k \in Runners : (Running(k, "record") /\ Turn(k, m))'
    BY <1>4, <2>1, <2>2, <2>3, MigratorParts DEF UnjournaledIsTorn
  <2> QED
    BY <1>2, <2>4 DEF UnjournaledIsTorn
<1>7. RunnerHolds(r)'
  BY <1>1, <1>2, <1>4, MigratorParts DEF RunnerHolds
<1>8. \A k \in Runners : RunnerHolds(k)'
  BY <1>1, <1>2, <1>4, <1>7, RunnersStay
<1>9. JournalHolds'
  BY <1>2, <1>3, <1>4, MigratorParts DEF JournalHolds
<1> QED
  BY <1>5, <1>6, <1>8, <1>9 DEF MigratorInv

LEMMA StopKeeps ==
    ASSUME MigratorInv, NEW r \in Runners, StopRunner(r)
    PROVE  MigratorInv'
<1> USE DEF MigratorTypeOK
<1>1. /\ runner'[r] = NoRunner
      /\ \A k \in Runners \ {r} : runner'[k] = runner[k]
  BY MigratorParts DEF StopRunner
<1>2. /\ files' = files /\ ran' = ran /\ journal' = journal
      /\ torn' = torn \cup {n \in Scripts : Running(r, "record") /\ Turn(r, n)}
  BY DEF StopRunner
<1>3. MigratorTypeOK'
  BY <1>2, MigratorParts DEF StopRunner, NoRunner, NoFiles, Contents
<1>4. UnjournaledIsTorn'
  <2>1. \A k \in Runners \ {r}, m \in Scripts :
           Running(k, "record") /\ Turn(k, m) => (Running(k, "record") /\ Turn(k, m))'
    BY <1>1 DEF Running, Turn
  <2>2. \A m \in Scripts : ran[m] # {} /\ journal[m] = NoChecksum =>
           \/ m \in torn'
           \/ \E k \in Runners : (Running(k, "record") /\ Turn(k, m))'
    BY <1>2, <2>1, MigratorParts DEF UnjournaledIsTorn
  <2> QED
    BY <1>2, <2>2 DEF UnjournaledIsTorn
<1>5. RunnerHolds(r)'
  BY <1>1 DEF RunnerHolds, NoRunner
<1>6. \A k \in Runners : RunnerHolds(k)'
  BY <1>1, <1>2, <1>5, RunnersStay
<1> QED
  BY <1>2, <1>3, <1>4, <1>6, MigratorParts DEF MigratorInv, JournalHolds

LEMMA MigratorStep ==
    ASSUME MigratorInv, [MigratorNext]_migratorVars
    PROVE  MigratorInv'
<1>1. CASE UNCHANGED migratorVars
  BY <1>1, MigratorParts DEF migratorVars, MigratorInv, MigratorTypeOK, JournalHolds,
     RunnerHolds, UnjournaledIsTorn, Running, Turn
<1> QED
  BY <1>1, WriteKeeps, StartKeeps, PassKeeps, RunKeeps, RecordKeeps, StopKeeps
     DEF MigratorNext

\* The schema, the journal and the runners of migrator.ts keep their types.
THEOREM MigratorTypeCorrect == MigratorSpec => []MigratorTypeOK
<1>1. MigratorInv /\ [MigratorNext]_migratorVars => MigratorInv'
  BY MigratorStep
<1> QED
  BY <1>1, MigratorStarts, PTL DEF MigratorSpec, MigratorInv

\* Two processes that run migrator.ts at once over files that change, killed
\* at any statement, leave a journal that says what was run, and nothing
\* that was run without a row but what a runner is about to record or could
\* not.
THEOREM MigrationsAccounted == MigratorSpec => []MigrationsAreAccounted
<1>1. MigratorInv => MigrationsAreAccounted
  BY DEF MigratorInv, MigrationsAreAccounted, JournalIsTruthful, JournalHolds,
     RunnerHolds, Running
<1>2. MigratorInv /\ [MigratorNext]_migratorVars => MigratorInv'
  BY MigratorStep
<1> QED
  BY <1>1, <1>2, MigratorStarts, PTL DEF MigratorSpec

-----------------------------------------------------------------------------
(* The front desk.                                                         *)

\* An answer under way that the visit is new.
Greets(h, d) == AtDesk(h, "card") /\ desk[h].day = d /\ ~desk[h].duplicate

\* What a handler holds of the day's visit and of the template.
DeskHolds(h) ==
    LET k == desk[h]
    IN /\ k.pc \in {"lookup", "insert", "card"} => k.day \in Days
       /\ k.pc = "insert" => ~k.duplicate
       /\ k.pc = "card" => k.visit # NoVisit /\ visits[k.day] = k.visit
       /\ k.shut => shelf = "archived" /\ \A p \in Desks : ~AtDesk(p, "publish")
       /\ AtDesk(h, "startable") => ~k.shut

\* At most one desk is about to say, or one has said, that a visit is new.
OneGreeting ==
    /\ \A h, k \in Desks, d \in Days : Greets(h, d) /\ Greets(k, d) => h = k
    /\ \A h \in Desks, g \in given : ~g.duplicate => ~Greets(h, g.day)

DeskInv ==
    /\ DeskTypeOK
    /\ \A h \in Desks : DeskHolds(h)
    /\ OneGreeting
    /\ VisitAnswersAgree

LEMMA DeskParts ==
    ASSUME DeskInv
    PROVE  /\ DeskTypeOK
           /\ \A h \in Desks : DeskHolds(h)
           /\ OneGreeting
           /\ VisitAnswersAgree
  BY DEF DeskInv

LEMMA DayOne ==
    /\ 1 \in Days
    /\ \A d \in Days : d < LastDay => d + 1 \in Days
  BY CheckInAssumption DEF Days

LEMMA AwayTyped == Away \in DeskState
  BY DEF Away, DeskState

LEMMA DeskStarts == DeskInit => DeskInv
<1> SUFFICES ASSUME DeskInit
             PROVE  DeskInv
  OBVIOUS
<1>1. DeskTypeOK
  BY AwayTyped, DayOne DEF DeskInit, DeskTypeOK
<1>2. \A h \in Desks : DeskHolds(h)
  BY DEF DeskInit, DeskHolds, Away, AtDesk
<1>3. OneGreeting
  BY DEF DeskInit, OneGreeting, Greets, AtDesk, Away
<1>4. VisitAnswersAgree
  BY DEF DeskInit, VisitAnswersAgree
<1> QED
  BY <1>1, <1>2, <1>3, <1>4 DEF DeskInv

\* A step of the desks that neither writes a visit nor answers, and that
\* leaves no desk with a greeting that it did not have.
LEMMA QuietKeeps ==
    ASSUME DeskInv, DeskTypeOK', visits' = visits, given' = given,
           \A h \in Desks : DeskHolds(h)',
           \A h \in Desks, d \in Days : Greets(h, d)' => Greets(h, d)
    PROVE  DeskInv'
<1>1. OneGreeting'
  <2>1. \A g \in given : g.day \in Days
    BY DeskParts DEF DeskTypeOK, DeskAnswer
  <2> QED
    BY <2>1, DeskParts DEF OneGreeting
<1>2. VisitAnswersAgree'
  BY DeskParts DEF VisitAnswersAgree
<1> QED
  BY <1>1, <1>2 DEF DeskInv

LEMMA ClockKeeps ==
    ASSUME DeskInv, Midnight \/ Shelve \/ CreateCode
    PROVE  DeskInv'
<1> USE DEF Midnight, Shelve, CreateCode
<1>1. DeskTypeOK'
  BY DeskParts, DayOne DEF DeskTypeOK
<1>2. \A h \in Desks : DeskHolds(h)'
  BY DeskParts DEF DeskHolds, AtDesk, DeskTypeOK
<1>3. \A h \in Desks, d \in Days : Greets(h, d)' => Greets(h, d)
  BY DEF Greets, AtDesk
<1> QED
  BY <1>1, <1>2, <1>3, QuietKeeps

\* What the other desks hold stays while no visit is lost, and while nobody
\* sets out to publish an archived template.
LEMMA DesksStay ==
    ASSUME DeskInv, NEW h \in Desks, desk'[h] = desk[h], shelf' = shelf,
           \A p \in Desks : AtDesk(p, "publish")' =>
               AtDesk(p, "publish") \/ shelf # "archived",
           \A d \in Days : visits[d] # NoVisit => visits'[d] = visits[d]
    PROVE  DeskHolds(h)'
  BY DeskParts DEF DeskHolds, AtDesk, DeskTypeOK

\* A version gets published: no code that waits for its start page was
\* scanned with the template archived for good.
LEMMA ReleaseKeeps ==
    ASSUME DeskInv, NEW h \in Desks, ReleaseWrite(h)
    PROVE  DeskInv'
<1> USE DEF ReleaseWrite, Vacate
<1>1. DeskTypeOK'
  BY DeskParts, AwayTyped DEF DeskTypeOK
<1>2. \A k \in Desks : ~desk[k].shut
  BY DeskParts DEF DeskHolds
<1>3. DeskHolds(h)' /\ \A d \in Days : ~Greets(h, d)'
  BY DeskParts DEF DeskTypeOK, DeskHolds, AtDesk, Away, Greets
<1>4. \A k \in Desks \ {h} : desk'[k] = desk[k]
  BY DeskParts DEF DeskTypeOK
<1>5. \A k \in Desks : DeskHolds(k)'
  BY <1>2, <1>3, <1>4, DeskParts DEF DeskHolds, AtDesk
<1>6. \A k \in Desks, d \in Days : Greets(k, d)' => Greets(k, d)
  BY <1>3, <1>4 DEF Greets, AtDesk
<1> QED
  BY <1>1, <1>5, <1>6, QuietKeeps

LEMMA QuietDeskKeeps ==
    ASSUME DeskInv, NEW h \in Desks,
           \/ CheckIn(h)
           \/ VisitLookup(h)
           \/ ReleaseCheck(h)
           \/ ScanCode(h)
           \/ StartPage(h)
           \/ LeaveDesk(h)
    PROVE  DeskInv'
<1> USE DEF DeskTypeOK
<1>1. /\ today' = today
      /\ visits' = visits
      /\ given' = given
      /\ shelf' = shelf
      /\ codes' = codes
      /\ \A k \in Desks \ {h} : desk'[k] = desk[k]
  BY DeskParts DEF CheckIn, VisitLookup, ReleaseCheck, ScanCode, StartPage, LeaveDesk,
     Vacate
<1>2. /\ DeskTypeOK'
      /\ DeskHolds(h)'
      /\ \A d \in Days : ~Greets(h, d)'
      /\ AtDesk(h, "publish")' => AtDesk(h, "publish") \/ shelf # "archived"
  <2>1. CASE CheckIn(h)
    <3>1. desk'[h] = [Away EXCEPT !.pc = "lookup", !.day = today]
      BY <2>1, DeskParts DEF CheckIn
    <3>2. [Away EXCEPT !.pc = "lookup", !.day = today] \in DeskState
      BY DeskParts DEF Away, DeskState
    <3>3. DeskTypeOK'
      BY <1>1, <2>1, <3>2, DeskParts DEF CheckIn
    <3>4. /\ desk'[h].pc = "lookup"
          /\ desk'[h].day = today
          /\ ~desk'[h].shut
      BY <3>1 DEF Away
    <3> QED
      BY <3>3, <3>4, DeskParts DEF DeskHolds, AtDesk, Greets
  <2>2. CASE VisitLookup(h)
    <3>1. /\ desk[h].pc = "lookup"
          /\ desk[h].day \in Days
          /\ desk[h].shut =>
                 shelf = "archived" /\ \A p \in Desks : ~AtDesk(p, "publish")
      BY <2>2, DeskParts DEF VisitLookup, AtDesk, DeskHolds
    <3>2. visits[desk[h].day] \in VisitIds \cup {NoVisit}
      BY <3>1, DeskParts
    <3>3. DeskTypeOK'
      <4>1. desk'[h] \in DeskState
        BY <2>2, <3>2, DeskParts DEF VisitLookup, DeskState
      <4>2. desk' \in [Desks -> DeskState]
        BY <2>2, <4>1, DeskParts DEF VisitLookup
      <4> QED
        BY <1>1, <4>2, DeskParts
    <3>4. /\ desk'[h].day = desk[h].day
          /\ desk'[h].shut = desk[h].shut
          /\ desk'[h].pc = IF visits[desk[h].day] = NoVisit THEN "insert" ELSE "card"
          /\ desk'[h].visit = visits[desk[h].day]
          /\ desk'[h].duplicate = (visits[desk[h].day] # NoVisit)
      BY <2>2, DeskParts DEF VisitLookup, DeskState
    <3> QED
      BY <1>1, <3>1, <3>3, <3>4 DEF DeskHolds, AtDesk, Greets
  <2>3. CASE ScanCode(h)
    <3> DEFINE s == shelf = "archived" /\ \A k \in Desks : ~AtDesk(k, "publish")
    <3>1. desk' = [desk EXCEPT ![h] = [Away EXCEPT !.pc = "start", !.shut = s]]
      BY <2>3 DEF ScanCode
    <3>2. s \in BOOLEAN
      OBVIOUS
    <3>3. desk'[h].shut => s
      BY <3>1, DeskParts DEF Away
    <3>4. s => shelf = "archived" /\ \A k \in Desks : ~AtDesk(k, "publish")
      OBVIOUS
    <3>5. desk'[h].pc = "start"
      BY <3>1, DeskParts DEF Away
    <3> HIDE DEF s
    <3>6. [Away EXCEPT !.pc = "start", !.shut = s] \in DeskState
      BY <3>2 DEF Away, DeskState
    <3>7. DeskTypeOK'
      BY <1>1, <3>1, <3>6, DeskParts
    <3> QED
      BY <1>1, <3>3, <3>4, <3>5, <3>7 DEF DeskHolds, AtDesk, Greets
  <2>4. CASE StartPage(h)
    <3>1. /\ desk'[h].pc = IF shelf = "published" THEN "startable" ELSE "closed"
          /\ desk'[h].shut = desk[h].shut
          /\ desk'[h].day = desk[h].day
          /\ desk[h].shut =>
                 shelf = "archived" /\ \A p \in Desks : ~AtDesk(p, "publish")
      BY <2>4, DeskParts DEF StartPage, DeskHolds, DeskState
    <3>2. DeskTypeOK'
      BY <1>1, <2>4, DeskParts DEF StartPage, DeskState
    <3> QED
      BY <1>1, <3>1, <3>2 DEF DeskHolds, AtDesk, Greets
  <2>5. CASE LeaveDesk(h)
    <3>1. desk'[h] = Away
      BY <2>5, DeskParts DEF LeaveDesk, Vacate
    <3>2. DeskTypeOK'
      BY <1>1, <2>5, AwayTyped, DeskParts DEF LeaveDesk, Vacate
    <3> QED
      BY <3>1, <3>2 DEF DeskHolds, AtDesk, Away, Greets
  <2>6. CASE ReleaseCheck(h)
    <3>1. /\ shelf # "archived"
          /\ desk' = [desk EXCEPT ![h] = [Away EXCEPT !.pc = "publish"]]
      BY <2>6 DEF ReleaseCheck
    <3>2. [Away EXCEPT !.pc = "publish"] \in DeskState
      BY DEF Away, DeskState
    <3>3. DeskTypeOK'
      BY <1>1, <3>1, <3>2, DeskParts
    <3>4. desk'[h].pc = "publish" /\ ~desk'[h].shut
      BY <3>1, DeskParts DEF Away
    <3> QED
      BY <3>1, <3>3, <3>4 DEF DeskHolds, AtDesk, Greets
  <2> QED
    BY <2>1, <2>2, <2>3, <2>4, <2>5, <2>6
<1>3. \A k \in Desks : DeskHolds(k)'
  <2>1. \A p \in Desks : AtDesk(p, "publish")' =>
            AtDesk(p, "publish") \/ shelf # "archived"
    BY <1>1, <1>2 DEF AtDesk
  <2> QED
    BY <1>1, <1>2, <2>1, DesksStay
<1>4. \A k \in Desks, d \in Days : Greets(k, d)' => Greets(k, d)
  BY <1>1, <1>2 DEF Greets, AtDesk
<1> QED
  BY <1>1, <1>2, <1>3, <1>4, QuietKeeps

LEMMA InsertKeeps ==
    ASSUME DeskInv, NEW h \in Desks, NEW v \in VisitIds, VisitInsert(h, v)
    PROVE  DeskInv'
<1> USE DEF DeskTypeOK
<1> DEFINE d == desk[h].day
<1>1. /\ today' = today
      /\ given' = given
      /\ shelf' = shelf
      /\ codes' = codes
      /\ \A k \in Desks \ {h} : desk'[k] = desk[k]
      /\ d \in Days
      /\ desk[h].pc = "insert"
      /\ ~desk[h].duplicate
  BY DeskParts DEF VisitInsert, Vacate, DeskHolds, AtDesk
<1>2. CASE visits[d] = NoVisit
  <2>1. /\ visits' = [visits EXCEPT ![d] = v]
        /\ desk' = [desk EXCEPT ![h].pc = "card", ![h].visit = v]
    BY <1>2 DEF VisitInsert
  <2>2. DeskTypeOK'
    <3>1. [desk[h] EXCEPT !.pc = "card", !.visit = v] \in DeskState
      BY DeskParts DEF DeskState
    <3>2. desk' \in [Desks -> DeskState]
      BY <2>1, <3>1, DeskParts
    <3> QED
      BY <1>1, <2>1, <3>2, DeskParts
  <2>3. /\ desk'[h].pc = "card"
        /\ desk'[h].visit = v
        /\ desk'[h].day = d
        /\ desk'[h].duplicate = desk[h].duplicate
        /\ desk'[h].shut = desk[h].shut
    BY <2>1, DeskParts DEF DeskState
  <2>4. /\ visits'[d] = v
        /\ v # NoVisit
        /\ \A e \in Days : visits[e] # NoVisit => visits'[e] = visits[e]
    BY <1>1, <1>2, <2>1, CheckInAssumption, DeskParts
  <2>5. DeskHolds(h)'
    BY <1>1, <2>3, <2>4, DeskParts DEF DeskHolds, AtDesk
  <2>6. \A k \in Desks : DeskHolds(k)'
    <3>1. \A p \in Desks : AtDesk(p, "publish")' => AtDesk(p, "publish")
      BY <1>1, <2>3 DEF AtDesk
    <3> QED
      BY <1>1, <2>4, <2>5, <3>1, DesksStay
  <2>7. \A g \in given : g.day # d
    BY <1>2, CheckInAssumption, DeskParts DEF VisitAnswersAgree, DeskAnswer
  <2>8. \A k \in Desks : ~Greets(k, d)
    BY <1>2, DeskParts DEF DeskHolds, Greets, AtDesk
  <2>9. \A k \in Desks, e \in Days : Greets(k, e)' => Greets(k, e) \/ (k = h /\ e = d)
    BY <1>1, <2>3 DEF Greets, AtDesk
  <2>10. OneGreeting'
    <3>1. \A g \in given : g.day \in Days
      BY DeskParts DEF DeskAnswer
    <3> HIDE DEF d
    <3> QED
      BY <1>1, <2>7, <2>8, <2>9, <3>1, DeskParts DEF OneGreeting
  <2>11. VisitAnswersAgree'
    <3>1. \A g \in given : visits'[g.day] = visits[g.day]
      BY <2>1, <2>7, DeskParts
    <3> QED
      BY <1>1, <3>1, DeskParts DEF VisitAnswersAgree
  <2> QED
    BY <2>2, <2>6, <2>10, <2>11 DEF DeskInv
<1>3. CASE visits[d] # NoVisit
  <2>1. visits' = visits /\ desk' = [desk EXCEPT ![h] = Away]
    BY <1>3 DEF VisitInsert, Vacate
  <2>2. DeskTypeOK'
    BY <1>1, <2>1, AwayTyped, DeskParts
  <2>3. DeskHolds(h)' /\ \A e \in Days : ~Greets(h, e)'
    BY <2>1, DeskParts DEF DeskHolds, AtDesk, Away, Greets
  <2>4. \A k \in Desks : DeskHolds(k)'
    <3>1. \A p \in Desks : AtDesk(p, "publish")' => AtDesk(p, "publish")
      BY <2>1, DeskParts DEF AtDesk, Away
    <3> QED
      BY <1>1, <2>1, <2>3, <3>1, DesksStay
  <2>5. \A k \in Desks, e \in Days : Greets(k, e)' => Greets(k, e)
    BY <1>1, <2>3 DEF Greets, AtDesk
  <2> QED
    BY <1>1, <2>1, <2>2, <2>4, <2>5, QuietKeeps
<1> QED
  BY <1>2, <1>3

LEMMA AnswerKeeps ==
    ASSUME DeskInv, NEW h \in Desks, NEW last \in Days, AnswerCheckIn(h, last)
    PROVE  DeskInv'
<1> USE DEF DeskTypeOK
<1> DEFINE d == desk[h].day
           a == [day |-> d, visit |-> desk[h].visit, last |-> last,
                 duplicate |-> desk[h].duplicate, desk |-> h]
<1>1. /\ today' = today
      /\ visits' = visits
      /\ shelf' = shelf
      /\ codes' = codes
      /\ given' = given \cup {a}
      /\ desk' = [desk EXCEPT ![h] = Away]
      /\ LastVisit(last)
      /\ desk[h].pc = "card"
  BY DEF AnswerCheckIn, Vacate, AtDesk
<1>2. /\ d \in Days
      /\ desk[h].visit # NoVisit
      /\ visits[d] = desk[h].visit
      /\ desk[h].visit \in VisitIds
      /\ desk[h].duplicate \in BOOLEAN
  BY <1>1, DeskParts DEF DeskHolds, DeskState
<1>3. /\ a.day = d
      /\ a.visit = desk[h].visit
      /\ a.last = last
      /\ a.duplicate = desk[h].duplicate
      /\ a.desk = h
  OBVIOUS
<1>4. DeskTypeOK'
  <2>1. a \in DeskAnswer
    BY <1>2 DEF DeskAnswer
  <2> HIDE DEF a
  <2> QED
    BY <1>1, <2>1, AwayTyped, DeskParts
<1>5. DeskHolds(h)' /\ \A e \in Days : ~Greets(h, e)'
  BY <1>1, DeskParts DEF DeskHolds, AtDesk, Away, Greets
<1>6. \A k \in Desks \ {h} : desk'[k] = desk[k]
  BY <1>1, DeskParts
<1>7. \A k \in Desks : DeskHolds(k)'
  <2>1. \A p \in Desks : AtDesk(p, "publish")' => AtDesk(p, "publish")
    BY <1>1, <1>6, DeskParts DEF AtDesk, Away
  <2> QED
    BY <1>1, <1>5, <1>6, <2>1, DesksStay
<1>8. \A k \in Desks, e \in Days : Greets(k, e)' => Greets(k, e) /\ k # h
  BY <1>5, <1>6 DEF Greets, AtDesk
<1>9. ~desk[h].duplicate => Greets(h, d)
  BY <1>1 DEF Greets, AtDesk
<1>10. \A g \in given : g.day \in Days
  BY DeskParts DEF DeskAnswer
<1>11. last >= d
  BY <1>1, <1>2 DEF LastVisit
<1> HIDE DEF a, d
<1>12. OneGreeting'
  BY <1>1, <1>2, <1>3, <1>8, <1>9, <1>10, DeskParts DEF OneGreeting
<1>13. VisitAnswersAgree'
  <2>1. \A g \in given' : g.visit = visits'[g.day] /\ g.day <= g.last
    BY <1>1, <1>2, <1>3, <1>11, DeskParts DEF VisitAnswersAgree
  <2>2. ~a.duplicate => \A g \in given : g.day = d => g.duplicate
    BY <1>2, <1>3, <1>9, DeskParts DEF OneGreeting
  <2> QED
    BY <1>1, <1>3, <2>1, <2>2, DeskParts DEF VisitAnswersAgree
<1> QED
  BY <1>4, <1>7, <1>12, <1>13 DEF DeskInv

LEMMA DeskStep ==
    ASSUME DeskInv, [DeskNext]_deskVars
    PROVE  DeskInv'
<1>1. CASE UNCHANGED deskVars
  BY <1>1, DeskParts DEF deskVars, DeskInv, DeskTypeOK, DeskHolds, OneGreeting, Greets,
     AtDesk, VisitAnswersAgree
<1> QED
  BY <1>1, ClockKeeps, QuietDeskKeeps, ReleaseKeeps, InsertKeeps, AnswerKeeps
     DEF DeskNext

\* The visits and the desks of checkin.ts keep their types.
THEOREM DeskTypeCorrect == DeskSpec => []DeskTypeOK
<1>1. DeskInv /\ [DeskNext]_deskVars => DeskInv'
  BY DeskStep
<1> QED
  BY <1>1, DeskStarts, PTL DEF DeskSpec, DeskInv

\* Whatever desks overlap, repeat or die at any statement of checkIn, and
\* however long a scanned code takes to its start page, what checkin.ts
\* answers agrees with the table.
THEOREM DeskHonest == DeskSpec => []DeskAnswersHold
<1>1. DeskInv => DeskAnswersHold
  BY DEF DeskInv, DeskAnswersHold, StartsAreLive, DeskHolds
<1>2. DeskInv /\ [DeskNext]_deskVars => DeskInv'
  BY DeskStep
<1> QED
  BY <1>1, <1>2, DeskStarts, PTL DEF DeskSpec

-----------------------------------------------------------------------------
(* Documents.                                                              *)

Issued(d) == [paper |-> d, action |-> "download_token_issued"] \in access

\* What a handler holds of its document.
ClerkHolds(h) ==
    LET w == clerk[h]
    IN /\ w.pc # "idle" => w.paper \in Papers /\ Filed(w.paper)
       /\ w.pc \in {"void", "void_audit"} => w.reason \in Reasons
       /\ w.pc \in {"void_audit", "void_access"} => paper[w.paper].status = "void"
       /\ w.pc = "void_access" => \E v \in voidings : v.paper = w.paper
       /\ w.pc = "issued" =>
             /\ w.token \in Tokens
             /\ token[w.token].state # "unused"
             /\ token[w.token].paper = w.paper
       /\ w.pc \in {"fetch", "download_access", "serve"} => Issued(w.paper)
       /\ w.pc \in {"verify", "page"} =>
             (w.status = "void" => paper[w.paper].status = "void")
       /\ w.pc \in {"verify", "page"} => (w.damaged => object[w.paper] # "intact")
       /\ w.pc = "page" => ~(w.intact /\ w.damaged)

\* A token that is out has been logged, and so has that of a download.
TokensHold ==
    /\ \A t \in Tokens : token[t].state # "unused" =>
          token[t].paper \in Papers /\ Filed(token[t].paper)
    /\ \A t \in Tokens : token[t].state = "out" => Issued(token[t].paper)
    /\ \A d \in Papers : served[d] > 0 => Issued(d)

\* Downloads that are logged and on their way.
Serving(d) == {h \in Clerks : Doing(h, "serve") /\ clerk[h].paper = d}

LogIsAhead == \A d \in Papers : served[d] + Cardinality(Serving(d)) <= logged[d]

\* What the log, the chain and the pages have said of documents.
PagesHold ==
    /\ \A d \in Papers : [paper |-> d, action |-> "voided"] \in access =>
          \E v \in voidings : v.paper = d
    /\ \A v \in voidings : paper[v.paper].status = "void"
    /\ \A d \in shown : paper[d].status = "void"

AccessInv ==
    /\ AccessTypeOK
    /\ \A h \in Clerks : ClerkHolds(h)
    /\ TokensHold
    /\ LogIsAhead
    /\ PagesHold

LEMMA AccessParts ==
    ASSUME AccessInv
    PROVE  /\ AccessTypeOK
           /\ \A h \in Clerks : ClerkHolds(h)
           /\ TokensHold
           /\ LogIsAhead
           /\ PagesHold
  BY DEF AccessInv

LEMMA AtRestTyped == AtRest \in ClerkState
  BY DEF AtRest, ClerkState

LEMMA AccessStarts == AccessInit => AccessInv
<1> SUFFICES ASSUME AccessInit
             PROVE  AccessInv
  OBVIOUS
<1>1. AccessTypeOK
  <2>1. [status |-> "absent", reason |-> NoReason] \in PaperRow
    BY DEF PaperRow
  <2>2. Unused \in TokenRow
    BY DEF Unused, TokenRow
  <2> QED
    BY <2>1, <2>2, AtRestTyped DEF AccessInit, AccessTypeOK
<1>2. \A h \in Clerks : ClerkHolds(h)
  BY DEF AccessInit, ClerkHolds, AtRest
<1>3. TokensHold
  BY DEF AccessInit, TokensHold, Unused
<1>4. LogIsAhead
  <2> SUFFICES ASSUME NEW d \in Papers
               PROVE  served[d] + Cardinality(Serving(d)) <= logged[d]
    BY DEF LogIsAhead
  <2>1. Serving(d) = {}
    BY DEF AccessInit, Serving, Doing, AtRest
  <2>2. Cardinality(Serving(d)) = 0
    BY <2>1, FS_EmptySet
  <2> QED
    BY <2>2 DEF AccessInit
<1>5. PagesHold
  BY DEF AccessInit, PagesHold
<1> QED
  BY <1>1, <1>2, <1>3, <1>4, <1>5 DEF AccessInv

-----------------------------------------------------------------------------
(* Documents: what is written stays.                                       *)

\* Documents stay filed and void, damaged objects stay damaged, tokens keep
\* their documents, and the trails only grow.
Lasting ==
    /\ \A d \in Papers : Filed(d) => Filed(d)'
    /\ \A d \in Papers : paper[d].status = "void" => paper'[d].status = "void"
    /\ \A d \in Papers : Filed(d) /\ object[d] # "intact" => object'[d] # "intact"
    /\ \A t \in Tokens : token[t].state # "unused" =>
          token'[t].paper = token[t].paper /\ token'[t].state # "unused"
    /\ access \subseteq access'
    /\ voidings \subseteq voidings'

\* The actions that leave documents, objects and tokens alone.
LEMMA Others ==
    ASSUME NEW h \in Clerks,
           \/ VoidAudit(h) \/ VoidAccess(h) \/ DownloadFetch(h) \/ DownloadAccess(h)
           \/ DownloadServe(h) \/ VerifyFetch(h) \/ VerifyAnswer(h) \/ GiveUp(h)
           \/ \E t \in Tokens : DownloadRead(h, t)
           \/ \E d \in Papers : VerifyRead(h, d)
           \/ \E d \in Papers, reason \in Reasons : VoidRead(h, d, reason)
    PROVE  /\ paper' = paper
           /\ object' = object
           /\ token' = token
           /\ access \subseteq access'
           /\ voidings \subseteq voidings'
  BY DEF VoidAudit, VoidAccess, DownloadFetch, DownloadAccess, DownloadServe, VerifyFetch,
     VerifyAnswer, GiveUp, DownloadRead, VerifyRead, VoidRead, RecordAccess

LEMMA Lasts ==
    ASSUME AccessInv, [AccessNext]_accessVars
    PROVE  Lasting
<1> USE DEF AccessTypeOK
<1>1. ASSUME NEW d \in Papers, FilePaper(d)
      PROVE  Lasting
  <2>1. /\ ~Filed(d)
        /\ \A e \in Papers \ {d} : paper'[e] = paper[e] /\ object'[e] = object[e]
        /\ paper'[d].status = "completed"
        /\ token' = token /\ access' = access /\ voidings' = voidings
    BY <1>1, AccessParts DEF FilePaper, PaperRow
  <2> QED
    BY <2>1 DEF Lasting, Filed
<1>2. ASSUME NEW d \in Papers, DamageObject(d)
      PROVE  Lasting
  BY <1>2, AccessParts DEF DamageObject, Lasting, Filed
<1>3. ASSUME NEW h \in Clerks, VoidWrite(h)
      PROVE  Lasting
  <2>1. \A e \in Papers : paper'[e] = paper[e] \/ paper'[e].status = "void"
    BY <1>3, AccessParts DEF VoidWrite
  <2> QED
    BY <1>3, <2>1 DEF VoidWrite, Lasting, Filed
<1>4. ASSUME NEW h \in Clerks, NEW d \in Papers, NEW t \in Tokens, IssueToken(h, d, t)
      PROVE  Lasting
  BY <1>4, AccessParts DEF IssueToken, Lasting, Filed, Unused
<1>5. ASSUME NEW h \in Clerks, IssueAccess(h)
      PROVE  Lasting
  BY <1>5, AccessParts DEF IssueAccess, RecordAccess, Lasting, Filed, TokenRow
<1>6. ASSUME NEW t \in Tokens, ExpireToken(t)
      PROVE  Lasting
  BY <1>6, AccessParts DEF ExpireToken, Lasting, Filed, TokenRow
<1>7. CASE UNCHANGED accessVars
  BY <1>7 DEF accessVars, Lasting, Filed
<1> QED
  BY <1>1, <1>2, <1>3, <1>4, <1>5, <1>6, <1>7, Others DEF AccessNext, Lasting, Filed

\* What a handler holds survives the steps of the others.
LEMMA ClerksStay ==
    ASSUME AccessInv, Lasting, NEW h \in Clerks, clerk'[h] = clerk[h]
    PROVE  ClerkHolds(h)'
<1> DEFINE w == clerk[h]
<1>1. ClerkHolds(h)
  BY AccessParts
<1>2. w.pc # "idle" => w.paper \in Papers /\ Filed(w.paper)
  BY <1>1 DEF ClerkHolds
<1>3. w.pc = "issued" =>
         /\ w.token \in Tokens
         /\ token'[w.token].state # "unused"
         /\ token'[w.token].paper = w.paper
  BY <1>1 DEF ClerkHolds, Lasting
<1>4. w.pc = "void_access" => \E v \in voidings' : v.paper = w.paper
  BY <1>1 DEF ClerkHolds, Lasting
<1>5. w.pc \in {"fetch", "download_access", "serve"} => Issued(w.paper)'
  BY <1>1 DEF ClerkHolds, Lasting, Issued
<1>6. w.pc \in {"verify", "page"} => (w.damaged => object'[w.paper] # "intact")
  BY <1>1, <1>2 DEF ClerkHolds, Lasting
<1>7. /\ w.pc \in {"void_audit", "void_access"} => paper'[w.paper].status = "void"
      /\ w.pc \in {"verify", "page"} =>
            (w.status = "void" => paper'[w.paper].status = "void")
  BY <1>1, <1>2 DEF ClerkHolds, Lasting
<1>8. w.pc # "idle" => Filed(w.paper)'
  BY <1>2 DEF Lasting
<1> QED
  BY <1>1, <1>2, <1>3, <1>4, <1>5, <1>6, <1>7, <1>8 DEF ClerkHolds

LEMMA RestFits ==
    ASSUME NEW h \in Clerks, clerk'[h] = AtRest
    PROVE  ClerkHolds(h)'
  BY DEF ClerkHolds, AtRest

\* The handler that acts goes on with what its next step relies on, and no
\* step disturbs another handler.
LEMMA ClerksStep ==
    ASSUME AccessInv, [AccessNext]_accessVars
    PROVE  \A h \in Clerks : ClerkHolds(h)'
<1> USE DEF AccessTypeOK
<1>l. Lasting
  BY Lasts
<1> DEFINE Fits(h) == /\ ClerkHolds(h)'
                      /\ \A k \in Clerks \ {h} : clerk'[k] = clerk[k]
<1>t. clerk \in [Clerks -> ClerkState] /\ \A h \in Clerks : clerk[h] \in ClerkState
  BY AccessParts
<1>h. \A h \in Clerks : ClerkHolds(h)
  BY AccessParts
<1>1. ASSUME NEW h \in Clerks, NEW d \in Papers, NEW reason \in Reasons, VoidRead(h, d, reason)
      PROVE  Fits(h)
  BY <1>1, <1>t DEF VoidRead, ClerkHolds, AtRest, Filed
<1>2. ASSUME NEW h \in Clerks, VoidWrite(h)
      PROVE  Fits(h)
  <2>1. /\ clerk'[h] = [clerk[h] EXCEPT !.pc = "void_audit"]
        /\ \A k \in Clerks \ {h} : clerk'[k] = clerk[k]
        /\ clerk[h].pc = "void"
        /\ clerk[h].paper \in Papers
        /\ clerk[h].reason \in Reasons
    BY <1>2, <1>h, <1>t DEF VoidWrite, ClerkHolds, Doing
  <2>2. /\ clerk'[h].pc = "void_audit"
        /\ clerk'[h].paper = clerk[h].paper
        /\ clerk'[h].reason = clerk[h].reason
    BY <1>t, <2>1 DEF ClerkState
  <2>3. paper'[clerk[h].paper].status = "void"
    BY <1>2, <2>1, AccessParts DEF VoidWrite
  <2> QED
    BY <2>1, <2>2, <2>3 DEF ClerkHolds, Filed
<1>3. ASSUME NEW h \in Clerks, VoidAudit(h)
      PROVE  Fits(h)
  <2>1. /\ clerk'[h] = [clerk[h] EXCEPT !.pc = "void_access"]
        /\ \A k \in Clerks \ {h} : clerk'[k] = clerk[k]
        /\ clerk[h].pc = "void_audit"
        /\ paper' = paper
        /\ [paper |-> clerk[h].paper, reason |-> clerk[h].reason] \in voidings'
    BY <1>3, <1>t DEF VoidAudit, Doing
  <2>2. clerk'[h].pc = "void_access" /\ clerk'[h].paper = clerk[h].paper
    BY <1>t, <2>1 DEF ClerkState
  <2> QED
    BY <1>h, <2>1, <2>2 DEF ClerkHolds, Filed
<1>4. ASSUME NEW h \in Clerks,
             \/ VoidAccess(h) \/ IssueAccess(h) \/ DownloadServe(h)
             \/ VerifyAnswer(h) \/ GiveUp(h)
      PROVE  Fits(h)
  <2>1. Rest(h)
    BY <1>4 DEF VoidAccess, IssueAccess, DownloadServe, VerifyAnswer, GiveUp
  <2> QED
    BY <1>t, <2>1, RestFits DEF Rest
<1>5. ASSUME NEW h \in Clerks, NEW d \in Papers, NEW t \in Tokens, IssueToken(h, d, t)
      PROVE  Fits(h)
  <2>1. /\ clerk'[h] = [AtRest EXCEPT !.pc = "issued", !.paper = d, !.token = t]
        /\ \A k \in Clerks \ {h} : clerk'[k] = clerk[k]
        /\ token'[t] = [paper |-> d, state |-> "stored"]
        /\ Filed(d)'
    BY <1>5, <1>t, AccessParts DEF IssueToken, Filed
  <2>2. clerk'[h].pc = "issued" /\ clerk'[h].paper = d /\ clerk'[h].token = t
    BY <2>1 DEF AtRest
  <2> QED
    BY <2>1, <2>2 DEF ClerkHolds
<1>6. ASSUME NEW h \in Clerks, NEW t \in Tokens, DownloadRead(h, t)
      PROVE  Fits(h)
  <2>1. /\ clerk'[h] = [AtRest EXCEPT !.pc = "fetch", !.paper = token[t].paper, !.token = t]
        /\ \A k \in Clerks \ {h} : clerk'[k] = clerk[k]
        /\ paper' = paper /\ access' = access
        /\ token[t].paper \in Papers
        /\ Filed(token[t].paper)
        /\ Issued(token[t].paper)
    BY <1>6, <1>t, AccessParts DEF DownloadRead, TokensHold
  <2>2. clerk'[h].pc = "fetch" /\ clerk'[h].paper = token[t].paper
    BY <2>1 DEF AtRest
  <2> QED
    BY <2>1, <2>2 DEF ClerkHolds, Filed, Issued
<1>7. ASSUME NEW h \in Clerks, DownloadFetch(h) \/ DownloadAccess(h)
      PROVE  Fits(h)
  <2>1. /\ clerk'[h].pc \in {"download_access", "serve"}
        /\ clerk'[h].paper = clerk[h].paper
        /\ \A k \in Clerks \ {h} : clerk'[k] = clerk[k]
        /\ clerk[h].pc \in {"fetch", "download_access"}
    BY <1>7, <1>t DEF DownloadFetch, DownloadAccess, Doing, ClerkState
  <2>2. /\ clerk[h].paper \in Papers
        /\ Filed(clerk[h].paper)'
        /\ Issued(clerk[h].paper)'
    BY <1>h, <1>l, <2>1 DEF ClerkHolds, Lasting, Issued
  <2> QED
    BY <2>1, <2>2 DEF ClerkHolds
<1>8. ASSUME NEW h \in Clerks, NEW d \in Papers, VerifyRead(h, d)
      PROVE  Fits(h)
  <2>1. /\ clerk'[h] = [AtRest EXCEPT !.pc = "verify", !.paper = d,
                                      !.status = paper[d].status,
                                      !.damaged = object[d] # "intact"]
        /\ \A k \in Clerks \ {h} : clerk'[k] = clerk[k]
        /\ paper' = paper /\ object' = object
        /\ Filed(d)
    BY <1>8, <1>t DEF VerifyRead
  <2>2. /\ clerk'[h].pc = "verify"
        /\ clerk'[h].paper = d
        /\ clerk'[h].status = paper[d].status
        /\ clerk'[h].damaged => object[d] # "intact"
    BY <2>1 DEF AtRest
  <2> QED
    BY <2>1, <2>2 DEF ClerkHolds, Filed
<1>9. ASSUME NEW h \in Clerks, VerifyFetch(h)
      PROVE  Fits(h)
  <2>1. /\ clerk'[h].pc = "page"
        /\ clerk'[h].paper = clerk[h].paper
        /\ clerk'[h].status = clerk[h].status
        /\ clerk'[h].damaged = clerk[h].damaged
        /\ clerk'[h].intact => object[clerk[h].paper] = "intact"
        /\ \A k \in Clerks \ {h} : clerk'[k] = clerk[k]
        /\ paper' = paper /\ object' = object
        /\ clerk[h].pc = "verify"
    BY <1>9, <1>t DEF VerifyFetch, StorageGet, Doing, ClerkState
  <2> QED
    BY <1>h, <2>1 DEF ClerkHolds, Filed
<1>10. CASE \/ \E d \in Papers : FilePaper(d) \/ DamageObject(d)
            \/ \E t \in Tokens : ExpireToken(t)
            \/ UNCHANGED accessVars
  <2>1. clerk' = clerk
    BY <1>10 DEF FilePaper, DamageObject, ExpireToken, accessVars
  <2> QED
    BY <1>l, <2>1, ClerksStay
<1>11. ASSUME NEW h \in Clerks, Fits(h)
       PROVE  \A k \in Clerks : ClerkHolds(k)'
  BY <1>l, <1>11, ClerksStay
<1> HIDE DEF Fits
<1> QED
  BY <1>1, <1>2, <1>3, <1>4, <1>5, <1>6, <1>7, <1>8, <1>9, <1>10, <1>11 DEF AccessNext

LEMMA AccessTypesStep ==
    ASSUME AccessInv, [AccessNext]_accessVars
    PROVE  AccessTypeOK'
<1> USE DEF AccessTypeOK
<1>t. clerk \in [Clerks -> ClerkState] /\ \A h \in Clerks : clerk[h] \in ClerkState
  BY AccessParts
<1>h. \A h \in Clerks : ClerkHolds(h)
  BY AccessParts
<1>r. ASSUME NEW d \in Papers, NEW action, RecordAccess(d, action),
             action \in {"voided", "download_token_issued", "downloaded", "viewed"}
      PROVE  access' \subseteq AccessEvent /\ logged' \in [Papers -> Nat]
  BY <1>r, AccessParts DEF RecordAccess, AccessEvent
<1>s. ASSUME NEW h \in Clerks, Rest(h)
      PROVE  clerk' \in [Clerks -> ClerkState]
  BY <1>s, <1>t, AtRestTyped DEF Rest
<1>1. ASSUME NEW d \in Papers, FilePaper(d)
      PROVE  AccessTypeOK'
  <2>1. paper' \in [Papers -> PaperRow]
    BY <1>1, AccessParts DEF FilePaper, PaperRow
  <2> QED
    BY <1>1, <2>1, AccessParts DEF FilePaper
<1>2. ASSUME NEW d \in Papers, DamageObject(d)
      PROVE  AccessTypeOK'
  BY <1>2, AccessParts DEF DamageObject
<1>3. ASSUME NEW h \in Clerks, NEW d \in Papers, NEW reason \in Reasons, VoidRead(h, d, reason)
      PROVE  AccessTypeOK'
  <2>1. [AtRest EXCEPT !.pc = "void", !.paper = d, !.reason = reason] \in ClerkState
    BY DEF AtRest, ClerkState
  <2> QED
    BY <1>3, <2>1, AccessParts DEF VoidRead
<1>4. ASSUME NEW h \in Clerks, VoidWrite(h)
      PROVE  AccessTypeOK'
  <2>1. clerk[h].paper \in Papers /\ clerk[h].reason \in Reasons
    BY <1>4, <1>h DEF VoidWrite, Doing, ClerkHolds
  <2>2. [status |-> "void", reason |-> clerk[h].reason] \in PaperRow
    BY <2>1 DEF PaperRow
  <2>3. [clerk[h] EXCEPT !.pc = "void_audit"] \in ClerkState
    BY <1>t DEF ClerkState
  <2> QED
    BY <1>4, <2>1, <2>2, <2>3, AccessParts DEF VoidWrite
<1>5. ASSUME NEW h \in Clerks, VoidAudit(h)
      PROVE  AccessTypeOK'
  <2>1. clerk[h].paper \in Papers /\ clerk[h].reason \in Reasons
    BY <1>5, <1>h DEF VoidAudit, Doing, ClerkHolds
  <2>2. [clerk[h] EXCEPT !.pc = "void_access"] \in ClerkState
    BY <1>t DEF ClerkState
  <2> QED
    BY <1>5, <2>1, <2>2, AccessParts DEF VoidAudit
<1>6. ASSUME NEW h \in Clerks, VoidAccess(h)
      PROVE  AccessTypeOK'
  <2>1. clerk[h].paper \in Papers
    BY <1>6, <1>h DEF VoidAccess, Doing, ClerkHolds
  <2> QED
    BY <1>6, <1>r, <1>s, <2>1, AccessParts DEF VoidAccess
<1>7. ASSUME NEW h \in Clerks, NEW d \in Papers, NEW t \in Tokens, IssueToken(h, d, t)
      PROVE  AccessTypeOK'
  <2>1. [AtRest EXCEPT !.pc = "issued", !.paper = d, !.token = t] \in ClerkState
    BY DEF AtRest, ClerkState
  <2>2. [paper |-> d, state |-> "stored"] \in TokenRow
    BY DEF TokenRow
  <2> QED
    BY <1>7, <2>1, <2>2, AccessParts DEF IssueToken
<1>8. ASSUME NEW h \in Clerks, IssueAccess(h)
      PROVE  AccessTypeOK'
  <2>1. clerk[h].paper \in Papers
    BY <1>8, <1>h DEF IssueAccess, Doing, ClerkHolds
  <2>2. token' \in [Tokens -> TokenRow]
    <3>1. token \in [Tokens -> TokenRow]
      BY AccessParts
    <3>2. \A t \in Tokens : [token[t] EXCEPT !.state = "out"] \in TokenRow
                          /\ [token[t] EXCEPT !.state = @] \in TokenRow
      BY <3>1 DEF TokenRow
    <3>3. token' = [token EXCEPT ![clerk[h].token].state =
                      IF @ = "stored" THEN "out" ELSE @]
      BY <1>8 DEF IssueAccess
    <3> QED
      BY <3>1, <3>2, <3>3
  <2> QED
    BY <1>8, <1>r, <1>s, <2>1, <2>2, AccessParts DEF IssueAccess
<1>9. ASSUME NEW t \in Tokens, ExpireToken(t)
      PROVE  AccessTypeOK'
  <2>1. token' \in [Tokens -> TokenRow]
    BY <1>9, AccessParts DEF ExpireToken, TokenRow
  <2> QED
    BY <1>9, <2>1, AccessParts DEF ExpireToken
<1>10. ASSUME NEW h \in Clerks, NEW t \in Tokens, DownloadRead(h, t)
       PROVE  AccessTypeOK'
  <2>1. token[t].paper \in Papers
    BY <1>10, AccessParts DEF DownloadRead, TokensHold
  <2>2. [AtRest EXCEPT !.pc = "fetch", !.paper = token[t].paper, !.token = t] \in ClerkState
    BY <2>1 DEF AtRest, ClerkState
  <2> QED
    BY <1>10, <2>2, AccessParts DEF DownloadRead
<1>11. ASSUME NEW h \in Clerks, DownloadFetch(h)
       PROVE  AccessTypeOK'
  <2>1. [clerk[h] EXCEPT !.pc = "download_access"] \in ClerkState
    BY <1>t DEF ClerkState
  <2> QED
    BY <1>11, <2>1, AccessParts DEF DownloadFetch
<1>12. ASSUME NEW h \in Clerks, DownloadAccess(h)
       PROVE  AccessTypeOK'
  <2>1. [clerk[h] EXCEPT !.pc = "serve"] \in ClerkState
    BY <1>t DEF ClerkState
  <2>2. clerk[h].paper \in Papers
    BY <1>12, <1>h DEF DownloadAccess, Doing, ClerkHolds
  <2> QED
    BY <1>12, <1>r, <2>1, <2>2, AccessParts DEF DownloadAccess
<1>13. ASSUME NEW h \in Clerks, DownloadServe(h)
       PROVE  AccessTypeOK'
  <2>1. clerk[h].paper \in Papers
    BY <1>13, <1>h DEF DownloadServe, Doing, ClerkHolds
  <2>2. served' \in [Papers -> Nat]
    BY <1>13, <2>1, AccessParts DEF DownloadServe
  <2> QED
    BY <1>13, <1>s, <2>2, AccessParts DEF DownloadServe
<1>14. ASSUME NEW h \in Clerks, NEW d \in Papers, VerifyRead(h, d)
       PROVE  AccessTypeOK'
  <2>1. paper[d].status \in {"absent", "completed", "void"}
    BY AccessParts DEF PaperRow
  <2>2. [AtRest EXCEPT !.pc = "verify", !.paper = d, !.status = paper[d].status,
                       !.damaged = object[d] # "intact"] \in ClerkState
    BY <2>1 DEF AtRest, ClerkState
  <2> QED
    BY <1>14, <2>2, AccessParts DEF VerifyRead
<1>15. ASSUME NEW h \in Clerks, VerifyFetch(h)
       PROVE  AccessTypeOK'
  <2>1. PICK found \in StorageGet(clerk[h].paper) :
           clerk' = [clerk EXCEPT ![h].pc = "page", ![h].intact = (found = "intact")]
    BY <1>15 DEF VerifyFetch
  <2>2. [clerk[h] EXCEPT !.pc = "page", !.intact = (found = "intact")] \in ClerkState
    BY <1>t DEF ClerkState
  <2>3. clerk' = [clerk EXCEPT ![h] =
           [clerk[h] EXCEPT !.pc = "page", !.intact = (found = "intact")]]
    BY <1>t, <2>1
  <2> QED
    BY <1>15, <2>2, <2>3, AccessParts DEF VerifyFetch
<1>16. ASSUME NEW h \in Clerks, VerifyAnswer(h)
       PROVE  AccessTypeOK'
  <2>1. clerk[h].paper \in Papers
    BY <1>16, <1>h DEF VerifyAnswer, Doing, ClerkHolds
  <2> QED
    BY <1>16, <1>r, <1>s, <2>1, AccessParts DEF VerifyAnswer
<1>17. ASSUME NEW h \in Clerks, GiveUp(h)
       PROVE  AccessTypeOK'
  BY <1>17, <1>s, AccessParts DEF GiveUp
<1>18. CASE UNCHANGED accessVars
  BY <1>18, AccessParts DEF accessVars
<1> QED
  BY <1>1, <1>2, <1>3, <1>4, <1>5, <1>6, <1>7, <1>8, <1>9, <1>10, <1>11, <1>12, <1>13,
     <1>14, <1>15, <1>16, <1>17, <1>18 DEF AccessNext

\* A token goes out, and bytes leave, when the log has its issue.
LEMMA TokensStep ==
    ASSUME AccessInv, [AccessNext]_accessVars
    PROVE  TokensHold'
<1> USE DEF AccessTypeOK
<1>l. Lasting
  BY Lasts
<1>h. \A h \in Clerks : ClerkHolds(h)
  BY AccessParts
<1>i. \A d \in Papers : Issued(d) => Issued(d)'
  BY <1>l DEF Lasting, Issued
<1>a. \/ token' = token
      \/ \E h \in Clerks, d \in Papers, t \in Tokens : IssueToken(h, d, t)
      \/ \E h \in Clerks : IssueAccess(h)
      \/ \E u \in Tokens : ExpireToken(u)
  BY Others DEF AccessNext, accessVars, FilePaper, DamageObject, VoidWrite
<1>b. ASSUME NEW h \in Clerks, NEW d \in Papers, NEW t \in Tokens, IssueToken(h, d, t)
      PROVE  /\ \A u \in Tokens \ {t} : token'[u] = token[u]
             /\ token'[t].paper = d /\ token'[t].state = "stored" /\ Filed(d)'
  BY <1>b, AccessParts DEF IssueToken, Filed
<1>c. ASSUME NEW h \in Clerks, IssueAccess(h), NEW t \in Tokens
      PROVE  /\ token'[t].paper = token[t].paper
             /\ token[t].state = "unused" => token'[t].state = "unused"
             /\ t # clerk[h].token => token'[t] = token[t]
  BY <1>c, AccessParts DEF IssueAccess, TokenRow
<1>d. ASSUME NEW u \in Tokens, ExpireToken(u), NEW t \in Tokens
      PROVE  /\ token'[t].paper = token[t].paper
             /\ token[t].state = "unused" => token'[t].state = "unused"
             /\ token'[t].state = "out" => token'[t] = token[t]
  BY <1>d, AccessParts DEF ExpireToken, TokenRow
<1>1. \A t \in Tokens : token'[t].state # "unused" =>
         \E d \in Papers : token'[t].paper = d /\ Filed(d)'
  <2> SUFFICES ASSUME NEW t \in Tokens, token'[t].state # "unused"
               PROVE  \E d \in Papers : token'[t].paper = d /\ Filed(d)'
    OBVIOUS
  <2>1. ASSUME token'[t].paper = token[t].paper, token[t].state # "unused"
        PROVE  \E d \in Papers : token'[t].paper = d /\ Filed(d)'
    <3>1. PICK d \in Papers : d = token[t].paper /\ Filed(d)
      BY <2>1, AccessParts DEF TokensHold
    <3>2. Filed(d)'
      BY <1>l, <3>1 DEF Lasting
    <3> QED
      BY <2>1, <3>1, <3>2
  <2>2. CASE \E h \in Clerks, d \in Papers, u \in Tokens : IssueToken(h, d, u)
    BY <1>b, <2>1, <2>2
  <2> QED
    BY <1>a, <1>c, <1>d, <2>1, <2>2
<1>2. \A t \in Tokens : token'[t].state = "out" =>
         [paper |-> token'[t].paper, action |-> "download_token_issued"] \in access'
  <2> SUFFICES ASSUME NEW t \in Tokens, token'[t].state = "out"
               PROVE  [paper |-> token'[t].paper, action |-> "download_token_issued"]
                          \in access'
    OBVIOUS
  <2>1. ASSUME token'[t] = token[t]
        PROVE  [paper |-> token'[t].paper, action |-> "download_token_issued"] \in access'
    BY <1>l, <2>1, AccessParts DEF TokensHold, Lasting, Issued
  <2>2. ASSUME NEW h \in Clerks, IssueAccess(h), t = clerk[h].token
        PROVE  [paper |-> token'[t].paper, action |-> "download_token_issued"] \in access'
    <3>1. token'[t].paper = clerk[h].paper
      BY <1>h, <1>c, <2>2 DEF IssueAccess, Doing, ClerkHolds
    <3>2. [paper |-> clerk[h].paper, action |-> "download_token_issued"] \in access'
      BY <2>2 DEF IssueAccess, RecordAccess
    <3> QED
      BY <3>1, <3>2
  <2>3. CASE \E h \in Clerks, d \in Papers, u \in Tokens : IssueToken(h, d, u)
    BY <1>b, <2>1, <2>3
  <2> QED
    BY <1>a, <1>c, <1>d, <2>1, <2>2, <2>3
<1>3. \A d \in Papers : served'[d] > 0 => Issued(d)'
  <2>1. ASSUME NEW h \in Clerks, DownloadServe(h)
        PROVE  \A d \in Papers : served'[d] > 0 => Issued(d)
    <3>1. clerk[h].paper \in Papers /\ Issued(clerk[h].paper)
      BY <1>h, <2>1 DEF DownloadServe, Doing, ClerkHolds
    <3>2. \A d \in Papers \ {clerk[h].paper} : served'[d] = served[d]
      BY <2>1, AccessParts DEF DownloadServe
    <3> QED
      BY <3>1, <3>2, AccessParts DEF TokensHold
  <2>2. CASE served' = served
    BY <1>i, <2>2, AccessParts DEF TokensHold
  <2>3. served' = served \/ \E h \in Clerks : DownloadServe(h)
    BY DEF AccessNext, accessVars, FilePaper, DamageObject, ExpireToken, VoidRead,
       IssueToken, VerifyRead, DownloadRead, VoidWrite, VoidAudit, VoidAccess, IssueAccess,
       DownloadFetch, DownloadAccess, VerifyFetch, VerifyAnswer, GiveUp
  <2> QED
    BY <1>i, <2>1, <2>2, <2>3
<1>4. \A t \in Tokens : token'[t].state # "unused" =>
         token'[t].paper \in Papers /\ paper'[token'[t].paper].status # "absent"
  BY <1>1 DEF Filed
<1> QED
  BY <1>2, <1>3, <1>4 DEF TokensHold, Filed, Issued

\* The log is ahead of the bytes by the downloads on their way.
LEMMA LogStep ==
    ASSUME AccessInv, [AccessNext]_accessVars
    PROVE  LogIsAhead'
<1> USE DEF AccessTypeOK
<1>t. clerk \in [Clerks -> ClerkState] /\ \A h \in Clerks : clerk[h] \in ClerkState
  BY AccessParts
<1>f. \A d : /\ IsFiniteSet(Serving(d)) /\ Cardinality(Serving(d)) \in Nat
             /\ IsFiniteSet(Serving(d)') /\ Cardinality(Serving(d)') \in Nat
  <2>1. \A d : Serving(d) \subseteq Clerks /\ Serving(d)' \subseteq Clerks
    BY DEF Serving
  <2> QED
    BY <2>1, AccessAssumption, FS_Subset, FS_CardinalityType
<1>n. \A d \in Papers :
         /\ served[d] \in Nat
         /\ logged[d] \in Nat
         /\ served[d] + Cardinality(Serving(d)) <= logged[d]
  BY AccessParts DEF LogIsAhead
<1>1. ASSUME NEW h \in Clerks, DownloadAccess(h)
      PROVE  LogIsAhead'
  <2>p. PICK p \in Papers : p = clerk[h].paper
    BY <1>1, AccessParts DEF DownloadAccess, Doing, ClerkHolds
  <2>1. /\ clerk[h].pc = "download_access"
        /\ clerk'[h].pc = "serve"
        /\ clerk'[h].paper = p
        /\ \A k \in Clerks \ {h} : clerk'[k] = clerk[k]
        /\ served' = served
        /\ logged' = [logged EXCEPT ![p] = @ + 1]
    BY <1>1, <1>t, <2>p DEF DownloadAccess, Doing, RecordAccess, ClerkState
  <2>2. Serving(p)' = Serving(p) \cup {h} /\ h \notin Serving(p)
    BY <2>1 DEF Serving, Doing
  <2>3. Cardinality(Serving(p)') = Cardinality(Serving(p)) + 1
    BY <1>f, <2>2, FS_AddElement
  <2>4. \A d \in Papers \ {p} : Serving(d)' = Serving(d) /\ logged'[d] = logged[d]
    BY <2>1, AccessParts DEF Serving, Doing
  <2>5. logged'[p] = logged[p] + 1
    BY <2>1, AccessParts
  <2>6. served'[p] + Cardinality(Serving(p)') <= logged'[p]
    BY <1>f, <1>n, <2>1, <2>3, <2>5
  <2>7. \A d \in Papers \ {p} : served'[d] + Cardinality(Serving(d)') <= logged'[d]
    BY <1>n, <2>1, <2>4
  <2> QED
    BY <2>6, <2>7 DEF LogIsAhead
<1>2. ASSUME NEW h \in Clerks, DownloadServe(h)
      PROVE  LogIsAhead'
  <2>p. PICK p \in Papers : p = clerk[h].paper
    BY <1>2, AccessParts DEF DownloadServe, Doing, ClerkHolds
  <2>1. /\ clerk[h].pc = "serve"
        /\ clerk'[h].pc = "idle"
        /\ \A k \in Clerks \ {h} : clerk'[k] = clerk[k]
        /\ served' = [served EXCEPT ![p] = @ + 1]
        /\ logged' = logged
    BY <1>2, <1>t, <2>p DEF DownloadServe, Doing, Rest, AtRest
  <2>2. h \in Serving(p)
    BY <2>p, <2>1 DEF Serving, Doing
  <2>3. Serving(p)' = Serving(p) \ {h}
    BY <2>p, <2>1 DEF Serving, Doing
  <2>4. Cardinality(Serving(p)') = Cardinality(Serving(p)) - 1
    BY <1>f, <2>2, <2>3, FS_RemoveElement
  <2>5. \A d \in Papers \ {p} : Serving(d)' \subseteq Serving(d) /\ served'[d] = served[d]
    BY <2>1, AccessParts DEF Serving, Doing
  <2>6. \A d \in Papers \ {p} : Cardinality(Serving(d)') <= Cardinality(Serving(d))
    BY <1>f, <2>5, FS_Subset
  <2>7. served'[p] = served[p] + 1
    BY <2>1, AccessParts
  <2>8. served'[p] + Cardinality(Serving(p)') <= logged'[p]
    BY <1>f, <1>n, <2>1, <2>4, <2>7
  <2>9. \A d \in Papers \ {p} : served'[d] + Cardinality(Serving(d)') <= logged'[d]
    BY <1>f, <1>n, <2>1, <2>5, <2>6
  <2> QED
    BY <2>8, <2>9 DEF LogIsAhead
<1>3. ASSUME served' = served,
             \A d \in Papers : logged'[d] \in Nat /\ logged[d] <= logged'[d],
             \A h \in Clerks : Doing(h, "serve")' => Doing(h, "serve") /\ clerk'[h] = clerk[h]
      PROVE  LogIsAhead'
  <2>1. \A d \in Papers : Serving(d)' \subseteq Serving(d)
    BY <1>3 DEF Serving
  <2>2. \A d \in Papers : Cardinality(Serving(d)') <= Cardinality(Serving(d))
    BY <1>f, <2>1, FS_Subset
  <2>3. \A d \in Papers : served[d] + Cardinality(Serving(d)') <= logged'[d]
    BY <1>3, <1>f, <1>n, <2>2
  <2> QED
    BY <1>3, <2>3 DEF LogIsAhead
<1>g. ASSUME NEW d, NEW action, RecordAccess(d, action)
      PROVE  \A e \in Papers : logged'[e] \in Nat /\ logged[e] <= logged'[e]
  BY <1>g, AccessParts DEF RecordAccess
<1>4. ASSUME NEW h \in Clerks, VoidAccess(h) \/ IssueAccess(h) \/ VerifyAnswer(h)
      PROVE  LogIsAhead'
  <2>1. \A d \in Papers : logged'[d] \in Nat /\ logged[d] <= logged'[d]
    BY <1>4, <1>g DEF VoidAccess, IssueAccess, VerifyAnswer
  <2>2. served' = served /\ Rest(h)
    BY <1>4 DEF VoidAccess, IssueAccess, VerifyAnswer
  <2>3. \A k \in Clerks : Doing(k, "serve")' => Doing(k, "serve") /\ clerk'[k] = clerk[k]
    BY <1>t, <2>2 DEF Rest, AtRest, Doing
  <2> QED
    BY <1>3, <2>1, <2>2, <2>3
<1>5. ASSUME NEW h \in Clerks, served' = served, logged' = logged,
             \A k \in Clerks \ {h} : clerk'[k] = clerk[k], clerk'[h].pc # "serve"
      PROVE  LogIsAhead'
  BY <1>3, <1>n, <1>5 DEF Doing
<1>6. ASSUME NEW h \in Clerks,
             \/ VoidWrite(h) \/ VoidAudit(h) \/ DownloadFetch(h) \/ VerifyFetch(h)
             \/ GiveUp(h)
      PROVE  LogIsAhead'
  <2>1. /\ \A k \in Clerks \ {h} : clerk'[k] = clerk[k]
        /\ clerk'[h].pc # "serve"
    BY <1>6, <1>t DEF VoidWrite, VoidAudit, DownloadFetch, VerifyFetch, GiveUp, Rest,
       AtRest, ClerkState
  <2>2. served' = served /\ logged' = logged
    BY <1>6 DEF VoidWrite, VoidAudit, DownloadFetch, VerifyFetch, GiveUp
  <2> QED
    BY <1>5, <2>1, <2>2
<1>7. ASSUME NEW h \in Clerks,
             \/ \E t \in Tokens : DownloadRead(h, t)
             \/ \E d \in Papers : VerifyRead(h, d)
             \/ \E d \in Papers, t \in Tokens : IssueToken(h, d, t)
             \/ \E d \in Papers, reason \in Reasons : VoidRead(h, d, reason)
      PROVE  LogIsAhead'
  <2>1. /\ \A k \in Clerks \ {h} : clerk'[k] = clerk[k]
        /\ clerk'[h].pc # "serve"
    BY <1>7, <1>t DEF DownloadRead, VerifyRead, IssueToken, VoidRead, AtRest
  <2>2. served' = served /\ logged' = logged
    BY <1>7 DEF DownloadRead, VerifyRead, IssueToken, VoidRead
  <2> QED
    BY <1>5, <2>1, <2>2
<1>8. CASE \/ \E d \in Papers : FilePaper(d) \/ DamageObject(d)
           \/ \E t \in Tokens : ExpireToken(t)
           \/ UNCHANGED accessVars
  <2>1. served' = served /\ logged' = logged /\ clerk' = clerk
    BY <1>8 DEF FilePaper, DamageObject, ExpireToken, accessVars
  <2> QED
    BY <1>3, <1>n, <2>1 DEF Doing
<1> QED
  BY <1>1, <1>2, <1>4, <1>6, <1>7, <1>8 DEF AccessNext

\* The trails and pages say what is so, and what is so stays so.
LEMMA PagesStep ==
    ASSUME AccessInv, [AccessNext]_accessVars
    PROVE  PagesHold'
<1> USE DEF AccessTypeOK
<1>l. Lasting
  BY Lasts
<1>h. \A h \in Clerks : ClerkHolds(h)
  BY AccessParts
<1>1. \A d \in Papers : [paper |-> d, action |-> "voided"] \in access' =>
         \E v \in voidings' : v.paper = d
  <2>1. ASSUME NEW h \in Clerks, VoidAccess(h), NEW d \in Papers,
               [paper |-> d, action |-> "voided"] \in access'
        PROVE  \E v \in voidings : v.paper = d
    <3>1. \E v \in voidings : v.paper = clerk[h].paper
      BY <1>h, <2>1 DEF VoidAccess, Doing, ClerkHolds
    <3>2. [paper |-> d, action |-> "voided"] \in access \/ d = clerk[h].paper
      BY <2>1 DEF VoidAccess, RecordAccess
    <3> QED
      BY <3>1, <3>2, AccessParts DEF PagesHold
  <2>2. ASSUME NEW h \in Clerks, IssueAccess(h) \/ DownloadAccess(h) \/ VerifyAnswer(h)
        PROVE  \A d \in Papers : [paper |-> d, action |-> "voided"] \in access' =>
                  [paper |-> d, action |-> "voided"] \in access
    BY <2>2 DEF IssueAccess, DownloadAccess, VerifyAnswer, RecordAccess
  <2>3. \/ access' = access
        \/ \E h \in Clerks : \/ VoidAccess(h) \/ IssueAccess(h)
                             \/ DownloadAccess(h) \/ VerifyAnswer(h)
    BY DEF AccessNext, accessVars, FilePaper, DamageObject, ExpireToken, VoidRead,
       IssueToken, VerifyRead, DownloadRead, VoidWrite, VoidAudit, DownloadFetch,
       DownloadServe, VerifyFetch, GiveUp
  <2>4. \A d \in Papers : [paper |-> d, action |-> "voided"] \in access =>
           \E v \in voidings : v.paper = d
    BY AccessParts DEF PagesHold
  <2>5. voidings \subseteq voidings'
    BY <1>l DEF Lasting
  <2>6. CASE \E h \in Clerks : VoidAccess(h)
    BY <2>1, <2>5, <2>6
  <2>7. CASE \E h \in Clerks : IssueAccess(h) \/ DownloadAccess(h) \/ VerifyAnswer(h)
    BY <2>2, <2>4, <2>5, <2>7
  <2>8. CASE access' = access
    BY <2>4, <2>5, <2>8
  <2> QED
    BY <2>3, <2>6, <2>7, <2>8
<1>2. \A v \in voidings' : paper'[v.paper].status = "void"
  <2>1. ASSUME NEW h \in Clerks, VoidAudit(h)
        PROVE  \A v \in voidings' : v \in voidings \/ v.paper = clerk[h].paper
    BY <2>1 DEF VoidAudit
  <2>2. ASSUME NEW h \in Clerks, VoidAudit(h)
        PROVE  clerk[h].paper \in Papers /\ paper[clerk[h].paper].status = "void"
    BY <1>h, <2>2 DEF VoidAudit, Doing, ClerkHolds
  <2>3. \A v \in voidings : v.paper \in Papers /\ paper[v.paper].status = "void"
    BY AccessParts DEF PagesHold
  <2>4. voidings' = voidings \/ \E h \in Clerks : VoidAudit(h)
    BY DEF AccessNext, accessVars, FilePaper, DamageObject, ExpireToken, VoidRead,
       IssueToken, VerifyRead, DownloadRead, VoidWrite, VoidAccess, IssueAccess,
       DownloadFetch, DownloadAccess, DownloadServe, VerifyFetch, VerifyAnswer, GiveUp
  <2>5. \A v \in voidings' : v.paper \in Papers /\ paper[v.paper].status = "void"
    BY <2>1, <2>2, <2>3, <2>4
  <2> QED
    BY <1>l, <2>5 DEF Lasting
<1>3. \A d \in shown' : paper'[d].status = "void"
  <2>1. \A d \in shown : d \in Papers /\ paper[d].status = "void"
    BY AccessParts DEF PagesHold
  <2>2. ASSUME NEW h \in Clerks, VerifyAnswer(h), NEW d \in shown'
        PROVE  d \in Papers /\ paper[d].status = "void"
    <3>1. d \in shown \/ (d = clerk[h].paper /\ clerk[h].status = "void")
      BY <2>2 DEF VerifyAnswer
    <3>2. /\ clerk[h].paper \in Papers
          /\ clerk[h].status = "void" => paper[clerk[h].paper].status = "void"
      BY <1>h, <2>2 DEF VerifyAnswer, Doing, ClerkHolds
    <3> QED
      BY <2>1, <3>1, <3>2
  <2>3. shown' = shown \/ \E h \in Clerks : VerifyAnswer(h)
    BY DEF AccessNext, accessVars, FilePaper, DamageObject, ExpireToken, VoidRead,
       IssueToken, VerifyRead, DownloadRead, VoidWrite, VoidAudit, VoidAccess, IssueAccess,
       DownloadFetch, DownloadAccess, DownloadServe, VerifyFetch, GiveUp
  <2>4. \A d \in shown' : d \in Papers /\ paper[d].status = "void"
    BY <2>1, <2>2, <2>3
  <2> QED
    BY <1>l, <2>4 DEF Lasting
<1> QED
  BY <1>1, <1>2, <1>3 DEF PagesHold

LEMMA AccessHolds == AccessSpec => []AccessInv
<1>1. AccessInv /\ [AccessNext]_accessVars => AccessInv'
  BY AccessTypesStep, ClerksStep, TokensStep, LogStep, PagesStep DEF AccessInv
<1> QED
  BY <1>1, AccessStarts, PTL DEF AccessSpec

\* The documents of service.ts, their tokens, trails and handlers keep their
\* types.
THEOREM AccessTypeCorrect == AccessSpec => []AccessTypeOK
  BY AccessHolds, PTL DEF AccessInv

\* Whatever downloads overlap, fail or die at any statement of
\* downloadByToken, no bytes leave that the access log does not count.
THEOREM DownloadsLogged == AccessSpec => []DownloadsAreLogged
<1>1. AccessInv => DownloadsAreLogged
  <2> SUFFICES ASSUME AccessInv, NEW d \in Papers
               PROVE  /\ served[d] <= logged[d]
                      /\ served[d] > 0 => Issued(d)
    BY DEF DownloadsAreLogged, Issued
  <2>1. Cardinality(Serving(d)) \in Nat
    <3>1. Serving(d) \subseteq Clerks
      BY DEF Serving
    <3> QED
      BY <3>1, AccessAssumption, FS_Subset, FS_CardinalityType
  <2>2. /\ served[d] \in Nat /\ logged[d] \in Nat
        /\ served[d] + Cardinality(Serving(d)) <= logged[d]
    BY AccessParts DEF LogIsAhead, AccessTypeOK
  <2> QED
    BY <2>1, <2>2, AccessParts DEF TokensHold
<1> QED
  BY <1>1, AccessHolds, PTL

\* The access log, the audit chain and the verification page of service.ts
\* agree with the documents, whoever voids, looks or dies in between.
THEOREM TrailsTrue == AccessSpec => []TrailsAndPagesAreTrue
<1>1. AccessInv => TrailsAndPagesAreTrue
  BY DEF AccessInv, ClerkHolds, Doing, PagesHold, TrailsAndPagesAreTrue
<1> QED
  BY <1>1, AccessHolds, PTL

-----------------------------------------------------------------------------
(* The walk through the customers.                                         *)

LEMMA LeastOfNumbers ==
    ASSUME NEW S, S \subseteq Nat, S # {}
    PROVE  \E x \in S : \A y \in S : x <= y
<1>1. PICK x \in S : \A y \in S : ~(<<y, x>> \in OpToRel(<, Nat))
  BY NatLessThanWellFounded, WFMin, Zenon
<1>2. \A y \in S : ~(y < x)
  BY <1>1 DEF OpToRel
<1>3. \A y \in S : x <= y
  BY <1>2
<1> QED
  BY <1>3

\* The listing puts customers in a row.
LEMMA OlderOrders ==
    ASSUME DirectoryTypeOK, NEW p \in People, NEW q \in People, NEW r \in People
    PROVE  /\ ~Older(p, p)
           /\ Older(p, q) /\ Older(q, r) => Older(p, r)
           /\ Older(p, q) => ~Older(q, p)
           /\ p = q \/ Older(p, q) \/ Older(q, p)
<1>1. p \in Nat /\ q \in Nat /\ r \in Nat
  BY DirectoryAssumption
<1>2. people[p].at \in Nat /\ people[q].at \in Nat /\ people[r].at \in Nat
  BY DirectoryAssumption DEF DirectoryTypeOK
<1> QED
  BY <1>1, <1>2 DEF Older

\* Whoever is newer in a set.
Newer(p, rest) == {q \in rest : Older(p, q)}

LEMMA NewerCounts ==
    ASSUME DirectoryTypeOK, NEW rest \in SUBSET People, NEW p \in rest
    PROVE  /\ IsFiniteSet(Newer(p, rest))
           /\ Cardinality(Newer(p, rest)) \in Nat
           /\ \A q \in Newer(p, rest) :
                 /\ Newer(q, rest) \subseteq Newer(p, rest)
                 /\ Cardinality(Newer(q, rest)) < Cardinality(Newer(p, rest))
<1>1. \A q \in rest : IsFiniteSet(Newer(q, rest)) /\ Cardinality(Newer(q, rest)) \in Nat
  <2> TAKE q \in rest
  <2>1. Newer(q, rest) \in SUBSET People
    BY DEF Newer
  <2>2. IsFiniteSet(Newer(q, rest))
    BY <2>1, DirectoryAssumption, FS_Subset
  <2> QED
    BY <2>2, FS_CardinalityType
<1>2. ASSUME NEW q \in Newer(p, rest)
      PROVE  /\ Newer(q, rest) \subseteq Newer(p, rest)
             /\ Cardinality(Newer(q, rest)) < Cardinality(Newer(p, rest))
  <2>1. q \in rest /\ Older(p, q)
    BY <1>2 DEF Newer
  <2>2. Newer(q, rest) \subseteq Newer(p, rest)
    BY <2>1, OlderOrders DEF Newer
  <2>3. q \notin Newer(q, rest)
    BY <2>1, OlderOrders DEF Newer
  <2>4. Newer(q, rest) \in SUBSET (Newer(p, rest) \ {q})
    BY <2>2, <2>3
  <2>5. /\ IsFiniteSet(Newer(p, rest) \ {q})
        /\ Cardinality(Newer(p, rest) \ {q}) = Cardinality(Newer(p, rest)) - 1
    BY <1>1, <1>2, FS_RemoveElement
  <2>6. Cardinality(Newer(q, rest)) <= Cardinality(Newer(p, rest) \ {q})
    BY <2>4, <2>5, FS_Subset
  <2> QED
    BY <1>1, <2>1, <2>2, <2>5, <2>6
<1> QED
  BY <1>1, <1>2

\* A page is the newest part of what is left, and there is a last one on it.
LEMMA PageCut ==
    ASSUME DirectoryTypeOK, NEW rest \in SUBSET People
    PROVE  /\ PageOf(rest) \subseteq rest
           /\ \A p \in PageOf(rest), q \in rest : Older(p, q) => q \in PageOf(rest)
           /\ PageOf(rest) = {} => rest = {}
           /\ PageOf(rest) # {} => \E c \in PageOf(rest) :
                 \A q \in PageOf(rest) : c = q \/ Older(c, q)
<1> DEFINE page == PageOf(rest)
<1>0. \A p \in rest : p \in page <=> Cardinality(Newer(p, rest)) < PageLimit
  BY DEF PageOf, Newer
<1>1. page \subseteq rest
  BY DEF PageOf
<1>2. ASSUME NEW p \in page, NEW q \in rest, Older(p, q)
      PROVE  q \in page
  <2>1. q \in Newer(p, rest)
    BY <1>2 DEF Newer
  <2>2. Cardinality(Newer(q, rest)) < Cardinality(Newer(p, rest))
    BY <1>1, <2>1, NewerCounts
  <2>3. Cardinality(Newer(p, rest)) < PageLimit
    BY <1>0, <1>1
  <2>4. Cardinality(Newer(q, rest)) \in Nat /\ Cardinality(Newer(p, rest)) \in Nat
    BY <1>1, NewerCounts
  <2>5. Cardinality(Newer(q, rest)) < PageLimit
    BY <2>2, <2>3, <2>4, DirectoryAssumption
  <2> QED
    BY <1>0, <2>5
<1>3. ASSUME rest # {}
      PROVE  page # {}
  <2> DEFINE Counts == {Cardinality(Newer(p, rest)) : p \in rest}
  <2>1. Counts \subseteq Nat /\ Counts # {}
    BY <1>3, NewerCounts
  <2>2. PICK n \in Counts : \A m \in Counts : n <= m
    <3> HIDE DEF Counts
    <3> QED
      BY <2>1, LeastOfNumbers
  <2>3. PICK p \in rest : n = Cardinality(Newer(p, rest))
    OBVIOUS
  <2>4. Newer(p, rest) = {}
    <3> SUFFICES ASSUME NEW q \in Newer(p, rest)
                 PROVE  FALSE
      OBVIOUS
    <3>1. q \in rest
      BY DEF Newer
    <3>2. Cardinality(Newer(q, rest)) < n /\ n \in Nat /\ Cardinality(Newer(q, rest)) \in Nat
      BY <2>3, <3>1, NewerCounts
    <3>3. n <= Cardinality(Newer(q, rest))
      BY <2>2, <3>1
    <3> QED
      BY <3>2, <3>3
  <2>5. Cardinality(Newer(p, rest)) < PageLimit
    BY <2>4, FS_EmptySet, DirectoryAssumption
  <2> QED
    BY <1>0, <2>5
<1>4. ASSUME page # {}
      PROVE  \E c \in page : \A q \in page : c = q \/ Older(c, q)
  <2> DEFINE Times == {people[p].at : p \in page}
  <2>1. \A p \in page : p \in People /\ p \in Nat /\ people[p].at \in Nat
    BY <1>1, DirectoryAssumption DEF DirectoryTypeOK
  <2>2. Times \subseteq Nat /\ Times # {}
    BY <1>4, <2>1
  <2>3. PICK at \in Times : \A t \in Times : at <= t
    <3> HIDE DEF Times
    <3> QED
      BY <2>2, LeastOfNumbers
  <2> DEFINE Last == {p \in page : people[p].at = at}
  <2>4. Last \subseteq Nat /\ Last # {}
    BY <2>1
  <2>5. PICK c \in Last : \A q \in Last : c <= q
    <3> HIDE DEF Last
    <3> QED
      BY <2>4, LeastOfNumbers
  <2>6. ASSUME NEW q \in page
        PROVE  c = q \/ Older(c, q)
    <3>1. c \in page /\ people[c].at = at
      OBVIOUS
    <3>2. at <= people[q].at
      BY <2>3
    <3>3. people[q].at = at => c <= q
      BY <2>5
    <3> QED
      BY <2>1, <3>1, <3>2, <3>3 DEF Older
  <2>7. c \in page
    OBVIOUS
  <2> QED
    BY <2>6, <2>7
<1> QED
  BY <1>1, <1>2, <1>3, <1>4

\* Who was there when the walk began has been shown or is still to come, and
\* who has been shown does not come again.
WalkHolds ==
    /\ walk.after \subseteq Known
    /\ walk.before \subseteq Known
    /\ walk.pc = "start" => walk = NoWalk
    /\ walk.pc = "more" =>
          /\ \A p \in People : walk.seen[p] = 1 => p \notin Behind(walk.after)
          /\ \A p \in walk.before : walk.seen[p] = 1 \/ p \in Behind(walk.after)
    /\ \A p \in People : walk.seen[p] \in {0, 1} /\ (walk.seen[p] = 1 => p \in Known)

DirectoryInv == DirectoryTypeOK /\ WalkHolds /\ PagesAreExact

LEMMA FreshWalk ==
    ASSUME walk = NoWalk
    PROVE  WalkHolds /\ PagesAreExact
<1>1. /\ walk.pc = "start" /\ walk.after = {} /\ walk.before = {}
      /\ \A p \in People : walk.seen[p] = 0
  BY DEF NoWalk
<1> QED
  BY <1>1 DEF WalkHolds, PagesAreExact

LEMMA FreshWalkNext ==
    ASSUME walk' = NoWalk
    PROVE  WalkHolds' /\ PagesAreExact'
<1>1. /\ walk'.pc = "start" /\ walk'.after = {} /\ walk'.before = {}
      /\ \A p \in People : walk'.seen[p] = 0
  BY DEF NoWalk
<1> QED
  BY <1>1 DEF WalkHolds, PagesAreExact

LEMMA DirectoryStarts == DirectoryInit => DirectoryInv
<1> SUFFICES ASSUME DirectoryInit
             PROVE  DirectoryInv
  OBVIOUS
<1>1. DirectoryTypeOK
  BY DEF DirectoryInit, DirectoryTypeOK, Nowhere, NoWalk
<1>2. walk = NoWalk
  BY DEF DirectoryInit
<1>3. WalkHolds /\ PagesAreExact
  BY <1>2, FreshWalk
<1> QED
  BY <1>1, <1>3 DEF DirectoryInv

\* Nobody leaves or moves in the listing: rows come, and their times stay.
LEMMA PeopleStay ==
    ASSUME DirectoryInv, walk' = walk, DirectoryTypeOK',
           \A p \in Known : people'[p].there /\ people'[p].at = people[p].at
    PROVE  DirectoryInv'
<1>1. Known \subseteq Known'
  BY DEF Known
<1>2. \A p, q \in Known : Older(p, q) <=> Older(p, q)'
  BY DEF Older
<1>3. walk.after \subseteq Known /\ walk.before \subseteq Known
  BY DEF DirectoryInv, WalkHolds
<1>4. \A p \in Known : p \in Behind(walk.after) <=> p \in Behind(walk.after)'
  BY <1>1, <1>2, <1>3 DEF Behind
<1>5. \A p \in People : walk.seen[p] = 1 => p \in Known
  BY DEF DirectoryInv, WalkHolds
<1>6. walk.pc = "more" =>
         /\ \A p \in People : walk.seen[p] = 1 => p \notin Behind(walk.after)'
         /\ \A p \in walk.before : walk.seen[p] = 1 \/ p \in Behind(walk.after)'
  BY <1>3, <1>4, <1>5 DEF DirectoryInv, WalkHolds
<1>7. WalkHolds'
  BY <1>1, <1>3, <1>6 DEF DirectoryInv, WalkHolds, NoWalk
<1>8. PagesAreExact'
  BY DEF DirectoryInv, PagesAreExact
<1> QED
  BY <1>7, <1>8 DEF DirectoryInv

LEMMA CreateKeepsPages ==
    ASSUME DirectoryInv, NEW p \in People, NEW a \in Addresses, NEW at \in Moments,
           CreateCustomer(p, a, at)
    PROVE  DirectoryInv'
<1>1. DirectoryTypeOK'
  BY DEF DirectoryInv, DirectoryTypeOK, CreateCustomer
<1>2. \A q \in Known : people'[q].there /\ people'[q].at = people[q].at
  BY DEF DirectoryInv, DirectoryTypeOK, CreateCustomer, Known
<1>3. walk' = walk
  BY DEF CreateCustomer
<1> QED
  BY <1>1, <1>2, <1>3, PeopleStay

LEMMA UpdateKeepsPages ==
    ASSUME DirectoryInv, NEW p \in People, NEW a \in Addresses, UpdateCustomer(p, a)
    PROVE  DirectoryInv'
<1>1. DirectoryTypeOK'
  BY DEF DirectoryInv, DirectoryTypeOK, UpdateCustomer
<1>2. \A q \in Known : people'[q].there /\ people'[q].at = people[q].at
  BY DEF DirectoryInv, DirectoryTypeOK, UpdateCustomer, Known
<1>3. walk' = walk
  BY DEF UpdateCustomer
<1> QED
  BY <1>1, <1>2, <1>3, PeopleStay

LEMMA PageKeepsPages ==
    ASSUME DirectoryInv, WalkPage
    PROVE  DirectoryInv'
<1> DEFINE rest == Behind(walk.after)
           page == PageOf(rest)
<1>1. /\ DirectoryTypeOK
      /\ WalkHolds
      /\ PagesAreExact
  BY DEF DirectoryInv
<1>2. rest \in SUBSET People /\ rest \subseteq Known
  BY DEF Behind, Known
<1>3. /\ page \subseteq rest
      /\ \A p \in page, q \in rest : Older(p, q) => q \in page
      /\ page = {} => rest = {}
      /\ page # {} => \E c \in page : \A q \in page : c = q \/ Older(c, q)
  BY <1>1, <1>2, PageCut
<1>4. /\ walk.pc \in {"start", "more"}
      /\ walk'.pc = (IF rest = page THEN "end" ELSE "more")
      /\ walk'.after = {p \in page : \A q \in page : p = q \/ Older(p, q)}
      /\ walk'.seen = [p \in People |-> walk.seen[p] + IF p \in page THEN 1 ELSE 0]
      /\ walk'.before = IF walk.pc = "start" THEN Known ELSE walk.before
      /\ people' = people /\ related' = related
  BY DEF WalkPage
<1>5. DirectoryTypeOK'
  <2>1. walk' = [pc |-> walk'.pc, after |-> walk'.after, seen |-> walk'.seen,
                 before |-> walk'.before]
    BY DEF WalkPage
  <2>2. walk.seen \in [People -> Nat]
    BY <1>1 DEF DirectoryTypeOK
  <2>3. walk'.seen \in [People -> Nat]
    BY <1>4, <2>2
  <2>4. walk'.after \in SUBSET People
    BY <1>2, <1>3, <1>4
  <2>5. walk'.before \in SUBSET People
    BY <1>1, <1>4 DEF DirectoryTypeOK, Known
  <2>6. walk'.pc \in {"start", "more", "end"}
    BY <1>4
  <2> HIDE DEF rest, page
  <2> QED
    BY <1>1, <1>4, <2>1, <2>3, <2>4, <2>5, <2>6 DEF DirectoryTypeOK
<1>6. walk.pc = "start" =>
         /\ \A p \in People : walk.seen[p] = 0
         /\ walk.after = {}
         /\ walk.before = {}
  BY <1>1 DEF WalkHolds, NoWalk
<1>7. \A p \in People : walk.seen[p] = 1 => p \in Known \ rest
  BY <1>1, <1>4, <1>6 DEF WalkHolds
<1>8. \A p \in walk'.before : p \in Known /\ (walk.seen[p] = 1 \/ p \in rest)
  <2>1. CASE walk.pc = "start"
    BY <1>4, <1>6, <2>1 DEF Behind
  <2>2. CASE walk.pc = "more"
    BY <1>1, <1>4, <2>2 DEF WalkHolds
  <2> QED
    BY <1>4, <2>1, <2>2
<1>9. ASSUME NEW p \in People
      PROVE  /\ p \in page => walk.seen[p] = 0 /\ walk'.seen[p] = 1
             /\ p \notin page => walk'.seen[p] = walk.seen[p]
             /\ walk.seen[p] \in {0, 1}
  <2>1. walk.seen[p] \in {0, 1}
    BY <1>1 DEF WalkHolds
  <2>2. p \in page => walk.seen[p] = 0
    BY <1>3, <1>7, <2>1
  <2>3. walk'.seen[p] = walk.seen[p] + IF p \in page THEN 1 ELSE 0
    BY <1>4
  <2> HIDE DEF page
  <2> QED
    BY <2>1, <2>2, <2>3
<1>10. \A p \in People : walk'.seen[p] \in {0, 1} /\ (walk'.seen[p] = 1 => p \in Known')
  BY <1>2, <1>3, <1>4, <1>7, <1>9 DEF Known
<1>11. walk'.after \subseteq Known' /\ walk'.before \subseteq Known'
  BY <1>2, <1>3, <1>4, <1>8 DEF Known
<1>12. ASSUME rest # page
       PROVE  /\ \A p \in People : walk'.seen[p] = 1 => p \notin Behind(walk.after)'
              /\ \A p \in walk'.before : walk'.seen[p] = 1 \/ p \in Behind(walk.after)'
  <2>1. PICK c \in page : \A q \in page : c = q \/ Older(c, q)
    BY <1>3, <1>12
  <2>2. c \in People /\ c \in rest
    BY <1>2, <1>3
  <2>3. walk'.after = {c}
    BY <1>1, <1>2, <1>3, <1>4, <2>1, <2>2, OlderOrders
  <2>4. \A p : p \in Behind(walk.after)' <=> p \in Known /\ Older(p, c)
    BY <1>4, <2>3 DEF Behind, Known, Older
  <2>5. ASSUME NEW p \in People, walk'.seen[p] = 1
        PROVE  ~(p \in Known /\ Older(p, c))
    <3>1. CASE p \in page
      BY <1>1, <2>1, <2>2, <3>1, OlderOrders
    <3>2. CASE p \notin page
      <4>1. p \in Known \ rest
        BY <1>7, <1>9, <2>5, <3>2
      <4>2. PICK q \in walk.after : ~Older(p, q)
        BY <4>1 DEF Behind
      <4>3. q \in People /\ Older(c, q)
        BY <1>1, <2>2 DEF Behind, DirectoryTypeOK
      <4> QED
        BY <1>1, <2>2, <4>2, <4>3, OlderOrders
    <3> QED
      BY <3>1, <3>2
  <2>6. ASSUME NEW p \in walk'.before, walk'.seen[p] # 1
        PROVE  p \in Known /\ Older(p, c)
    <3>1. p \in Known /\ p \in People
      BY <1>8 DEF Known
    <3>2. p \notin page
      BY <1>9, <2>6, <3>1
    <3>3. p \in rest
      BY <1>8, <1>9, <2>6, <3>1, <3>2
    <3>4. ~Older(c, p) /\ p # c
      BY <1>3, <2>1, <3>2, <3>3
    <3> QED
      BY <1>1, <2>2, <3>1, <3>4, OlderOrders
  <2> QED
    BY <2>4, <2>5, <2>6
<1>13. ASSUME rest = page
       PROVE  \A p \in walk'.before : walk'.seen[p] = 1
  BY <1>8, <1>9, <1>13 DEF Known
<1>14. WalkHolds'
  <2> HIDE DEF rest, page
  <2>1. walk'.pc = "more" => rest # page
    BY <1>4
  <2>2. walk'.pc # "start"
    BY <1>4
  <2> QED
    BY <1>10, <1>11, <1>12, <2>1, <2>2 DEF WalkHolds, Behind
<1>15. PagesAreExact'
  <2> HIDE DEF rest, page
  <2>1. walk'.pc = "end" => rest = page
    BY <1>4
  <2>2. \A p \in People : walk'.seen[p] <= 1
    BY <1>10
  <2> QED
    BY <1>13, <2>1, <2>2 DEF PagesAreExact
<1> QED
  BY <1>5, <1>14, <1>15 DEF DirectoryInv

LEMMA DirectoryStep == DirectoryInv /\ [DirectoryNext]_directoryVars => DirectoryInv'
<1> SUFFICES ASSUME DirectoryInv, [DirectoryNext]_directoryVars
             PROVE  DirectoryInv'
  OBVIOUS
<1>1. CASE \E p \in People, a \in Addresses, at \in Moments : CreateCustomer(p, a, at)
  BY <1>1, CreateKeepsPages
<1>2. CASE \E p \in People, a \in Addresses : UpdateCustomer(p, a)
  BY <1>2, UpdateKeepsPages
<1>3. CASE \E r \in Relatable : Relate(r[1], r[2]) \/ Unrelate(r[1], r[2])
  <2>1. PICK r \in Relatable : Relate(r[1], r[2]) \/ Unrelate(r[1], r[2])
    BY <1>3
  <2>2. r = <<r[1], r[2]>>
    BY DirectoryAssumption
  <2>3. people' = people /\ walk' = walk /\ related' \subseteq Relatable
    BY <2>1, <2>2 DEF Relate, Unrelate, DirectoryInv, DirectoryTypeOK
  <2>4. DirectoryTypeOK'
    BY <2>3 DEF DirectoryInv, DirectoryTypeOK
  <2> QED
    BY <2>3, <2>4, PeopleStay DEF Known
<1>4. CASE WalkPage
  BY <1>4, PageKeepsPages
<1>5. CASE LeaveWalk
  <2>1. people' = people /\ related' = related /\ walk' = NoWalk
    BY <1>5 DEF LeaveWalk
  <2>2. DirectoryTypeOK'
    BY <2>1 DEF DirectoryInv, DirectoryTypeOK, NoWalk
  <2> QED
    BY <2>1, <2>2, FreshWalkNext DEF DirectoryInv
<1>6. CASE UNCHANGED directoryVars
  <2>1. people' = people /\ related' = related /\ walk' = walk
    BY <1>6 DEF directoryVars
  <2>2. DirectoryTypeOK'
    BY <2>1 DEF DirectoryInv, DirectoryTypeOK
  <2> QED
    BY <2>1, <2>2, PeopleStay DEF Known
<1> QED
  BY <1>1, <1>2, <1>3, <1>4, <1>5, <1>6 DEF DirectoryNext

LEMMA DirectoryHolds == DirectorySpec => []DirectoryInv
<1> QED
  BY DirectoryStarts, DirectoryStep, PTL DEF DirectorySpec

\* The customers, their relations and the listing of customers.ts keep their
\* types.
THEOREM DirectoryTypeCorrect == DirectorySpec => []DirectoryTypeOK
<1>1. DirectoryInv => DirectoryTypeOK
  BY DEF DirectoryInv
<1> QED
  BY <1>1, DirectoryHolds, PTL

\* Whoever follows the cursor of list in customers.ts to its end has seen
\* everybody who was there at the start exactly once, whatever the number of
\* customers and the size of a page, and whoever is added on the way.
THEOREM PagesExact == DirectorySpec => []PagesAreExact
<1>1. DirectoryInv => PagesAreExact
  BY DEF DirectoryInv
<1> QED
  BY <1>1, DirectoryHolds, PTL

-----------------------------------------------------------------------------
(* The import.                                                             *)
(*                                                                         *)
(* What a run of a file reports is a count of its lines by what they find: *)
(* no address, one that somebody holds, or a new one.  A dry run counts    *)
(* against the addresses held, and so does the commit, which fills them up *)
(* as it goes: that leaves the lines still to come alone, as long as no    *)
(* two lines share an address.                                             *)

Recipients == {Normalized[a] : a \in Addresses} \cup {NoAddress}
HeldAddresses == {people[p].address : p \in Known}

\* What line i finds when A are the addresses held, and the count of the first
\* n lines.
Finds(f, A, i) ==
    IF Normalized[f[i]] = NoAddress THEN "invalid"
    ELSE IF Normalized[f[i]] \in A THEN "updated" ELSE "created"

LinesThat(what, f, A, n) == {i \in 1 .. n : Finds(f, A, i) = what}

Tally(f, A, n) == [created |-> Cardinality(LinesThat("created", f, A, n)),
                   updated |-> Cardinality(LinesThat("updated", f, A, n)),
                   invalid |-> Cardinality(LinesThat("invalid", f, A, n))]

Reports == [created : Nat, updated : Nat, invalid : Nat]

Customers == [there : BOOLEAN, address : Recipients, at : Moments \cup {0, SomeMoment}]

ImportState == [pc : {"idle", "line", "write", "done"}, file : Seq(Addresses),
                commit : BOOLEAN, line : Nat \ {0}, found : BOOLEAN,
                report : Reports, promise : Reports, calm : BOOLEAN]

ImportTyped ==
    /\ people \in [People -> Customers]
    /\ import \in ImportState
    /\ forecast \in [ImportFiles -> Reports]

\* The import is at a line of its file, and writes only what it may write.
AtLine ==
    /\ import.pc # "idle" => import.file \in ImportFiles
    /\ import.pc = "line" => import.line <= Len(import.file) + 1
    /\ import.pc = "write" => /\ import.line <= Len(import.file)
                              /\ import.commit
                              /\ Address # NoAddress
    /\ import.pc = "done" => import.line = Len(import.file) + 1

\* A forecast that stands is what a dry run would count now.
ForecastStands ==
    \A f \in ImportFiles :
        forecast[f] # Unforeseen => forecast[f] = Tally(f, HeldAddresses, Len(f))

\* A dry run left alone has counted its lines against what is held now.
DryRunCounts ==
    import.pc # "idle" /\ ~import.commit /\ import.calm
        => import.report = Tally(import.file, HeldAddresses, import.line - 1)

\* The commit counts against the addresses A held when it began: a line still
\* to come finds the same among those held now.
CountsAgainst(A) ==
    LET m == import
    IN /\ m.promise = Tally(m.file, A, Len(m.file))
       /\ m.report = Tally(m.file, A, m.line - 1)
       /\ \A i \in m.line .. Len(m.file) :
             (m.pc = "write" => i > m.line) /\ Normalized[m.file[i]] # NoAddress
             => (Normalized[m.file[i]] \in HeldAddresses <=> Normalized[m.file[i]] \in A)
       /\ m.pc = "write" => (m.found <=> Address \in A)

CommitCounts ==
    /\ import.pc # "idle"
    /\ import.commit
    /\ import.calm
    /\ import.promise # Unforeseen
    /\ DistinctLines(import.file)
    => \E A \in SUBSET Recipients : CountsAgainst(A)

ImportInv == ImportTyped /\ AtLine /\ ForecastStands /\ DryRunCounts /\ CommitCounts

\* Nothing is counted before the first line.
LEMMA TallyOfNone == ASSUME NEW f, NEW A PROVE Tally(f, A, 0) = NoReport
<1>1. ASSUME NEW what PROVE LinesThat(what, f, A, 0) = {}
  BY DEF LinesThat
<1>2. Cardinality({}) = 0
  BY FS_EmptySet
<1> QED
  BY <1>1, <1>2 DEF Tally, NoReport

LEMMA LinesCounted ==
    ASSUME NEW what, NEW f, NEW A, NEW n \in Nat
    PROVE  /\ IsFiniteSet(LinesThat(what, f, A, n))
           /\ Cardinality(LinesThat(what, f, A, n)) \in Nat
<1>1. IsFiniteSet(1 .. n) /\ LinesThat(what, f, A, n) \subseteq 1 .. n
  BY FS_Interval DEF LinesThat
<1> QED
  BY <1>1, FS_Subset, FS_CardinalityType

LEMMA TallyTyped == ASSUME NEW f, NEW A, NEW n \in Nat PROVE Tally(f, A, n) \in Reports
BY LinesCounted DEF Tally, Reports

\* One more line adds one to the count of what it finds.
LEMMA TallyOfNext ==
    ASSUME NEW f, NEW A, NEW n \in Nat
    PROVE  Tally(f, A, n + 1) = [Tally(f, A, n) EXCEPT ![Finds(f, A, n + 1)] = @ + 1]
<1>1. ASSUME NEW what
      PROVE  Cardinality(LinesThat(what, f, A, n + 1))
               = Cardinality(LinesThat(what, f, A, n))
                   + (IF Finds(f, A, n + 1) = what THEN 1 ELSE 0)
  <2> DEFINE lines == LinesThat(what, f, A, n)
  <2>1. IsFiniteSet(lines) /\ Cardinality(lines) \in Nat
    BY LinesCounted
  <2>2. n + 1 \notin lines
    BY DEF LinesThat
  <2>3. CASE Finds(f, A, n + 1) = what
    <3>1. LinesThat(what, f, A, n + 1) = lines \cup {n + 1}
      BY <2>3 DEF LinesThat
    <3> QED
      BY <2>1, <2>2, <2>3, <3>1, FS_AddElement
  <2>4. CASE Finds(f, A, n + 1) # what
    <3>1. LinesThat(what, f, A, n + 1) = lines
      BY <2>4 DEF LinesThat
    <3> QED
      BY <2>1, <2>4, <3>1
  <2> QED
    BY <2>3, <2>4
<1>2. \A what : Cardinality(LinesThat(what, f, A, n)) \in Nat
  BY LinesCounted
<1>3. Finds(f, A, n + 1) \in {"created", "updated", "invalid"}
  BY DEF Finds
<1> QED
  BY <1>1, <1>2, <1>3 DEF Tally

\* A report grows by one line.
LEMMA ReportGrows ==
    ASSUME NEW report \in Reports, NEW what \in {"created", "updated", "invalid"}
    PROVE  [report EXCEPT ![what] = @ + 1] \in Reports
BY DEF Reports

LEMMA HeldAreRecipients ==
    ASSUME people \in [People -> Customers]
    PROVE  HeldAddresses \subseteq Recipients
BY DEF HeldAddresses, Known, Customers

LEMMA NoReportTyped == NoReport \in Reports /\ Unforeseen \in Reports
BY DEF NoReport, Unforeseen, Reports

LEMMA ImportStarts == ImportInit => ImportInv
<1> SUFFICES ASSUME ImportInit
             PROVE  ImportInv
  OBVIOUS
<1>1. people \in [People -> Customers]
  BY DEF ImportInit, DirectoryInit, Nowhere, Customers, Recipients
<1>2. import = NoImport /\ forecast \in [ImportFiles -> Reports]
  BY NoReportTyped DEF ImportInit
<1>3. ImportTyped
  BY <1>1, <1>2, NoReportTyped DEF ImportTyped, ImportState, NoImport
<1> QED
  BY <1>2, <1>3 DEF ImportInv, AtLine, ForecastStands, DryRunCounts, CommitCounts, NoImport,
     ImportInit

\* While nobody holds another address, the forecasts stand.
LEMMA ForecastsStay ==
    ASSUME ImportInv, forecast' = forecast, HeldAddresses' = HeldAddresses
    PROVE  ForecastStands'
BY DEF ImportInv, ForecastStands

LEMMA HoldersStay == people' = people => HeldAddresses' = HeldAddresses
BY DEF HeldAddresses, Known

\* An import at rest claims nothing.
LEMMA RestingKeeps ==
    ASSUME ImportInv, import' = NoImport, forecast' = forecast, people' = people
    PROVE  ImportInv'
<1>1. ImportTyped'
  BY NoReportTyped DEF ImportInv, ImportTyped, ImportState, NoImport
<1>2. AtLine' /\ DryRunCounts' /\ CommitCounts'
  BY DEF AtLine, DryRunCounts, CommitCounts, NoImport
<1>3. ForecastStands'
  BY ForecastsStay, HoldersStay
<1> QED
  BY <1>1, <1>2, <1>3 DEF ImportInv

\* Somebody else's write takes every forecast back.
LEMMA OthersKeepForecasts == ASSUME ImportInv, OthersWrite PROVE ImportInv'
<1>1. PICK p \in People, a \in Addresses :
        CreateCustomer(p, a, SomeMoment) \/ UpdateCustomer(p, a)
  BY DEF OthersWrite
<1>2. ImportTyped
  BY DEF ImportInv
<1>3. Normalized[a] \in Recipients
  BY DEF Recipients
<1>4. people' \in [People -> Customers]
  <2>1. CASE CreateCustomer(p, a, SomeMoment)
    <3>1. [there |-> TRUE, address |-> Normalized[a], at |-> SomeMoment] \in Customers
      BY <1>3 DEF Customers
    <3> QED
      BY <1>2, <2>1, <3>1 DEF CreateCustomer, ImportTyped
  <2>2. CASE UpdateCustomer(p, a)
    <3>1. [people[p] EXCEPT !.address = Normalized[a]] \in Customers
      BY <1>2, <1>3 DEF ImportTyped, Customers
    <3> QED
      BY <1>2, <2>2, <3>1 DEF UpdateCustomer, ImportTyped
  <2> QED
    BY <1>1, <2>1, <2>2
<1>5. forecast' = AllOutdated /\ import' = [import EXCEPT !.calm = FALSE]
  BY DEF OthersWrite
<1>6. ImportTyped'
  BY <1>2, <1>4, <1>5, NoReportTyped DEF ImportTyped, ImportState, AllOutdated
<1>7. /\ import'.pc = import.pc
      /\ import'.file = import.file
      /\ import'.line = import.line
      /\ import'.commit = import.commit
      /\ ~import'.calm
  BY <1>2, <1>5 DEF ImportTyped, ImportState
<1>8. AtLine'
  BY <1>7 DEF ImportInv, AtLine, Address
<1>9. ForecastStands'
  BY <1>5 DEF ForecastStands, AllOutdated
<1> QED
  BY <1>6, <1>7, <1>8, <1>9 DEF ImportInv, DryRunCounts, CommitCounts

LEMMA StartKeepsForecasts ==
    ASSUME ImportInv, NEW f \in ImportFiles, NEW commit \in BOOLEAN, ImportStart(f, commit)
    PROVE  ImportInv'
<1>1. ImportTyped /\ ForecastStands
  BY DEF ImportInv
<1>2. /\ import' = [NoImport EXCEPT !.pc = "line", !.file = f, !.commit = commit,
                                    !.promise = forecast[f]]
      /\ people' = people
      /\ forecast' = forecast
  BY DEF ImportStart
<1>3. /\ import'.pc = "line"
      /\ import'.file = f
      /\ import'.commit = commit
      /\ import'.line = 1
      /\ import'.report = NoReport
      /\ import'.promise = forecast[f]
  BY <1>2 DEF NoImport
<1>4. f \in Seq(Addresses) /\ Len(f) \in Nat /\ forecast[f] \in Reports
  BY <1>1, ImportAssumption DEF ImportTyped
<1>5. HeldAddresses' = HeldAddresses
  BY <1>2, HoldersStay
<1>6. ImportTyped'
  <2>1. import' \in ImportState
    <3>1. import' = [pc |-> "line", file |-> f, commit |-> commit, line |-> 1,
                     found |-> FALSE, report |-> NoReport, promise |-> forecast[f],
                     calm |-> TRUE]
      BY <1>2 DEF NoImport
    <3> QED
      BY <1>4, <3>1, NoReportTyped DEF ImportState
  <2> QED
    BY <1>1, <1>2, <2>1 DEF ImportTyped
<1>7. AtLine'
  BY <1>3, <1>4 DEF AtLine
<1>8. ForecastStands'
  BY <1>2, <1>5, ForecastsStay
<1>9. DryRunCounts'
  BY <1>3, TallyOfNone DEF DryRunCounts
<1>10. CommitCounts'
  <2> SUFFICES ASSUME forecast[f] # Unforeseen
               PROVE  \E A \in SUBSET Recipients : CountsAgainst(A)'
    BY <1>3 DEF CommitCounts
  <2>1. forecast[f] = Tally(f, HeldAddresses, Len(f))
    BY <1>1 DEF ForecastStands
  <2>2. ASSUME NEW A, A = HeldAddresses
        PROVE  CountsAgainst(A)'
    BY <1>3, <1>5, <2>1, <2>2, TallyOfNone DEF CountsAgainst
  <2>3. HeldAddresses \in SUBSET Recipients
    BY <1>1, HeldAreRecipients DEF ImportTyped
  <2> QED
    BY <2>2, <2>3
<1> QED
  BY <1>6, <1>7, <1>8, <1>9, <1>10 DEF ImportInv

Classes == {"created", "updated", "invalid"}

\* What counting a line does to the import.
LEMMA CountedFields ==
    ASSUME ImportInv, NEW what \in Classes, import' = Counted(what)
    PROVE  /\ import'.pc = "line"
           /\ import'.file = import.file
           /\ import'.commit = import.commit
           /\ import'.line = import.line + 1
           /\ import'.report = [import.report EXCEPT ![what] = @ + 1]
           /\ import'.promise = import.promise
           /\ import'.calm = import.calm
           /\ import' \in ImportState
<1> DEFINE report == [import.report EXCEPT ![what] = @ + 1]
<1>1. import \in ImportState /\ import.line \in Nat \ {0}
  BY DEF ImportInv, ImportTyped, ImportState
<1>2. import.report \in Reports
  BY <1>1 DEF ImportState
<1>3. report \in Reports
  BY <1>2, ReportGrows DEF Classes
<1>4. import' = [import EXCEPT !.line = @ + 1, !.report = report, !.pc = "line"]
  BY DEF Counted
<1>5. import.line + 1 \in Nat \ {0}
  BY <1>1
<1> HIDE DEF report
<1>6. /\ import'.pc = "line"
      /\ import'.file = import.file
      /\ import'.commit = import.commit
      /\ import'.line = import.line + 1
      /\ import'.report = report
      /\ import'.promise = import.promise
      /\ import'.calm = import.calm
  BY <1>1, <1>4 DEF ImportState
<1>7. import' \in ImportState
  BY <1>1, <1>3, <1>4, <1>5 DEF ImportState
<1> QED
  BY <1>6, <1>7 DEF report

\* A count of all lines before this one becomes a count of this one too.
LEMMA CountGoesOn ==
    ASSUME ImportInv, NEW A, NEW what \in Classes, import' = Counted(what),
           what = Finds(import.file, A, import.line),
           import.report = Tally(import.file, A, import.line - 1)
    PROVE  import'.report = Tally(import'.file, A, import'.line - 1)
<1>1. import.line \in Nat /\ import.line - 1 \in Nat /\ (import.line - 1) + 1 = import.line
  BY DEF ImportInv, ImportTyped, ImportState
<1>2. Tally(import.file, A, import.line)
        = [Tally(import.file, A, import.line - 1) EXCEPT ![what] = @ + 1]
  <2>1. \A n \in Nat : Tally(import.file, A, n + 1)
          = [Tally(import.file, A, n) EXCEPT ![Finds(import.file, A, n + 1)] = @ + 1]
    BY TallyOfNext
  <2> QED
    BY <1>1, <2>1
<1>3. import'.line = import.line + 1
  BY CountedFields
<1>4. import'.line - 1 = import.line
  BY <1>1, <1>3
<1> QED
  BY <1>2, <1>4, CountedFields

\* The lines that are still to come find what they would have found.
LEMMA CommitGoesOn ==
    ASSUME ImportInv, NEW A, CountsAgainst(A), NEW what \in Classes,
           import' = Counted(what), what = Finds(import.file, A, import.line),
           \A i \in import.line + 1 .. Len(import.file) :
               Normalized[import.file[i]] # NoAddress
               => (Normalized[import.file[i]] \in HeldAddresses'
                     <=> Normalized[import.file[i]] \in HeldAddresses)
    PROVE  CountsAgainst(A)'
<1>1. import.line \in Nat /\ Len(import.file) \in Nat
  BY DEF ImportInv, ImportTyped, ImportState
<1>2. import'.report = Tally(import'.file, A, import'.line - 1)
  BY CountGoesOn DEF CountsAgainst
<1>3. import'.promise = Tally(import'.file, A, Len(import'.file))
  BY CountedFields DEF CountsAgainst
<1>4. ASSUME NEW i \in import'.line .. Len(import'.file),
             Normalized[import'.file[i]] # NoAddress
      PROVE  Normalized[import'.file[i]] \in HeldAddresses'
               <=> Normalized[import'.file[i]] \in A
  <2>1. import'.file = import.file /\ import'.line = import.line + 1
    BY CountedFields
  <2>2. i \in import.line + 1 .. Len(import.file)
    BY <2>1
  <2>3. i \in import.line .. Len(import.file) /\ i > import.line
    BY <1>1, <2>2
  <2>4. Normalized[import.file[i]] \in HeldAddresses <=> Normalized[import.file[i]] \in A
    BY <1>4, <2>1, <2>3 DEF CountsAgainst
  <2> QED
    BY <1>4, <2>1, <2>2, <2>4
<1>5. import'.pc = "line"
  BY CountedFields
<1> QED
  BY <1>2, <1>3, <1>4, <1>5 DEF CountsAgainst

\* What a line finds, told by the address it holds.
LEMMA FindsAddress ==
    /\ Address = NoAddress => \A A : Finds(import.file, A, import.line) = "invalid"
    /\ Address # NoAddress =>
          \A A : Finds(import.file, A, import.line)
                   = IF Address \in A THEN "updated" ELSE "created"
    /\ Held <=> Address \in HeldAddresses
BY DEF Address, Finds, Held, HeldAddresses

LEMMA LineKeeps == ASSUME ImportInv, ImportLine PROVE ImportInv'
<1>1. /\ import.pc = "line"
      /\ import.line <= Len(import.file)
      /\ import' = AfterLine(Held)
      /\ people' = people
      /\ forecast' = forecast
  BY DEF ImportLine
<1>2. /\ people \in [People -> Customers]
      /\ import \in ImportState
      /\ forecast \in [ImportFiles -> Reports]
      /\ import.line \in Nat
      /\ Len(import.file) \in Nat
      /\ import.file \in ImportFiles
  BY <1>1 DEF ImportInv, ImportTyped, ImportState, AtLine
<1>3. HeldAddresses' = HeldAddresses
  BY <1>1, HoldersStay
<1>4. ForecastStands'
  BY <1>1, <1>3, ForecastsStay
<1>5. ASSUME NEW what \in Classes, import' = Counted(what),
             what = Finds(import.file, HeldAddresses, import.line),
             import.commit => Address = NoAddress
      PROVE  ImportInv'
  <2>1. ImportTyped'
    BY <1>1, <1>2, <1>5, CountedFields DEF ImportTyped
  <2>2. AtLine'
    <3>1. import'.pc = "line" /\ import'.file = import.file /\ import'.line = import.line + 1
      BY <1>5, CountedFields
    <3>2. import.line <= Len(import.file)
      BY <1>1
    <3> QED
      BY <1>2, <3>1, <3>2 DEF AtLine
  <2>3. DryRunCounts'
    <3>1. ASSUME ~import.commit, import.calm
          PROVE  import.report = Tally(import.file, HeldAddresses, import.line - 1)
      BY <1>1, <3>1 DEF ImportInv, DryRunCounts
    <3> QED
      BY <1>3, <1>5, <3>1, CountedFields, CountGoesOn DEF DryRunCounts
  <2>4. CommitCounts'
    <3> SUFFICES ASSUME import'.commit, import'.calm, import'.promise # Unforeseen,
                        DistinctLines(import'.file)
                 PROVE  \E A \in SUBSET Recipients : CountsAgainst(A)'
      BY DEF CommitCounts
    <3>0. import.commit /\ import.calm /\ import.promise # Unforeseen
            /\ import'.file = import.file
      BY <1>5, CountedFields
    <3>1. PICK A \in SUBSET Recipients : CountsAgainst(A)
      BY <1>1, <3>0 DEF ImportInv, CommitCounts
    <3>2. what = Finds(import.file, A, import.line)
      BY <1>5, <3>0, FindsAddress
    <3> QED
      BY <1>3, <1>5, <3>1, <3>2, CommitGoesOn
  <2> QED
    BY <1>4, <2>1, <2>2, <2>3, <2>4 DEF ImportInv
<1>6. CASE Address = NoAddress
  BY <1>1, <1>5, <1>6, FindsAddress DEF AfterLine, Classes
<1>7. CASE Address # NoAddress /\ ~import.commit
  <2>1. import' = Counted(IF Held THEN "updated" ELSE "created")
    BY <1>1, <1>7 DEF AfterLine
  <2> QED
    BY <1>5, <1>7, <2>1, FindsAddress DEF Classes
<1>8. CASE Address # NoAddress /\ import.commit
  <2>1. import' = [import EXCEPT !.pc = "write", !.found = Held]
    BY <1>1, <1>8 DEF AfterLine
  <2>2. Held \in BOOLEAN
    BY DEF Held
  <2>3. /\ import'.pc = "write"
        /\ import'.file = import.file
        /\ import'.commit = import.commit
        /\ import'.line = import.line
        /\ import'.report = import.report
        /\ import'.promise = import.promise
        /\ import'.calm = import.calm
        /\ import'.found = Held
    BY <1>2, <2>1 DEF ImportState
  <2>4. ImportTyped'
    BY <1>1, <1>2, <2>1, <2>2 DEF ImportTyped, ImportState
  <2>5. Address' = Address
    BY <2>3 DEF Address
  <2>6. AtLine' /\ DryRunCounts'
    BY <1>1, <1>2, <1>8, <2>3, <2>5 DEF AtLine, DryRunCounts
  <2>7. CommitCounts'
    <3> SUFFICES ASSUME import'.commit, import'.calm, import'.promise # Unforeseen,
                        DistinctLines(import'.file)
                 PROVE  \E A \in SUBSET Recipients : CountsAgainst(A)'
      BY DEF CommitCounts
    <3>1. PICK A \in SUBSET Recipients : CountsAgainst(A)
      BY <1>1, <2>3 DEF ImportInv, CommitCounts
    <3>2. import.line \in import.line .. Len(import.file)
      BY <1>1, <1>2
    <3>3. Address \in HeldAddresses <=> Address \in A
      BY <1>1, <1>8, <3>1, <3>2 DEF CountsAgainst, Address
    <3>4. import'.found <=> Address' \in A
      BY <2>3, <2>5, <3>3, FindsAddress
    <3>5. ASSUME NEW i \in import.line .. Len(import.file),
                 Normalized[import.file[i]] # NoAddress
          PROVE  Normalized[import.file[i]] \in HeldAddresses'
                   <=> Normalized[import.file[i]] \in A
      BY <1>1, <1>3, <3>1, <3>5 DEF CountsAgainst
    <3>6. /\ import'.promise = Tally(import'.file, A, Len(import'.file))
          /\ import'.report = Tally(import'.file, A, import'.line - 1)
      BY <2>3, <3>1 DEF CountsAgainst
    <3>7. CountsAgainst(A)'
      BY <2>3, <3>4, <3>5, <3>6 DEF CountsAgainst
    <3> QED
      BY <3>7
  <2> QED
    BY <1>4, <2>4, <2>6, <2>7 DEF ImportInv
<1> QED
  BY <1>6, <1>7, <1>8

LEMMA UpdateCounts == ASSUME ImportInv, ImportUpdate PROVE ImportInv'
<1>1. /\ import.pc = "write"
      /\ import.found
      /\ import' = Counted("updated")
      /\ people' = people
      /\ forecast' = forecast
  BY DEF ImportUpdate
<1>2. /\ ImportTyped
      /\ import.line \in Nat
      /\ Len(import.file) \in Nat
      /\ import.line <= Len(import.file)
      /\ import.file \in ImportFiles
      /\ import.commit
      /\ Address # NoAddress
  BY <1>1 DEF ImportInv, ImportTyped, ImportState, AtLine
<1>3. "updated" \in Classes
  BY DEF Classes
<1>4. /\ import'.pc = "line"
      /\ import'.file = import.file
      /\ import'.line = import.line + 1
      /\ import'.commit
      /\ import' \in ImportState
  BY <1>1, <1>2, <1>3, CountedFields
<1>5. ImportTyped' /\ AtLine' /\ DryRunCounts'
  BY <1>1, <1>2, <1>4 DEF ImportTyped, AtLine, DryRunCounts
<1>6. ForecastStands'
  BY <1>1, HoldersStay, ForecastsStay
<1>7. CommitCounts'
  <2> SUFFICES ASSUME import'.calm, import'.promise # Unforeseen,
                      DistinctLines(import'.file)
               PROVE  \E A \in SUBSET Recipients : CountsAgainst(A)'
    BY DEF CommitCounts
  <2>1. PICK A \in SUBSET Recipients : CountsAgainst(A)
    BY <1>1, <1>2, <1>3, CountedFields DEF ImportInv, CommitCounts
  <2>2. Finds(import.file, A, import.line) = "updated"
    BY <1>1, <1>2, <2>1, FindsAddress DEF CountsAgainst
  <2> QED
    BY <1>1, <1>3, <2>1, <2>2, HoldersStay, CommitGoesOn
<1> QED
  BY <1>5, <1>6, <1>7 DEF ImportInv

LEMMA CreateCounts ==
    ASSUME ImportInv, NEW p \in People, ImportCreate(p)
    PROVE  ImportInv'
<1> DEFINE row == [there |-> TRUE, address |-> Address, at |-> SomeMoment]
<1>1. /\ import.pc = "write"
      /\ ~import.found
      /\ p \notin Known
      /\ people' = [people EXCEPT ![p] = row]
      /\ import' = Counted("created")
      /\ forecast' = AllOutdated
  BY DEF ImportCreate
<1>2. /\ ImportTyped
      /\ people \in [People -> Customers]
      /\ import.file \in Seq(Addresses)
      /\ import.line \in Nat \ {0}
      /\ Len(import.file) \in Nat
      /\ import.line <= Len(import.file)
      /\ import.file \in ImportFiles
      /\ import.commit
      /\ Address # NoAddress
  BY <1>1 DEF ImportInv, ImportTyped, ImportState, AtLine
<1>3. "created" \in Classes
  BY DEF Classes
<1>4. /\ import'.pc = "line"
      /\ import'.file = import.file
      /\ import'.line = import.line + 1
      /\ import'.commit
      /\ import' \in ImportState
  BY <1>1, <1>2, <1>3, CountedFields
<1>5. people' \in [People -> Customers]
  <2>1. import.file[import.line] \in Addresses
    BY <1>2
  <2>2. row \in Customers
    BY <2>1 DEF Customers, Recipients, Address
  <2> HIDE DEF row
  <2> QED
    BY <1>1, <1>2, <2>2
<1>6. ImportTyped' /\ AtLine' /\ DryRunCounts' /\ ForecastStands'
  BY <1>1, <1>2, <1>4, <1>5, NoReportTyped
  DEF ImportTyped, AtLine, DryRunCounts, ForecastStands, AllOutdated
<1>7. HeldAddresses' = HeldAddresses \cup {Address}
  <2>1. /\ people'[p].there
        /\ people'[p].address = Address
        /\ \A q \in People \ {p} : people'[q] = people[q]
    BY <1>1, <1>2
  <2>2. Known' = Known \cup {p}
    BY <2>1 DEF Known
  <2> QED
    BY <1>1, <2>1, <2>2 DEF HeldAddresses, Known
<1>8. CommitCounts'
  <2> SUFFICES ASSUME import'.calm, import'.promise # Unforeseen,
                      DistinctLines(import'.file)
               PROVE  \E A \in SUBSET Recipients : CountsAgainst(A)'
    BY DEF CommitCounts
  <2>1. DistinctLines(import.file)
    BY <1>4
  <2>2. PICK A \in SUBSET Recipients : CountsAgainst(A)
    BY <1>1, <1>2, <1>3, <2>1, CountedFields DEF ImportInv, CommitCounts
  <2>3. Finds(import.file, A, import.line) = "created"
    BY <1>1, <1>2, <2>2, FindsAddress DEF CountsAgainst
  <2>4. ASSUME NEW i \in import.line + 1 .. Len(import.file),
               Normalized[import.file[i]] # NoAddress
        PROVE  Normalized[import.file[i]] \in HeldAddresses'
                 <=> Normalized[import.file[i]] \in HeldAddresses
    <3>1. i \in DOMAIN import.file /\ import.line \in DOMAIN import.file /\ i # import.line
      BY <1>2
    <3>2. Normalized[import.file[i]] # Normalized[import.file[import.line]]
      BY <2>1, <2>4, <3>1 DEF DistinctLines
    <3> QED
      BY <1>7, <3>2 DEF Address
  <2> QED
    BY <1>1, <1>3, <2>2, <2>3, <2>4, CommitGoesOn
<1> QED
  BY <1>6, <1>8 DEF ImportInv

LEMMA EndKeeps == ASSUME ImportInv, ImportEnd PROVE ImportInv'
<1>1. /\ import.pc = "line"
      /\ import.line > Len(import.file)
      /\ import' = [import EXCEPT !.pc = "done"]
      /\ forecast' = IF import.commit \/ ~import.calm THEN forecast
                     ELSE [forecast EXCEPT ![import.file] = import.report]
      /\ people' = people
  BY DEF ImportEnd
<1>2. /\ ImportTyped
      /\ import \in ImportState
      /\ import.report \in Reports
      /\ import.line \in Nat
      /\ Len(import.file) \in Nat
      /\ import.line <= Len(import.file) + 1
      /\ import.file \in ImportFiles
  BY <1>1 DEF ImportInv, ImportTyped, ImportState, AtLine
<1>3. import.line = Len(import.file) + 1 /\ import.line - 1 = Len(import.file)
  BY <1>1, <1>2
<1>4. /\ import' \in ImportState
      /\ import'.pc = "done"
      /\ import'.file = import.file
      /\ import'.line = import.line
      /\ import'.commit = import.commit
      /\ import'.report = import.report
      /\ import'.promise = import.promise
      /\ import'.calm = import.calm
  BY <1>1, <1>2 DEF ImportState
<1>5. HeldAddresses' = HeldAddresses
  BY <1>1, HoldersStay
<1>6. ImportTyped' /\ AtLine' /\ DryRunCounts'
  BY <1>1, <1>2, <1>3, <1>4, <1>5 DEF ImportInv, ImportTyped, AtLine, DryRunCounts
<1>7. ForecastStands'
  <2>1. CASE import.commit \/ ~import.calm
    BY <1>1, <1>5, <2>1, ForecastsStay
  <2>2. CASE ~import.commit /\ import.calm
    <3>1. import.report = Tally(import.file, HeldAddresses, Len(import.file))
      BY <1>1, <1>3, <2>2 DEF ImportInv, DryRunCounts
    <3>2. forecast' = [forecast EXCEPT ![import.file] = import.report]
      BY <1>1, <2>2
    <3> QED
      BY <1>2, <1>5, <3>1, <3>2 DEF ImportInv, ImportTyped, ForecastStands
  <2> QED
    BY <2>1, <2>2
<1>8. CommitCounts'
  <2> SUFFICES ASSUME import'.commit, import'.calm, import'.promise # Unforeseen,
                      DistinctLines(import'.file)
               PROVE  \E A \in SUBSET Recipients : CountsAgainst(A)'
    BY DEF CommitCounts
  <2>1. PICK A \in SUBSET Recipients : CountsAgainst(A)
    BY <1>1, <1>4 DEF ImportInv, CommitCounts
  <2>2. CountsAgainst(A)'
    BY <1>1, <1>4, <1>5, <2>1 DEF CountsAgainst
  <2> QED
    BY <2>2
<1> QED
  BY <1>6, <1>7, <1>8 DEF ImportInv

LEMMA ImportStep == ImportInv /\ [ImportNext]_importVars => ImportInv'
<1> SUFFICES ASSUME ImportInv, [ImportNext]_importVars
             PROVE  ImportInv'
  OBVIOUS
<1>1. CASE OthersWrite
  BY <1>1, OthersKeepForecasts
<1>2. ASSUME NEW f \in ImportFiles, NEW commit \in BOOLEAN, ImportStart(f, commit)
      PROVE  ImportInv'
  BY <1>2, StartKeepsForecasts
<1>3. CASE ImportLine
  BY <1>3, LineKeeps
<1>4. CASE ImportUpdate
  BY <1>4, UpdateCounts
<1>5. ASSUME NEW p \in People, ImportCreate(p)
      PROVE  ImportInv'
  BY <1>5, CreateCounts
<1>6. CASE ImportEnd
  BY <1>6, EndKeeps
<1>7. CASE ImportLeave
  BY <1>7, RestingKeeps DEF ImportLeave
<1>8. CASE UNCHANGED importVars
  <2>1. people' = people /\ import' = import /\ forecast' = forecast
    BY <1>8 DEF importVars
  <2>2. HeldAddresses' = HeldAddresses
    BY <2>1, HoldersStay
  <2>3. ASSUME NEW A
        PROVE  CountsAgainst(A) => CountsAgainst(A)'
    BY <2>1, <2>2 DEF CountsAgainst, Address
  <2> QED
    BY <2>1, <2>2, <2>3 DEF ImportInv, ImportTyped, AtLine, Address, ForecastStands,
       DryRunCounts, CommitCounts
<1> QED
  BY <1>1, <1>2, <1>3, <1>4, <1>5, <1>6, <1>7, <1>8 DEF ImportNext

LEMMA ForecastFollows == ImportInv => ForecastIsExact
<1> SUFFICES ASSUME ImportInv, import.pc = "done", import.commit, import.calm,
                    import.promise # Unforeseen, DistinctLines(import.file)
             PROVE  import.report = import.promise
  BY DEF ForecastIsExact
<1>1. PICK A \in SUBSET Recipients : CountsAgainst(A)
  BY DEF ImportInv, CommitCounts
<1>2. import.line - 1 = Len(import.file)
  BY DEF ImportInv, ImportTyped, ImportState, AtLine
<1> QED
  BY <1>1, <1>2 DEF CountsAgainst

\* What a dry run foretells of a file whose addresses differ is what its
\* commit reports, for every file and directory, unless somebody else created
\* a customer or changed an address in between.
THEOREM ForecastsExact == ImportSpec => []ForecastIsExact
BY ImportStarts, ImportStep, ForecastFollows, PTL DEF ImportSpec

-----------------------------------------------------------------------------
(* The status card.                                                        *)

\* What a card in the making knows is still so.
CardHolds ==
    /\ \A i \in DOMAIN waivers : waivers[i].version \in DOMAIN editions
    /\ card.pc # "none" =>
          /\ card.now <= day
          /\ card.edition <= Current
          /\ card.filed \subseteq DOMAIN waivers
          /\ \A i \in card.voided : i \in DOMAIN waivers /\ waivers[i].void
          /\ validity \in card.terms
    /\ card.pc = "waiver" => card.status = "missing"
    /\ card.pc = "template" => card.waiver \in DOMAIN waivers
    /\ card.pc \in {"template", "card"} =>
          /\ card.waiver \in DOMAIN waivers \cup {NoWaiver}
          /\ card.waiver \notin card.voided
          /\ \A i \in card.filed \cap Completed :
                card.waiver # NoWaiver /\ waivers[i].signed <= waivers[card.waiver].signed
    /\ card.pc = "card" =>
          /\ card.waiver = NoWaiver => card.status = "missing"
          /\ card.status = "expired" =>
                \E v \in card.terms : Expired(card.waiver, card.now, v)
          /\ card.status = "reconsent_required" => \E v \in DOMAIN editions :
                v # waivers[card.waiver].version /\ editions[v]
          /\ card.status = "current" =>
                /\ \E v \in card.terms : ~Expired(card.waiver, card.now, v)
                /\ card.edition = Current /\ waivers[card.waiver].version # Current =>
                      ~editions[Current]

CardInv == CardTypeOK /\ CardHolds

LEMMA RowOf ==
    ASSUME NEW Rows, NEW rows \in Seq(Rows), NEW i \in DOMAIN rows
    PROVE  rows[i] \in Rows
<1>1. DOMAIN rows = 1 .. Len(rows)
  OBVIOUS
<1> QED
  BY <1>1

LEMMA Appended ==
    ASSUME NEW Rows, NEW rows \in Seq(Rows), NEW row
    PROVE  LET longer == Append(rows, row)
           IN /\ DOMAIN longer = DOMAIN rows \cup {Len(rows) + 1}
              /\ longer[Len(rows) + 1] = row
              /\ \A i \in DOMAIN rows : longer[i] = rows[i]
<1>1. Len(rows) \in Nat /\ DOMAIN rows = 1 .. Len(rows)
  OBVIOUS
<1> QED
  BY <1>1

LEMMA CardStarts == CardInit => CardInv
  BY CardAssumption
  DEF CardInit, CardInv, CardTypeOK, CardHolds, NoCard, NoWaiver, Unknown

\* A card that holds can be trusted.
LEMMA CardTrusted ==
    ASSUME CardInv
    PROVE  CardsCanBeTrusted
<1>1. CardIsFresh
  BY DEF CardInv, CardHolds, CardIsFresh
<1>2. ASSUME card.pc = "card", card.status = "expired"
      PROVE  \E v \in card.terms : Expired(card.waiver, day, v)
  <2>1. card.waiver \in DOMAIN waivers
    BY <1>2 DEF CardInv, CardHolds
  <2>2. PICK v \in card.terms : Expired(card.waiver, card.now, v)
    BY <1>2 DEF CardInv, CardHolds
  <2>3. v # Unlimited => v \in Int
    BY CardAssumption DEF CardInv, CardTypeOK
  <2>4. card.now \in Nat /\ day \in Nat
    BY DEF CardInv, CardTypeOK
  <2>5. card.now <= day
    BY <1>2 DEF CardInv, CardHolds
  <2>6. waivers[card.waiver].signed \in Nat
    <3>1. waivers[card.waiver] \in
             [version : Nat, signed : Nat, guardian : BOOLEAN, void : BOOLEAN]
      BY <2>1, RowOf DEF CardInv, CardTypeOK
    <3> QED
      BY <3>1
  <2>7. Expired(card.waiver, day, v)
    BY <2>2, <2>3, <2>4, <2>5, <2>6 DEF Expired
  <2> QED
    BY <2>7
<1>3. ASSUME Flags = {}
      PROVE  \/ card.age = "adult"
             \/ card.age = "minor" /\ waivers[card.waiver].guardian
  <2>1. card.age # "unknown"
    BY <1>3 DEF Flags
  <2>2. card.waiver # NoWaiver
    BY <1>3 DEF Flags
  <2>3. card.age = "minor" => waivers[card.waiver].guardian
    BY <1>3, <2>2 DEF Flags
  <2>4. card.age \in {"unknown", "minor", "adult"}
    BY DEF CardInv, CardTypeOK
  <2> QED
    BY <2>1, <2>3, <2>4
<1>4. CardIsJustified
  BY <1>2, <1>3 DEF CardInv, CardHolds, CardIsJustified
<1> QED
  BY <1>1, <1>4 DEF CardsCanBeTrusted

\* While a card is made days pass, documents and versions are added, and
\* documents become void; nothing else changes of what it has read.
LEMMA WorldMoves ==
    ASSUME CardInv, CardTypeOK', card' = card, validity' = validity, day <= day',
           DOMAIN waivers \subseteq DOMAIN waivers',
           \A i \in DOMAIN waivers :
              /\ waivers'[i].version = waivers[i].version
              /\ waivers'[i].signed = waivers[i].signed
              /\ waivers[i].void => waivers'[i].void,
           \A i \in DOMAIN waivers' : waivers'[i].version \in DOMAIN editions',
           Current <= Current',
           \A v \in DOMAIN editions : v \in DOMAIN editions' /\ editions'[v] = editions[v]
    PROVE  CardInv'
<1>1. CardHolds /\ CardTypeOK
  BY DEF CardInv
<1>2. card.filed \cap Completed' \subseteq card.filed \cap Completed \/ card.pc = "none"
  BY <1>1 DEF CardHolds, Completed
<1>3. /\ Current \in Nat /\ Current' \in Nat /\ card.edition \in Nat /\ card.now \in Nat
      /\ day \in Nat /\ day' \in Nat
  BY <1>1 DEF CardTypeOK, Current
<1>4. card.pc # "none" => card.now <= day' /\ card.edition <= Current'
  BY <1>1, <1>3 DEF CardHolds
<1>5. card.pc = "card" /\ card.status \in {"expired", "current", "reconsent_required"} =>
         card.waiver \in DOMAIN waivers
  BY <1>1 DEF CardHolds
<1>6. card.waiver \in DOMAIN waivers =>
         /\ waivers'[card.waiver].version = waivers[card.waiver].version
         /\ \A v \in card.terms :
               Expired(card.waiver, card.now, v)' <=> Expired(card.waiver, card.now, v)
  BY DEF Expired
<1>7. card.pc \in {"template", "card"} =>
         \A i \in card.filed \cap Completed' :
            card.waiver # NoWaiver /\ waivers'[i].signed <= waivers'[card.waiver].signed
  BY <1>1, <1>2 DEF CardHolds
<1>8. card.pc = "card" /\ card.status = "reconsent_required" =>
         \E v \in DOMAIN editions' : v # waivers'[card.waiver].version /\ editions'[v]
  BY <1>1, <1>5, <1>6 DEF CardHolds
<1>9. ASSUME card.pc = "card", card.status = "current", card.edition = Current',
             waivers'[card.waiver].version # Current'
      PROVE  ~editions'[Current']
  <2>1. card.edition = Current /\ Current' = Current
    BY <1>1, <1>3, <1>9 DEF CardHolds
  <2>2. waivers[card.waiver].version \in DOMAIN editions
    BY <1>1, <1>5, <1>9 DEF CardHolds
  <2>3. Current \in DOMAIN editions
    BY <1>1, <2>2 DEF CardTypeOK, Current
  <2> QED
    BY <1>1, <1>5, <1>6, <1>9, <2>1, <2>3 DEF CardHolds
<1>10. CardHolds'
  BY <1>1, <1>4, <1>5, <1>6, <1>7, <1>8, <1>9 DEF CardHolds
<1> QED
  BY <1>10 DEF CardInv

LEMMA WorldStep ==
    ASSUME CardInv,
           \/ NightFalls
           \/ \E d \in Birthdays \cup {Unknown} : EditBirthday(d)
           \/ \E v \in 1 .. MaxEditions, signed \in 1 .. MaxDay, guardian \in BOOLEAN :
                 FileWaiver(v, signed, guardian)
           \/ \E i \in 1 .. MaxWaivers : VoidWaiver(i)
           \/ \E reconsent \in BOOLEAN : PublishEdition(reconsent)
           \/ UNCHANGED cardVars
    PROVE  CardInv'
<1>1. CardTypeOK /\ CardHolds
  BY DEF CardInv
<1>2. \A i \in DOMAIN waivers : waivers[i].version \in DOMAIN editions
  BY <1>1 DEF CardHolds
<1> DEFINE Row == [version : Nat, signed : Nat, guardian : BOOLEAN, void : BOOLEAN]
<1>3. CASE NightFalls \/ (\E d \in Birthdays \cup {Unknown} : EditBirthday(d))
              \/ UNCHANGED cardVars
  <2>1. /\ waivers' = waivers /\ editions' = editions /\ card' = card
        /\ validity' = validity
        /\ day' = day \/ day' = day + 1
        /\ dob' \in Birthdays \cup {Unknown}
    BY <1>1, <1>3 DEF NightFalls, EditBirthday, cardVars, CardTypeOK
  <2>2. day' \in Nat /\ day <= day'
    BY <1>1, <2>1 DEF CardTypeOK
  <2>3. CardTypeOK'
    BY <1>1, <2>1, <2>2 DEF CardTypeOK
  <2>4. Current \in Nat /\ Current' = Current
    BY <1>1, <2>1 DEF CardTypeOK, Current
  <2> QED
    BY <1>2, <2>1, <2>2, <2>3, <2>4, WorldMoves
<1>4. ASSUME NEW v \in 1 .. MaxEditions, NEW signed \in 1 .. MaxDay,
             NEW guardian \in BOOLEAN, FileWaiver(v, signed, guardian)
      PROVE  CardInv'
  <2> DEFINE row == [version |-> v, signed |-> signed, guardian |-> guardian, void |-> FALSE]
  <2>1. /\ waivers' = Append(waivers, row) /\ editions' = editions /\ card' = card
        /\ day' = day /\ dob' = dob /\ validity' = validity
        /\ v \in DOMAIN editions
    BY <1>4 DEF FileWaiver
  <2>2. row \in Row /\ row.version = v
    BY CardAssumption
  <2>3. waivers' \in Seq(Row)
    BY <1>1, <2>1, <2>2 DEF CardTypeOK
  <2>4. CardTypeOK'
    BY <1>1, <2>1, <2>3 DEF CardTypeOK
  <2>5. /\ DOMAIN waivers' = DOMAIN waivers \cup {Len(waivers) + 1}
        /\ waivers'[Len(waivers) + 1] = row
        /\ \A i \in DOMAIN waivers : waivers'[i] = waivers[i]
    <3>1. waivers \in Seq(Row)
      BY <1>1 DEF CardTypeOK
    <3> HIDE DEF row, Row
    <3> QED
      BY <2>1, <3>1, Appended
  <2>6. \A i \in DOMAIN waivers' : waivers'[i].version \in DOMAIN editions'
    BY <1>2, <2>1, <2>2, <2>5
  <2>7. Current \in Nat /\ Current' = Current /\ day <= day'
    BY <1>1, <2>1 DEF CardTypeOK, Current
  <2> HIDE DEF row
  <2> QED
    BY <2>1, <2>4, <2>5, <2>6, <2>7, WorldMoves
<1>5. ASSUME NEW k \in 1 .. MaxWaivers, VoidWaiver(k)
      PROVE  CardInv'
  <2>1. /\ waivers' = [waivers EXCEPT ![k].void = TRUE]
        /\ editions' = editions /\ card' = card /\ day' = day /\ dob' = dob /\ validity' = validity
        /\ k \in DOMAIN waivers
    BY <1>5 DEF VoidWaiver, Completed
  <2>2. waivers' \in Seq(Row) /\ DOMAIN waivers' = DOMAIN waivers
    <3>1. waivers \in Seq(Row)
      BY <1>1 DEF CardTypeOK
    <3>2. waivers[k] \in Row
      <4> HIDE DEF Row
      <4> QED
        BY <2>1, <3>1, RowOf
    <3>3. [waivers[k] EXCEPT !.void = TRUE] \in Row
      BY <3>2
    <3> HIDE DEF Row
    <3> QED
      BY <2>1, <3>1, <3>3
  <2>3. \A i \in DOMAIN waivers :
           /\ waivers'[i].version = waivers[i].version
           /\ waivers'[i].signed = waivers[i].signed
           /\ waivers[i].void => waivers'[i].void
    <3>1. waivers'[k] = [waivers[k] EXCEPT !.void = TRUE]
      BY <2>1
    <3>2. waivers[k] \in Row
      BY <1>1, <2>1, RowOf DEF CardTypeOK
    <3>3. /\ waivers'[k].version = waivers[k].version
          /\ waivers'[k].signed = waivers[k].signed
          /\ waivers'[k].void
      BY <3>1, <3>2
    <3>4. \A i \in DOMAIN waivers : i # k => waivers'[i] = waivers[i]
      BY <2>1
    <3> QED
      BY <3>3, <3>4
  <2>4. CardTypeOK'
    BY <1>1, <2>1, <2>2 DEF CardTypeOK
  <2>5. Current \in Nat /\ Current' = Current /\ day <= day'
    BY <1>1, <2>1 DEF CardTypeOK, Current
  <2>6. \A i \in DOMAIN waivers' : waivers'[i].version \in DOMAIN editions'
    BY <1>2, <2>1, <2>2, <2>3
  <2> QED
    BY <2>1, <2>2, <2>3, <2>4, <2>5, <2>6, WorldMoves
<1>6. ASSUME NEW reconsent \in BOOLEAN, PublishEdition(reconsent)
      PROVE  CardInv'
  <2>1. /\ waivers' = waivers /\ editions' = Append(editions, reconsent)
        /\ card' = card /\ day' = day /\ dob' = dob /\ validity' = validity
    BY <1>6 DEF PublishEdition
  <2>2. /\ editions' \in Seq(BOOLEAN)
        /\ DOMAIN editions' = DOMAIN editions \cup {Len(editions) + 1}
        /\ \A v \in DOMAIN editions : editions'[v] = editions[v]
    BY <1>1, <2>1 DEF CardTypeOK
  <2>3. CardTypeOK'
    BY <1>1, <2>1, <2>2 DEF CardTypeOK
  <2>4. Current <= Current' /\ day <= day'
    BY <1>1, <2>1 DEF CardTypeOK, Current
  <2> QED
    BY <1>2, <2>1, <2>2, <2>3, <2>4, WorldMoves
<1> QED
  BY <1>3, <1>4, <1>5, <1>6

\* A validity set while a card is made is one more that was in force.
LEMMA ValidityStep ==
    ASSUME CardInv, NEW v \in ValidDays \cup {Unlimited}, SetValidity(v)
    PROVE  CardInv'
<1>1. CardTypeOK /\ CardHolds
  BY DEF CardInv
<1>2. /\ validity' = v /\ day' = day /\ dob' = dob /\ waivers' = waivers
      /\ editions' = editions /\ Current' = Current /\ Completed' = Completed
  BY DEF SetValidity, Current, Completed
<1>3. CASE card.pc = "none"
  BY <1>1, <1>2, <1>3 DEF SetValidity, CardInv, CardTypeOK, CardHolds
<1>4. CASE card.pc # "none"
  <2>1. card' = [card EXCEPT !.terms = @ \cup {v}]
    BY <1>4 DEF SetValidity
  <2>2. /\ card'.pc = card.pc /\ card'.now = card.now /\ card'.waiver = card.waiver
        /\ card'.status = card.status /\ card'.filed = card.filed
        /\ card'.voided = card.voided /\ card'.edition = card.edition
        /\ card'.terms = card.terms \cup {v}
    BY <1>1, <2>1 DEF CardTypeOK
  <2>3. CardTypeOK'
    BY <1>1, <1>2, <2>1 DEF CardTypeOK
  <2>4. \A u \in card.terms :
           Expired(card.waiver, card.now, u)' <=> Expired(card.waiver, card.now, u)
    BY <1>2, <2>2 DEF Expired
  <2>5. CardHolds'
    BY <1>1, <1>2, <2>2, <2>4 DEF CardHolds
  <2> QED
    BY <2>3, <2>5 DEF CardInv
<1> QED
  BY <1>3, <1>4

LEMMA CustomerStep ==
    ASSUME CardInv, CardCustomer
    PROVE  CardInv'
<1>1. CardTypeOK /\ CardHolds
  BY DEF CardInv
<1>2. /\ card' = [NoCard EXCEPT !.pc = "waiver", !.now = day, !.age = Age(dob, day),
             !.filed = Completed, !.voided = DOMAIN waivers \ Completed,
             !.edition = Current, !.terms = {validity}]
      /\ day' = day /\ dob' = dob /\ waivers' = waivers /\ editions' = editions
      /\ validity' = validity
  BY DEF CardCustomer
<1>3. /\ Current \in Nat /\ day \in Nat
      /\ Completed \subseteq DOMAIN waivers /\ DOMAIN waivers \subseteq Nat
      /\ Age(dob, day) \in {"unknown", "minor", "adult"}
  BY <1>1 DEF CardTypeOK, Current, Completed, Age
<1>4. CardTypeOK'
  BY <1>1, <1>2, <1>3 DEF CardTypeOK, NoCard, NoWaiver
<1>5. /\ card'.pc = "waiver" /\ card'.now = day /\ card'.edition = Current
      /\ card'.filed = Completed /\ card'.voided = DOMAIN waivers \ Completed
      /\ card'.status = "missing" /\ card'.terms = {validity}
  BY <1>2 DEF NoCard
<1>6. Current' = Current /\ day <= day /\ Current <= Current
  BY <1>2, <1>3 DEF Current
<1>7. \A i \in DOMAIN waivers \ Completed : waivers[i].void
  BY DEF Completed
<1>8. CardHolds'
  BY <1>1, <1>2, <1>3, <1>5, <1>6, <1>7 DEF CardHolds
<1> QED
  BY <1>4, <1>8 DEF CardInv

LEMMA WaiverStep ==
    ASSUME CardInv, CardWaiver
    PROVE  CardInv'
<1>1. CardTypeOK /\ CardHolds
  BY DEF CardInv
<1>2. PICK i \in Latest :
         card' = [card EXCEPT !.waiver = i,
                     !.pc = IF i = NoWaiver THEN "card" ELSE "template"]
  BY DEF CardWaiver
<1>3. card.pc = "waiver" /\ day' = day /\ dob' = dob /\ waivers' = waivers
         /\ editions' = editions /\ validity' = validity
  BY DEF CardWaiver
<1>4. /\ DOMAIN waivers \subseteq Nat /\ NoWaiver \notin DOMAIN waivers
      /\ Current' = Current /\ Completed' = Completed
  BY <1>1, <1>3 DEF CardTypeOK, NoWaiver, Current, Completed
<1>5. \/ i = NoWaiver /\ Completed = {}
      \/ i \in Completed /\ \A j \in Completed : waivers[j].signed <= waivers[i].signed
  BY DEF Latest, LastSigned
<1>6. i \in DOMAIN waivers \cup {NoWaiver} /\ i \in Nat
  BY <1>4, <1>5 DEF Completed, NoWaiver
<1>7. CardTypeOK'
  BY <1>1, <1>2, <1>3, <1>6 DEF CardTypeOK
<1>8. /\ card'.waiver = i /\ card'.pc = (IF i = NoWaiver THEN "card" ELSE "template")
      /\ card'.now = card.now /\ card'.edition = card.edition
      /\ card'.filed = card.filed /\ card'.voided = card.voided
      /\ card'.status = "missing" /\ card'.terms = card.terms
  BY <1>1, <1>2, <1>3 DEF CardTypeOK, CardHolds
<1>9. i \notin card.voided
  BY <1>1, <1>3, <1>4, <1>5 DEF CardHolds, Completed
<1>10. /\ card.now <= day /\ card.edition <= Current
       /\ card.filed \subseteq DOMAIN waivers /\ validity \in card.terms
  BY <1>1, <1>3 DEF CardHolds
<1>11. \A j \in card.filed \cap Completed :
          i # NoWaiver /\ waivers[j].signed <= waivers[i].signed
  BY <1>5, <1>4 DEF Completed
<1>12. CardHolds'
  BY <1>1, <1>3, <1>4, <1>6, <1>8, <1>9, <1>10, <1>11 DEF CardHolds
<1> QED
  BY <1>7, <1>12 DEF CardInv

LEMMA TemplateStep ==
    ASSUME CardInv, CardTemplate
    PROVE  CardInv'
<1> DEFINE i == card.waiver
           status == IF Expired(i, card.now, validity) THEN "expired"
                     ELSE IF Reconsent(i) THEN "reconsent_required" ELSE "current"
<1>1. CardTypeOK /\ CardHolds
  BY DEF CardInv
<1>2. /\ card.pc = "template" /\ day' = day /\ dob' = dob /\ waivers' = waivers
      /\ editions' = editions /\ validity' = validity
      /\ card' = [card EXCEPT !.pc = "card", !.status = status]
  BY DEF CardTemplate
<1>3. status \in {"expired", "reconsent_required", "current"}
  OBVIOUS
<1> HIDE DEF status
<1>4. CardTypeOK'
  BY <1>1, <1>2, <1>3 DEF CardTypeOK
<1>5. /\ card'.pc = "card" /\ card'.status = status /\ card'.waiver = i
      /\ card'.now = card.now /\ card'.edition = card.edition
      /\ card'.filed = card.filed /\ card'.voided = card.voided
      /\ card'.terms = card.terms
  BY <1>1, <1>2 DEF CardTypeOK
<1>6. i \in DOMAIN waivers /\ i # NoWaiver
  BY <1>1, <1>2 DEF CardHolds, CardTypeOK, NoWaiver
<1>7. /\ Current' = Current /\ Completed' = Completed
      /\ \A v : Expired(card.waiver, card.now, v)' <=> Expired(i, card.now, v)
      /\ validity \in card.terms
  BY <1>1, <1>2, <1>5 DEF Current, Completed, Expired, CardHolds
<1>8. waivers[i].version \in DOMAIN editions /\ Current \in DOMAIN editions
  BY <1>1, <1>6 DEF CardHolds, CardTypeOK, Current
<1>9. /\ status = "expired" => Expired(i, card.now, validity)
      /\ status = "reconsent_required" => \E v \in DOMAIN editions :
            v # waivers[i].version /\ editions[v]
      /\ status = "current" =>
            /\ ~Expired(i, card.now, validity)
            /\ waivers[i].version # Current => ~editions[Current]
  BY <1>8 DEF status, Reconsent
<1>10. CardHolds'
  BY <1>1, <1>2, <1>3, <1>5, <1>6, <1>7, <1>9 DEF CardHolds
<1> QED
  BY <1>4, <1>10 DEF CardInv

LEMMA CardStep == CardInv /\ [CardNext]_cardVars => CardInv'
<1> SUFFICES ASSUME CardInv, [CardNext]_cardVars
             PROVE  CardInv'
  OBVIOUS
<1>1. CASE PutAway
  <2>1. /\ card' = NoCard /\ day' = day /\ dob' = dob /\ waivers' = waivers
        /\ editions' = editions /\ validity' = validity
    BY <1>1 DEF PutAway
  <2>2. CardTypeOK'
    BY <2>1 DEF CardInv, CardTypeOK, NoCard, NoWaiver
  <2> QED
    BY <2>1, <2>2 DEF CardInv, CardHolds, NoCard
<1> QED
  BY <1>1, WorldStep, ValidityStep, CustomerStep, WaiverStep, TemplateStep DEF CardNext

LEMMA CardAlways == CardSpec => []CardInv
<1> QED
  BY CardStarts, CardStep, PTL DEF CardSpec

\* The documents, the versions and the card of checkin.ts keep their types.
THEOREM CardTypeCorrect == CardSpec => []CardTypeOK
<1>1. CardInv => CardTypeOK
  BY DEF CardInv
<1> QED
  BY <1>1, CardAlways, PTL

\* A card that statusCard of checkin.ts puts together while documents are
\* filed and voided, versions published and days pass is as new as the
\* request for it, and what it flags is so, however many of them there are.
THEOREM CardsTrusted == CardSpec => []CardsCanBeTrusted
  BY CardAlways, CardTrusted, PTL

-----------------------------------------------------------------------------
(* Sign-up, login and sites.                                               *)


\* The organizations that are there and have a user.
Owned == {o \in organizations : \E e \in Emails : users[e].org = o}

\* Users belong to organizations that are there, one to each.
UsersApart ==
    /\ \A e \in Emails : users[e] # NoUser => users[e].org \in organizations
    /\ \A e, f \in Emails : users[e] # NoUser /\ users[e].org = users[f].org => e = f

\* What a handler may rely on at each of its steps.
ErrandFits(h) ==
    LET v == errand[h]
    IN /\ v.pc \in {"idle", "organization"} => v.org = Nobody
       /\ v.pc \notin {"idle", "organization"} => v.org \in organizations
       /\ v.pc \in {"organization", "user", "key", "created"} =>
             v.email \in Emails /\ v.password \in Passwords
       /\ v.pc = "user" =>
             /\ \A e \in Emails : users[e].org # v.org
             /\ \A k \in Callers : errand[k].org = v.org => k = h
       /\ v.pc \in {"key", "created"} =>
             users[v.email] = [org |-> v.org, password |-> v.password]
       /\ v.pc = "created" => v.org \in keyed
       /\ v.pc \in {"login_key", "login", "site"} => v.org \in Owned

\* What the answered sign-ups were told is in the tables.
WelcomesHold ==
    \A w \in welcomed :
        /\ users[w.email] = [org |-> w.org, password |-> w.password]
        /\ w.org \in organizations \cap keyed
        /\ [org |-> w.org, type |-> "organization.created"] \in trail

\* Keys, sites and audit events belong to organizations with an owner.
NothingInShells ==
    /\ \A o \in keyed : o \in Owned
    /\ \A s \in SiteIds : sites[s].org # Nobody => sites[s].org \in Owned
    /\ \A t \in trail : t.org \in Owned

AccountsInv ==
    /\ AccountsTypeOK
    /\ UsersApart
    /\ \A h \in Callers : ErrandFits(h)
    /\ WelcomesHold
    /\ NothingInShells

LEMMA AccountsParts ==
    ASSUME AccountsInv
    PROVE  /\ AccountsTypeOK
           /\ UsersApart
           /\ \A h \in Callers : ErrandFits(h)
           /\ WelcomesHold
           /\ NothingInShells
  BY DEF AccountsInv

\* Nobody is no organization, so that an organization tells users apart
\* from absent ones.
LEMMA UserHasOrg ==
    ASSUME AccountsTypeOK, NEW e \in Emails
    PROVE  /\ users[e] \in User
           /\ users[e] # NoUser <=> users[e].org \in OrgIds
           /\ users[e] = NoUser <=> users[e].org = Nobody
  BY AccountsAssumption DEF AccountsTypeOK, User, NoUser

-----------------------------------------------------------------------------
(* Type correctness.                                                       *)

LEMMA EmailTyped ==
    ASSUME NEW s \in Spellings
    PROVE  Email[s] \in Emails
  BY DEF Emails

LEMMA AccountTypesInit == AccountsInit => AccountsTypeOK
  BY DEF AccountsInit, AccountsTypeOK, User, NoUser, Site, NoSite, Errand, NoErrand

\* Every handler step leaves an errand of the right shape behind.
LEMMA AccountTypesStep ==
    ASSUME AccountsInv, [AccountsNext]_accountVars
    PROVE  AccountsTypeOK'
<1> USE DEF AccountsTypeOK
<1>e. \A h \in Callers : errand[h] \in Errand
  BY AccountsParts
<1>n. NoErrand \in Errand
  BY DEF NoErrand, Errand
<1>1. ASSUME NEW h \in Callers, NEW s \in Spellings, NEW p \in Passwords,
             SignupCheck(h, s, p) \/ Login(h, s, p)
      PROVE  AccountsTypeOK'
  <2>1. CASE SignupCheck(h, s, p)
    BY <1>n, <2>1, EmailTyped, AccountsParts DEF SignupCheck, Errand, NoErrand
  <2>2. CASE Login(h, s, p)
    <3>1. users[Email[s]].org \in OrgIds
      BY <2>2, EmailTyped, UserHasOrg, AccountsParts DEF Login
    <3> QED
      BY <1>n, <2>2, <3>1, AccountsParts DEF Login, Errand, NoErrand
  <2> QED
    BY <1>1, <2>1, <2>2
<1>2. ASSUME NEW h \in Callers, NEW o \in OrgIds, SignupOrganization(h, o)
      PROVE  AccountsTypeOK'
  <2>1. errand[h] \in Errand
    BY <1>e
  <2>2. [errand[h] EXCEPT !.pc = "user", !.org = o] \in Errand
    BY <2>1 DEF Errand
  <2>3. errand' \in [Callers -> Errand]
    BY <1>2, <2>2, AccountsParts DEF SignupOrganization
  <2> QED
    BY <1>2, <2>3, AccountsParts DEF SignupOrganization
<1>3. ASSUME NEW h \in Callers, SignupUser(h)
      PROVE  AccountsTypeOK'
  <2>1. /\ errand[h].email \in Emails
        /\ errand[h].password \in Passwords
        /\ errand[h].org \in OrgIds
    BY <1>3, AccountsParts DEF ErrandFits, SignupUser, Busy
  <2>2. [org |-> errand[h].org, password |-> errand[h].password] \in User
    BY <2>1 DEF User
  <2>3. users' \in [Emails -> User]
    BY <1>3, <2>1, <2>2, AccountsParts DEF SignupUser
  <2>4. errand' \in [Callers -> Errand]
    BY <1>e, <1>n, <1>3, AccountsParts DEF SignupUser, Proceed, Leave, Errand
  <2> QED
    BY <1>3, <2>3, <2>4, AccountsParts DEF SignupUser
<1>4. ASSUME NEW h \in Callers, MintRootKey(h)
      PROVE  AccountsTypeOK'
  <2>1. errand[h].org \in OrgIds
    BY <1>4, AccountsParts DEF ErrandFits, MintRootKey, Busy
  <2> QED
    BY <1>e, <1>4, <2>1, AccountsParts DEF MintRootKey, Proceed, Errand
<1>5. ASSUME NEW h \in Callers, SignupDone(h)
      PROVE  AccountsTypeOK'
  <2>1. /\ errand[h].email \in Emails
        /\ errand[h].password \in Passwords
        /\ errand[h].org \in OrgIds
    BY <1>5, AccountsParts DEF ErrandFits, SignupDone, Busy
  <2> QED
    BY <1>n, <1>5, <2>1, AccountsParts DEF SignupDone, Leave, TrailEvent, Welcome
<1>6. ASSUME NEW h \in Callers, LoginDone(h) \/ SiteDone(h)
      PROVE  AccountsTypeOK'
  <2>1. errand[h].org \in OrgIds
    BY <1>6, AccountsParts DEF ErrandFits, LoginDone, SiteDone, Busy
  <2> QED
    BY <1>n, <1>6, <2>1, AccountsParts DEF LoginDone, SiteDone, Leave, TrailEvent
<1>7. ASSUME NEW h \in Callers, NEW o \in OrgIds, NEW s \in SiteIds,
             CreateSite(h, o, s) \/ UpdateSite(h, o, s)
      PROVE  AccountsTypeOK'
  <2>0. [NoErrand EXCEPT !.pc = "site", !.org = o] \in Errand
    BY DEF Errand, NoErrand
  <2>1. errand' \in [Callers -> Errand]
    BY <2>0, <1>7, AccountsParts DEF CreateSite, UpdateSite
  <2>2. sites' \in [SiteIds -> Site]
    BY <1>7, AccountsParts DEF CreateSite, UpdateSite, Site
  <2> QED
    BY <1>7, <2>1, <2>2, AccountsParts DEF CreateSite, UpdateSite
<1>8. ASSUME NEW h \in Callers, BreakOff(h)
      PROVE  AccountsTypeOK'
  BY <1>n, <1>8, AccountsParts DEF BreakOff, Leave
<1>9. CASE UNCHANGED accountVars
  BY <1>9, AccountsParts DEF accountVars
<1> QED
  BY <1>1, <1>2, <1>3, <1>4, <1>5, <1>6, <1>7, <1>8, <1>9 DEF AccountsNext

-----------------------------------------------------------------------------
(* What is written stays.                                                  *)

\* Organizations, keys, audit events and users are only added, and only
\* SignupUser adds a user, where there is none.
LEMMA Grows ==
    ASSUME AccountsInv, [AccountsNext]_accountVars
    PROVE  /\ organizations \subseteq organizations'
           /\ keyed \subseteq keyed'
           /\ trail \subseteq trail'
           /\ \A e \in Emails : users[e] # NoUser => users'[e] = users[e]
<1>1. ASSUME NEW h \in Callers, SignupUser(h)
      PROVE  \A e \in Emails : users[e] # NoUser => users'[e] = users[e]
  BY <1>1, AccountsParts DEF SignupUser, AccountsTypeOK
<1> QED
  BY <1>1 DEF AccountsNext, accountVars, SignupCheck, Login, SignupOrganization,
     SignupUser, MintRootKey, SignupDone, LoginDone, CreateSite, UpdateSite, SiteDone,
     BreakOff

LEMMA OwnedForGood ==
    ASSUME AccountsInv, [AccountsNext]_accountVars
    PROVE  Owned \subseteq Owned'
<1> SUFFICES ASSUME NEW o \in organizations, NEW e \in Emails, users[e].org = o
             PROVE  o \in Owned'
  BY DEF Owned
<1>1. users[e] # NoUser
  BY UserHasOrg, AccountsParts DEF AccountsTypeOK
<1>2. users'[e].org = o
  BY <1>1, Grows
<1> QED
  BY <1>2, Grows DEF Owned

LEMMA UsersApartStep ==
    ASSUME AccountsInv, [AccountsNext]_accountVars
    PROVE  UsersApart'
<1>1. CASE users' = users
  BY <1>1, Grows, AccountsParts DEF UsersApart
<1>2. ASSUME NEW h \in Callers, SignupUser(h), users' # users
      PROVE  UsersApart'
  <2> DEFINE v == errand[h]
  <2>1. /\ v.email \in Emails
        /\ v.org \in organizations
        /\ v.org \in OrgIds
        /\ \A e \in Emails : users[e].org # v.org
    BY <1>2, AccountsParts DEF ErrandFits, SignupUser, Busy, AccountsTypeOK
  <2>2. users' = [users EXCEPT ![v.email] = [org |-> v.org, password |-> v.password]]
    BY <1>2 DEF SignupUser
  <2>3. /\ users'[v.email].org = v.org
        /\ \A e \in Emails \ {v.email} : users'[e] = users[e]
    BY <2>1, <2>2, AccountsParts DEF AccountsTypeOK
  <2> HIDE DEF v
  <2> QED
    BY <2>1, <2>3, Grows, AccountsParts DEF UsersApart
<1> QED
  BY <1>1, <1>2 DEF AccountsNext, accountVars, SignupCheck, Login, SignupOrganization,
     MintRootKey, SignupDone, LoginDone, CreateSite, UpdateSite, SiteDone, BreakOff

\* A handler that goes on to write on an organization's behalf has an owner
\* of it in the table.
LEMMA ActsForOwner ==
    ASSUME AccountsInv, NEW h \in Callers,
           errand[h].pc \in {"key", "created", "login_key", "login", "site"}
    PROVE  errand[h].org \in OrgIds /\ errand[h].org \in Owned
<1>1. errand[h].org \in organizations
  BY AccountsParts DEF ErrandFits
<1>2. CASE errand[h].pc \in {"key", "created"}
  <2>1. /\ errand[h].email \in Emails
        /\ users[errand[h].email] =
              [org |-> errand[h].org, password |-> errand[h].password]
    BY <1>2, AccountsParts DEF ErrandFits
  <2>2. users[errand[h].email].org = errand[h].org
    BY <2>1
  <2> QED
    BY <1>1, <2>1, <2>2, AccountsParts DEF Owned, AccountsTypeOK
<1>3. CASE errand[h].pc \in {"login_key", "login", "site"}
  BY <1>1, <1>3, AccountsParts DEF ErrandFits, AccountsTypeOK
<1> QED
  BY <1>2, <1>3

LEMMA ShellsStep ==
    ASSUME AccountsInv, [AccountsNext]_accountVars
    PROVE  NothingInShells'
<1>1. \A o \in keyed' : o \in OrgIds /\ o \in Owned
  <2>1. ASSUME NEW h \in Callers, MintRootKey(h)
        PROVE  \A o \in keyed' : o \in OrgIds /\ o \in Owned
    <3>1. errand[h].org \in OrgIds /\ errand[h].org \in Owned
      BY <2>1, ActsForOwner DEF MintRootKey, Busy
    <3>2. keyed' = keyed \cup {errand[h].org}
      BY <2>1 DEF MintRootKey
    <3> QED
      BY <3>1, <3>2, AccountsParts DEF NothingInShells, AccountsTypeOK
  <2>2. CASE keyed' = keyed
    BY <2>2, AccountsParts DEF NothingInShells, AccountsTypeOK
  <2> QED
    BY <2>1, <2>2 DEF AccountsNext, accountVars, SignupCheck, Login, SignupUser,
       SignupOrganization, SignupDone, LoginDone, CreateSite, UpdateSite, SiteDone, BreakOff
<1>2. \A t \in trail' : t.org \in OrgIds /\ t.org \in Owned
  <2>1. ASSUME NEW h \in Callers, SignupDone(h) \/ LoginDone(h) \/ SiteDone(h)
        PROVE  \A t \in trail' : t.org \in OrgIds /\ t.org \in Owned
    <3>1. errand[h].org \in OrgIds /\ errand[h].org \in Owned
      BY <2>1, ActsForOwner DEF SignupDone, LoginDone, SiteDone, Busy
    <3>2. \A t \in trail' : t \in trail \/ t.org = errand[h].org
      BY <2>1 DEF SignupDone, LoginDone, SiteDone
    <3> QED
      BY <3>1, <3>2, AccountsParts DEF NothingInShells, AccountsTypeOK, TrailEvent
  <2>2. CASE trail' = trail
    BY <2>2, AccountsParts DEF NothingInShells, AccountsTypeOK, TrailEvent
  <2> QED
    BY <2>1, <2>2 DEF AccountsNext, accountVars, SignupCheck, Login, SignupUser,
       SignupOrganization, MintRootKey, CreateSite, UpdateSite, BreakOff
<1>3. \A s \in SiteIds : sites'[s].org # Nobody =>
         sites'[s].org \in OrgIds /\ sites'[s].org \in Owned
  <2>1. ASSUME NEW h \in Callers, NEW o \in OrgIds, NEW s \in SiteIds,
               CreateSite(h, o, s) \/ UpdateSite(h, o, s)
        PROVE  \A r \in SiteIds : sites'[r].org \in {sites[r].org, o}
    BY <2>1, AccountsParts DEF CreateSite, UpdateSite, AccountsTypeOK, Site
  <2>2. ASSUME NEW h \in Callers, NEW o \in OrgIds, NEW s \in SiteIds,
               CreateSite(h, o, s) \/ UpdateSite(h, o, s)
        PROVE  o \in Owned
    BY <2>2, AccountsParts DEF CreateSite, UpdateSite, NothingInShells
  <2>3. \A r \in SiteIds : sites[r].org # Nobody =>
           sites[r].org \in OrgIds /\ sites[r].org \in Owned
    BY AccountsParts DEF NothingInShells, AccountsTypeOK, Site
  <2>4. CASE sites' = sites
    BY <2>3, <2>4
  <2>5. ASSUME NEW h \in Callers, NEW o \in OrgIds, NEW s \in SiteIds,
               CreateSite(h, o, s) \/ UpdateSite(h, o, s)
        PROVE  \A r \in SiteIds : sites'[r].org # Nobody =>
                  sites'[r].org \in OrgIds /\ sites'[r].org \in Owned
    BY <2>1, <2>2, <2>3, <2>5
  <2> QED
    BY <2>4, <2>5 DEF AccountsNext, accountVars, SignupCheck, Login, SignupUser,
       SignupOrganization, MintRootKey, SignupDone, LoginDone, SiteDone, BreakOff
<1>4. Owned \subseteq Owned'
  BY OwnedForGood
<1> QED
  BY <1>1, <1>2, <1>3, <1>4 DEF NothingInShells

LEMMA WelcomesStep ==
    ASSUME AccountsInv, [AccountsNext]_accountVars
    PROVE  WelcomesHold'
<1>1. ASSUME NEW w \in welcomed
      PROVE  /\ users'[w.email] = [org |-> w.org, password |-> w.password]
             /\ w.org \in organizations' \cap keyed'
             /\ [org |-> w.org, type |-> "organization.created"] \in trail'
  <2>1. /\ w.email \in Emails
        /\ w.org \in OrgIds
        /\ users[w.email] = [org |-> w.org, password |-> w.password]
    BY AccountsParts DEF WelcomesHold, AccountsTypeOK, Welcome
  <2>2. users[w.email] # NoUser
    BY <2>1, UserHasOrg, AccountsParts
  <2> QED
    BY <2>1, <2>2, Grows, AccountsParts DEF WelcomesHold
<1>2. CASE welcomed' = welcomed
  BY <1>1, <1>2 DEF WelcomesHold
<1>3. ASSUME NEW h \in Callers, SignupDone(h)
      PROVE  WelcomesHold'
  <2> DEFINE v == errand[h]
             w == [email |-> v.email, password |-> v.password, org |-> v.org]
  <2>1. /\ users[v.email] = [org |-> v.org, password |-> v.password]
        /\ v.org \in organizations \cap keyed
    BY <1>3, AccountsParts DEF ErrandFits, SignupDone, Busy
  <2>2. /\ users' = users
        /\ organizations' = organizations
        /\ keyed' = keyed
        /\ trail' = trail \cup {[org |-> v.org, type |-> "organization.created"]}
        /\ welcomed' = welcomed \cup {w}
    BY <1>3 DEF SignupDone
  <2>3. w.email = v.email /\ w.password = v.password /\ w.org = v.org
    OBVIOUS
  <2> HIDE DEF v, w
  <2> QED
    BY <1>1, <2>1, <2>2, <2>3 DEF WelcomesHold
<1> QED
  BY <1>2, <1>3 DEF AccountsNext, accountVars, SignupCheck, Login, SignupUser,
     SignupOrganization, MintRootKey, LoginDone, CreateSite, UpdateSite, SiteDone, BreakOff

-----------------------------------------------------------------------------
(* What handlers rely on.                                                  *)

\* Where the organization of an errand comes from: the one it had, one with
\* an owner, or a new one.
LEMMA OrgsTaken ==
    ASSUME AccountsInv, [AccountsNext]_accountVars, NEW k \in Callers
    PROVE  \/ errand'[k].org \in {errand[k].org, Nobody} \cup Owned
           \/ errand'[k].org \notin organizations
<1>t. errand \in [Callers -> Errand]
  BY AccountsParts DEF AccountsTypeOK
<1> DEFINE Source(h) == \/ errand'[h].org \in {errand[h].org, Nobody} \cup Owned
                        \/ errand'[h].org \notin organizations
<1>1. ASSUME NEW h \in Callers, NEW s \in Spellings, NEW p \in Passwords,
             SignupCheck(h, s, p) \/ Login(h, s, p)
      PROVE  Source(k)
  <2>1. CASE SignupCheck(h, s, p)
    BY <1>t, <2>1 DEF SignupCheck, NoErrand
  <2>2. CASE Login(h, s, p)
    <3>1. users[Email[s]].org \in Owned
      BY <2>2, EmailTyped, AccountsParts DEF Login, Owned, UsersApart
    <3> QED
      BY <1>t, <2>2, <3>1 DEF Login, NoErrand
  <2> QED
    BY <1>1, <2>1, <2>2
<1>2. ASSUME NEW h \in Callers, NEW o \in OrgIds, NEW s \in SiteIds,
             CreateSite(h, o, s) \/ UpdateSite(h, o, s)
      PROVE  Source(k)
  <2>1. o \in Owned
    BY <1>2, AccountsParts DEF CreateSite, UpdateSite, NothingInShells
  <2> QED
    BY <1>t, <1>2, <2>1 DEF CreateSite, UpdateSite, NoErrand
<1>3. ASSUME NEW h \in Callers, NEW o \in OrgIds, SignupOrganization(h, o)
      PROVE  Source(k)
  BY <1>t, <1>3 DEF SignupOrganization
<1>4. ASSUME NEW h \in Callers,
             \/ SignupUser(h) \/ MintRootKey(h) \/ SignupDone(h)
             \/ LoginDone(h) \/ SiteDone(h) \/ BreakOff(h)
      PROVE  Source(k)
  <2>1. CASE Leave(h)
    BY <1>t, <2>1 DEF Leave, NoErrand
  <2>2. ASSUME NEW pc, Proceed(h, pc)
        PROVE  Source(k)
    BY <1>t, <2>2 DEF Proceed, Errand
  <2> QED
    BY <1>4, <2>1, <2>2 DEF SignupUser, MintRootKey, SignupDone, LoginDone, SiteDone,
       BreakOff
<1>5. CASE UNCHANGED accountVars
  BY <1>5 DEF accountVars
<1> QED
  BY <1>1, <1>2, <1>3, <1>4, <1>5 DEF AccountsNext

\* A user that appears belongs to the organization of the handler that
\* inserted it.
LEMMA NewUsers ==
    ASSUME AccountsInv, [AccountsNext]_accountVars, NEW e \in Emails
    PROVE  \/ users'[e] = users[e]
           \/ \E h \in Callers : /\ SignupUser(h)
                                 /\ errand'[h] # errand[h]
                                 /\ users'[e].org = errand[h].org
<1>1. ASSUME NEW h \in Callers, SignupUser(h), users'[e] # users[e]
      PROVE  errand'[h] # errand[h] /\ users'[e].org = errand[h].org
  <2>1. errand[h] \in Errand /\ errand \in [Callers -> Errand]
    BY AccountsParts DEF AccountsTypeOK
  <2>2. errand'[h].pc # "user" /\ errand[h].pc = "user"
    BY <1>1, <2>1 DEF SignupUser, Busy, Proceed, Leave, NoErrand, Errand
  <2>3. users'[e].org = errand[h].org
    BY <1>1, AccountsParts DEF SignupUser, AccountsTypeOK
  <2> QED
    BY <2>2, <2>3
<1> QED
  BY <1>1 DEF AccountsNext, accountVars, SignupCheck, Login, SignupOrganization,
     MintRootKey, SignupDone, LoginDone, CreateSite, UpdateSite, SiteDone, BreakOff

\* What a handler relies on survives the steps of the others.
LEMMA OthersKeep ==
    ASSUME AccountsInv, [AccountsNext]_accountVars, NEW k \in Callers,
           errand'[k] = errand[k]
    PROVE  ErrandFits(k)'
<1> DEFINE v == errand[k]
<1>1. ErrandFits(k)
  BY AccountsParts
<1>2. v.pc \in {"key", "created"} =>
         users'[v.email] = [org |-> v.org, password |-> v.password]
  <2> SUFFICES ASSUME v.pc \in {"key", "created"}
               PROVE  users'[v.email] = [org |-> v.org, password |-> v.password]
    OBVIOUS
  <2>1. /\ v.email \in Emails
        /\ v.org \in OrgIds
        /\ users[v.email] = [org |-> v.org, password |-> v.password]
    BY <1>1, AccountsParts DEF ErrandFits, AccountsTypeOK
  <2>2. users[v.email].org \in OrgIds
    BY <2>1
  <2> QED
    BY <2>1, <2>2, UserHasOrg, AccountsParts, Grows
<1>3. v.pc = "user" => \A e \in Emails : users'[e].org # v.org
  <2> SUFFICES ASSUME v.pc = "user", NEW e \in Emails, users'[e].org = v.org
               PROVE  FALSE
    OBVIOUS
  <2>1. PICK h \in Callers : errand'[h] # errand[h] /\ errand[h].org = v.org
    BY <1>1, NewUsers DEF ErrandFits
  <2> QED
    BY <1>1, <2>1 DEF ErrandFits
<1>4. v.pc = "user" => \A h \in Callers : errand'[h].org = v.org => h = k
  <2> SUFFICES ASSUME v.pc = "user", NEW h \in Callers, errand'[h].org = v.org
               PROVE  h = k
    OBVIOUS
  <2>1. v.org \in organizations /\ v.org \in OrgIds /\ v.org \notin Owned
    BY <1>1, AccountsParts DEF ErrandFits, AccountsTypeOK, Owned
  <2>2. errand[h].org = v.org
    BY <2>1, OrgsTaken, AccountsAssumption
  <2> QED
    BY <1>1, <2>2 DEF ErrandFits
<1>5. Owned \subseteq Owned' /\ keyed \subseteq keyed' /\ organizations \subseteq organizations'
  BY OwnedForGood, Grows
<1> QED
  BY <1>1, <1>2, <1>3, <1>4, <1>5 DEF ErrandFits

\* A handler that is done, or gave up, relies on nothing.
LEMMA IdleFits ==
    ASSUME NEW h \in Callers, errand'[h] = NoErrand
    PROVE  ErrandFits(h)'
  BY DEF ErrandFits, NoErrand

\* A handler that acts for the owner of an organization.
LEMMA OwnerFits ==
    ASSUME AccountsInv, [AccountsNext]_accountVars, NEW h \in Callers,
           errand'[h].pc \in {"login_key", "login", "site"},
           errand'[h].org \in Owned
    PROVE  ErrandFits(h)'
<1>1. errand'[h].org \in Owned' /\ errand'[h].org \in organizations'
  BY OwnedForGood DEF Owned
<1> QED
  BY <1>1 DEF ErrandFits

\* The handler that acts finds at its next step what that step relies on,
\* and no step disturbs the errand of another.
LEMMA ActorFits ==
    ASSUME AccountsInv, AccountsNext
    PROVE  \E h \in Callers :
              /\ ErrandFits(h)'
              /\ \A k \in Callers \ {h} : errand'[k] = errand[k]
<1> DEFINE Fits(h) == /\ ErrandFits(h)'
                      /\ \A k \in Callers \ {h} : errand'[k] = errand[k]
<1>t. errand \in [Callers -> Errand]
  BY AccountsParts DEF AccountsTypeOK
<1>n. [AccountsNext]_accountVars
  OBVIOUS
<1>1. ASSUME NEW h \in Callers, NEW s \in Spellings, NEW p \in Passwords,
             SignupCheck(h, s, p)
      PROVE  Fits(h)
  <2>1. /\ errand'[h] = [pc |-> "organization", email |-> Email[s], password |-> p,
                         org |-> Nobody]
        /\ \A k \in Callers \ {h} : errand'[k] = errand[k]
    BY <1>1, <1>t DEF SignupCheck, NoErrand
  <2>2. ErrandFits(h)'
    BY <2>1, EmailTyped DEF ErrandFits
  <2> QED
    BY <2>1, <2>2
<1>2. ASSUME NEW h \in Callers, NEW s \in Spellings, NEW p \in Passwords, Login(h, s, p)
      PROVE  Fits(h)
  <2>1. /\ errand'[h].pc = "login_key"
        /\ errand'[h].org = users[Email[s]].org
        /\ \A k \in Callers \ {h} : errand'[k] = errand[k]
    BY <1>2, <1>t DEF Login, NoErrand
  <2>2. users[Email[s]].org \in Owned
    BY <1>2, EmailTyped, AccountsParts DEF Login, Owned, UsersApart
  <2> QED
    BY <1>n, <2>1, <2>2, OwnerFits
<1>3. ASSUME NEW h \in Callers, NEW o \in OrgIds, SignupOrganization(h, o)
      PROVE  Fits(h)
  <2>1. /\ errand'[h] = [errand[h] EXCEPT !.pc = "user", !.org = o]
        /\ \A k \in Callers \ {h} : errand'[k] = errand[k]
        /\ organizations' = organizations \cup {o}
        /\ users' = users
        /\ o \notin organizations
        /\ errand[h].pc = "organization"
    BY <1>3, <1>t DEF SignupOrganization, Busy
  <2>2. errand[h] \in Errand
    BY <1>t
  <2>3. /\ errand'[h].pc = "user"
        /\ errand'[h].org = o
        /\ errand'[h].email \in Emails
        /\ errand'[h].password \in Passwords
    <3>1. errand[h].email \in Emails /\ errand[h].password \in Passwords
      BY <2>1, AccountsParts DEF ErrandFits
    <3> QED
      BY <2>1, <2>2, <3>1 DEF Errand
  <2>4. \A e \in Emails : users'[e].org # o
    BY <2>1, UserHasOrg, AccountsParts, AccountsAssumption DEF UsersApart
  <2>5. \A k \in Callers : errand'[k].org = o => k = h
    <3>1. o # Nobody
      BY AccountsAssumption
    <3>2. \A k \in Callers : errand[k].org # o
      BY <2>1, <3>1, AccountsParts DEF ErrandFits
    <3> QED
      BY <2>1, <3>2
  <2>6. ErrandFits(h)'
    BY <2>1, <2>3, <2>4, <2>5 DEF ErrandFits
  <2> QED
    BY <2>1, <2>6
<1>4. ASSUME NEW h \in Callers, SignupUser(h)
      PROVE  Fits(h)
  <2>1. \A k \in Callers \ {h} : errand'[k] = errand[k]
    BY <1>4, <1>t DEF SignupUser, Proceed, Leave
  <2>2. CASE Leave(h)
    BY <1>t, <2>1, <2>2, IdleFits DEF Leave
  <2>3. CASE Proceed(h, "key") /\ users[errand[h].email] = NoUser
    <3>1. errand[h] \in Errand
      BY <1>t
    <3>2. /\ errand[h].email \in Emails
          /\ errand[h].password \in Passwords
          /\ errand[h].org \in organizations
      BY <1>4, AccountsParts DEF ErrandFits, SignupUser, Busy
    <3>3. /\ errand'[h].pc = "key"
          /\ errand'[h].email = errand[h].email
          /\ errand'[h].password = errand[h].password
          /\ errand'[h].org = errand[h].org
      BY <1>t, <2>3, <3>1 DEF Proceed, Errand
    <3>4. /\ organizations' = organizations
          /\ users'[errand[h].email] =
                [org |-> errand[h].org, password |-> errand[h].password]
      BY <1>4, <2>3, <3>2, AccountsParts DEF SignupUser, AccountsTypeOK
    <3>5. ErrandFits(h)'
      BY <3>2, <3>3, <3>4 DEF ErrandFits
    <3> QED
      BY <2>1, <3>5
  <2> QED
    BY <1>4, <2>2, <2>3 DEF SignupUser
<1>5. ASSUME NEW h \in Callers, MintRootKey(h)
      PROVE  Fits(h)
  <2>1. errand[h] \in Errand
    BY <1>t
  <2>2. \A k \in Callers \ {h} : errand'[k] = errand[k]
    BY <1>5, <1>t DEF MintRootKey, Proceed
  <2>3. CASE Busy(h, "key") /\ Proceed(h, "created")
    <3>1. /\ errand[h].email \in Emails
          /\ errand[h].password \in Passwords
          /\ errand[h].org \in organizations
          /\ users[errand[h].email] =
                [org |-> errand[h].org, password |-> errand[h].password]
      BY <2>3, AccountsParts DEF ErrandFits, Busy
    <3>2. /\ errand'[h].pc = "created"
          /\ errand'[h].email = errand[h].email
          /\ errand'[h].password = errand[h].password
          /\ errand'[h].org = errand[h].org
      BY <1>t, <2>1, <2>3 DEF Proceed, Errand
    <3>3. /\ keyed' = keyed \cup {errand[h].org}
          /\ users' = users
          /\ organizations' = organizations
      BY <1>5 DEF MintRootKey
    <3>4. ErrandFits(h)'
      BY <3>1, <3>2, <3>3 DEF ErrandFits
    <3> QED
      BY <2>2, <3>4
  <2>4. CASE Busy(h, "login_key") /\ Proceed(h, "login")
    <3>1. errand[h].org \in Owned
      BY <2>4, ActsForOwner DEF Busy
    <3>2. errand'[h].pc = "login" /\ errand'[h].org = errand[h].org
      BY <1>t, <2>1, <2>4 DEF Proceed, Errand
    <3> QED
      BY <1>n, <2>2, <3>1, <3>2, OwnerFits
  <2> QED
    BY <1>5, <2>3, <2>4 DEF MintRootKey
<1>6. ASSUME NEW h \in Callers,
             SignupDone(h) \/ LoginDone(h) \/ SiteDone(h) \/ BreakOff(h)
      PROVE  Fits(h)
  <2>1. Leave(h)
    BY <1>6 DEF SignupDone, LoginDone, SiteDone, BreakOff
  <2> QED
    BY <1>t, <2>1, IdleFits DEF Leave
<1>7. ASSUME NEW h \in Callers, NEW o \in OrgIds, NEW s \in SiteIds,
             CreateSite(h, o, s) \/ UpdateSite(h, o, s)
      PROVE  Fits(h)
  <2>1. o \in Owned
    BY <1>7, AccountsParts DEF CreateSite, UpdateSite, NothingInShells
  <2>2. /\ errand'[h].pc = "site"
        /\ errand'[h].org = o
        /\ \A k \in Callers \ {h} : errand'[k] = errand[k]
    BY <1>7, <1>t DEF CreateSite, UpdateSite, NoErrand
  <2> QED
    BY <1>n, <2>1, <2>2, OwnerFits
<1> QED
  BY <1>1, <1>2, <1>3, <1>4, <1>5, <1>6, <1>7 DEF AccountsNext

LEMMA ErrandsStep ==
    ASSUME AccountsInv, [AccountsNext]_accountVars
    PROVE  \A h \in Callers : ErrandFits(h)'
<1>1. CASE AccountsNext
  BY <1>1, ActorFits, OthersKeep
<1>2. CASE UNCHANGED accountVars
  BY <1>2, OthersKeep DEF accountVars
<1> QED
  BY <1>1, <1>2

-----------------------------------------------------------------------------
(* The invariant, and what it gives.                                       *)

LEMMA AccountsStart == AccountsInit => AccountsInv
<1> SUFFICES ASSUME AccountsInit
             PROVE  AccountsInv
  OBVIOUS
<1>1. AccountsTypeOK
  BY AccountTypesInit
<1>2. UsersApart
  BY DEF AccountsInit, UsersApart
<1>3. \A h \in Callers : ErrandFits(h)
  BY DEF AccountsInit, ErrandFits, NoErrand
<1>4. WelcomesHold
  BY DEF AccountsInit, WelcomesHold
<1>5. NothingInShells
  BY DEF AccountsInit, NothingInShells, NoSite
<1> QED
  BY <1>1, <1>2, <1>3, <1>4, <1>5 DEF AccountsInv

LEMMA AccountsHold == AccountsSpec => []AccountsInv
<1>1. AccountsInv /\ [AccountsNext]_accountVars => AccountsInv'
  BY AccountTypesStep, UsersApartStep, ErrandsStep, WelcomesStep, ShellsStep DEF AccountsInv
<1> QED
  BY <1>1, AccountsStart, PTL DEF AccountsSpec

\* Whatever handlers overlap, fail or die at any statement, the tables and
\* the handlers' variables (routes/auth.ts, routes/sites.ts) keep their types.
THEOREM AccountsTypeCorrect == AccountsSpec => []AccountsTypeOK
  BY AccountsHold, PTL DEF AccountsInv

\* Two users share neither an address nor an organization, so that two
\* answered sign-ups of routes/auth.ts were told different things.
LEMMA WelcomesApart ==
    ASSUME AccountsInv, NEW w \in welcomed, NEW x \in welcomed,
           w.email = x.email \/ w.org = x.org
    PROVE  w = x
<1>1. /\ w \in Welcome /\ x \in Welcome
      /\ users[w.email] = [org |-> w.org, password |-> w.password]
      /\ users[x.email] = [org |-> x.org, password |-> x.password]
  BY AccountsParts DEF AccountsTypeOK, WelcomesHold
<1>2. w.email = x.email
  <2>1. users[w.email] # NoUser /\ users[w.email].org = w.org /\ users[x.email].org = x.org
    BY <1>1, UserHasOrg, AccountsParts DEF Welcome
  <2> QED
    BY <1>1, <2>1, AccountsParts DEF Welcome, UsersApart
<1>3. w.org = x.org /\ w.password = x.password
  <2>1. [org |-> w.org, password |-> w.password] = [org |-> x.org, password |-> x.password]
    BY <1>1, <1>2
  <2> QED
    BY <2>1
<1> QED
  BY <1>1, <1>2, <1>3 DEF Welcome

\* Every sign-up that routes/auth.ts answered with 201 can be used: the user
\* row it was told of is there and stays, whatever faster or broken sign-ups
\* for the same address do.
THEOREM WelcomedLogIn == AccountsSpec => []WelcomedCanLogIn
<1>1. AccountsInv => WelcomedCanLogIn
  BY AccountsParts, WelcomesApart DEF WelcomesHold, WelcomedCanLogIn
<1> QED
  BY <1>1, AccountsHold, PTL

\* The organizations that the sign-up handler leaves behind half way carry
\* nothing: whatever has a key, a site or an audit event has a user.
THEOREM ShellsEmpty == AccountsSpec => []ShellsStayEmpty
<1>1. AccountsInv => ShellsStayEmpty
  BY AccountsParts DEF NothingInShells, Owned, ShellsStayEmpty
<1> QED
  BY <1>1, AccountsHold, PTL

=============================================================================

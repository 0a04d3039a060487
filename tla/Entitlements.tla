---------------------------- MODULE Entitlements ----------------------------
(***************************************************************************)
(* Billing (apps/api/src/lib/billing.ts, routes/billing.ts): the events of *)
(* Paddle become entitlements, and licences open the gated downloads.      *)
(*                                                                         *)
(* Paddle delivers an event at least once and in no particular order.      *)
(* applyPaddleEvent looks for the row and then updates or inserts it, two  *)
(* statements with no unique index behind them.  Period ends are left out: *)
(* they are stored and never read.                                         *)
(***************************************************************************)
EXTENDS Naturals, Sequences

CONSTANTS
    PaddleEvents,     \* events that Paddle may send
    Absent,           \* a customer, plan, subscription or owner not given
    Deliveries,       \* webhook requests that may be in progress
    LicenceKeys,      \* raw keys, of issued licences or made up
    MaxEntitlements   \* bound on entitlement rows

PaddleKinds == {"completed", "activated", "resumed", "canceled", "past_due"}

ASSUME BillingAssumption ==
    /\ MaxEntitlements \in Nat
    /\ \A e \in PaddleEvents :
          /\ e.kind \in PaddleKinds \cup {"other"}
          /\ DOMAIN e = {"kind", "id", "customer", "item", "custom", "owner"}
    /\ Absent \notin PaddleEvents

VARIABLES
    entitlements,  \* the rows in the order of insertion
    delivery,      \* per request: the event, the row found for it, and, as
                   \* history, how many rows there were at that time
    seen,          \* relevant events that arrived with a valid signature
    licences,      \* keys of the licences issued
    downloads      \* keys a download was served for

billingVars == <<entitlements, delivery, seen, licences, downloads>>

NoDelivery == [event |-> Absent, found |-> 0, rows |-> 0]

Entitlement ==
    [owner : {e.owner : e \in PaddleEvents},
     customer : {e.customer : e \in PaddleEvents},
     plan : {e.item : e \in PaddleEvents} \cup {e.custom : e \in PaddleEvents},
     subscription : {e.id : e \in PaddleEvents} \cup {Absent},
     status : {"active", "canceled", "past_due"}]

\* The type invariant of billing.
BillingTypeOK ==
    /\ entitlements \in Seq(Entitlement)
    /\ delivery \in [Deliveries -> [event : PaddleEvents, found : Nat, rows : Nat]
                                  \cup {NoDelivery}]
    /\ seen \subseteq PaddleEvents
    /\ licences \subseteq LicenceKeys
    /\ downloads \subseteq LicenceKeys

BillingInit ==
    /\ entitlements = <<>>
    /\ delivery = [d \in Deliveries |-> NoDelivery]
    /\ seen = {}
    /\ licences = {}
    /\ downloads = {}

-----------------------------------------------------------------------------
(* The webhook.                                                            *)

\* Mutant: a signature header is enough.
AuthenticIfSigned(configured, sigs) == configured /\ sigs # {}

\* One of the signatures in the header verifies.
Authentic(configured, sigs) == configured /\ "valid" \in sigs

PlanOf(e) == IF e.item # Absent THEN e.item ELSE e.custom

Relevant(e) ==
    e.kind \in PaddleKinds /\ e.customer # Absent /\ PlanOf(e) # Absent

\* The id of an event is its subscription's unless it is a transaction.
SubscriptionOf(e) == IF e.kind = "completed" THEN Absent ELSE e.id

StatusAfter(e) ==
    IF e.kind \in {"canceled", "past_due"} THEN e.kind ELSE "active"

\* Mutant: rows that are not active are passed over.
MatchesActive(e, row) ==
    /\ row.status = "active"
    /\ IF SubscriptionOf(e) # Absent THEN row.subscription = SubscriptionOf(e)
       ELSE row.customer = e.customer /\ row.plan = PlanOf(e)

\* The row an event is about: its subscription's, or for a transaction one
\* of the customer for the plan, whatever it came from.
Matches(e, row) ==
    IF SubscriptionOf(e) # Absent THEN row.subscription = SubscriptionOf(e)
    ELSE row.customer = e.customer /\ row.plan = PlanOf(e)

\* The handler up to its select.
Receive(d, e, configured, sigs) ==
    /\ delivery[d] = NoDelivery
    /\ Authentic(configured, sigs)
    /\ seen' = seen \cup IF Relevant(e) /\ "valid" \in sigs THEN {e} ELSE {}
    /\ IF Relevant(e)
       THEN LET fit == {i \in DOMAIN entitlements : Matches(e, entitlements[i])}
            IN \E i \in IF fit = {} THEN {0} ELSE fit :
                  delivery' = [delivery EXCEPT ![d] =
                      [event |-> e, found |-> i, rows |-> Len(entitlements)]]
       ELSE UNCHANGED delivery
    /\ UNCHANGED <<entitlements, licences, downloads>>

NewEntitlement(e) ==
    [owner |-> e.owner, customer |-> e.customer, plan |-> PlanOf(e),
     subscription |-> SubscriptionOf(e), status |-> StatusAfter(e)]

\* The update of the row found, by its id, or the insert.
ApplyEvent(d) ==
    LET e == delivery[d].event
        i == delivery[d].found
    IN /\ delivery[d] # NoDelivery
       /\ IF i # 0
          THEN entitlements' = [entitlements EXCEPT ![i].status = StatusAfter(e)]
          ELSE /\ Len(entitlements) < MaxEntitlements
               /\ entitlements' = Append(entitlements, NewEntitlement(e))
       /\ delivery' = [delivery EXCEPT ![d] = NoDelivery]
       /\ UNCHANGED <<seen, licences, downloads>>

\* The process stops between the two; Paddle will deliver again.
DropDelivery(d) ==
    /\ delivery[d] # NoDelivery
    /\ delivery' = [delivery EXCEPT ![d] = NoDelivery]
    /\ UNCHANGED <<entitlements, seen, licences, downloads>>

-----------------------------------------------------------------------------
(* Licences.  No code revokes one or gives it an end.                      *)

IssueLicence(k) ==
    /\ k \notin licences
    /\ licences' = licences \cup {k}
    /\ UNCHANGED <<entitlements, delivery, seen, downloads>>

VerifyLicence(k) == k \in licences

Download(k) ==
    /\ VerifyLicence(k)
    /\ downloads' = downloads \cup {k}
    /\ UNCHANGED <<entitlements, delivery, seen, licences>>

BillingNext ==
    \/ \E d \in Deliveries, e \in PaddleEvents, configured \in BOOLEAN,
          sigs \in SUBSET {"valid", "invalid"} : Receive(d, e, configured, sigs)
    \/ \E d \in Deliveries : ApplyEvent(d) \/ DropDelivery(d)
    \/ \E k \in LicenceKeys : IssueLicence(k) \/ Download(k)

BillingSpec == BillingInit /\ [][BillingNext]_billingVars

-----------------------------------------------------------------------------
(* Properties.                                                             *)

SameSale(e, row) ==
    \/ SubscriptionOf(e) # Absent /\ SubscriptionOf(e) = row.subscription
    \/ SubscriptionOf(e) = Absent /\ e.customer = row.customer /\ PlanOf(e) = row.plan

\* No row says anything that no authentic event about it says: whatever was
\* repeated, reordered, forged or cut short, an entitlement has the status
\* of some event that Paddle signed, and it belongs to the organization
\* named by one.
EntitlementsAreEarned ==
    \A i \in DOMAIN entitlements :
        LET row == entitlements[i]
        IN /\ \E e \in seen : SameSale(e, row) /\ StatusAfter(e) = row.status
           /\ \E e \in seen : SameSale(e, row) /\ e.owner = row.owner

\* No subscription has two rows, nor does a customer buy a plan twice.
OneRowPerSale ==
    \A i, j \in DOMAIN entitlements :
        LET r == entitlements[i]
            s == entitlements[j]
        IN (/\ r.subscription = s.subscription
            /\ r.subscription = Absent => r.customer = s.customer /\ r.plan = s.plan)
           => i = j

\* A request looked for its row, found none, and meanwhile another one has
\* inserted it.
Overtaken(d) ==
    /\ delivery[d] # NoDelivery
    /\ \E i \in delivery[d].rows + 1 .. Len(entitlements) :
          SameSale(delivery[d].event, entitlements[i])

\* Without a unique index the rows stay one per sale as long as deliveries of
\* one sale do not overlap: only a request that looked before another one
\* inserted makes a second row.
TwinRowsNeedOverlap ==
    [][OneRowPerSale /\ (\A d \in Deliveries : ~Overtaken(d))
           => OneRowPerSale']_billingVars

=============================================================================

----------------------------- MODULE StatusCard -----------------------------
(***************************************************************************)
(* The status card that the front desk sees of a customer: statusCard of   *)
(* packages/customers/src/checkin.ts, for a search and after a check-in.   *)
(*                                                                         *)
(* A card is put together from one read after the other while documents    *)
(* are filed and voided, versions are published, the customer and the      *)
(* validity of documents are edited and the day ends.  It writes nothing,  *)
(* so that one card being made, of one customer with documents of one      *)
(* template, stands for them all.  The guardian of a document and the flag *)
(* of a version are fixed.                                                 *)
(***************************************************************************)
EXTENDS Integers, Sequences

CONSTANTS
    MaxDay,       \* bound on the days that pass
    Birthdays,    \* days on which the customer may come of age
    MaxWaivers,   \* bound on the customer's documents
    MaxEditions,  \* bound on the template's published versions
    ValidDays,    \* numbers default_validity_days may be set to
    Unlimited     \* its null

ASSUME CardAssumption ==
    /\ {MaxDay, MaxWaivers, MaxEditions} \subseteq Nat
    /\ ValidDays \subseteq Int
    /\ Unlimited \notin ValidDays
    /\ Birthdays \subseteq Nat \ {0}

VARIABLES
    day,       \* today
    dob,       \* the day the customer comes of age, or Unknown
    waivers,   \* the customer's documents
    editions,  \* per published version: does it require re-consent
    validity,  \* the template's default_validity_days
    card       \* the card being made

cardVars == <<day, dob, waivers, editions, validity, card>>

Unknown == 0
NoWaiver == 0

NoCard == [pc |-> "none", now |-> 0, age |-> "unknown", waiver |-> NoWaiver,
           status |-> "missing", filed |-> {}, voided |-> {}, edition |-> 0,
           terms |-> {}]

\* The type invariant of a card and what it is made from.
CardTypeOK ==
    /\ day \in Nat
    /\ dob \in Birthdays \cup {Unknown}
    /\ waivers \in Seq([version : Nat, signed : Nat, guardian : BOOLEAN, void : BOOLEAN])
    /\ editions \in Seq(BOOLEAN)
    /\ validity \in ValidDays \cup {Unlimited}
    /\ card \in [pc : {"none", "waiver", "template", "card"}, now : Nat,
                 age : {"unknown", "minor", "adult"}, waiver : Nat,
                 status : {"missing", "expired", "reconsent_required", "current"},
                 filed : SUBSET Nat, voided : SUBSET Nat, edition : Nat,
                 terms : SUBSET (ValidDays \cup {Unlimited})]

CardInit ==
    /\ day = 1
    /\ dob \in Birthdays
    /\ waivers = <<>>
    /\ editions = <<>>
    /\ validity = Unlimited
    /\ card = NoCard

Completed == {i \in DOMAIN waivers : ~waivers[i].void}
Current == Len(editions)

-----------------------------------------------------------------------------
(* The world around the desk.                                              *)

NightFalls ==
    /\ day < MaxDay
    /\ day' = day + 1
    /\ UNCHANGED <<dob, waivers, editions, validity, card>>

\* An edit, or an import whose line has no date.
EditBirthday(d) ==
    /\ dob' = d
    /\ UNCHANGED <<day, waivers, editions, validity, card>>

\* A document is filed, of any version and signed at any time so far.  Bound:
\* only the first may lack a guardian's signature.
FileWaiver(v, signed, guardian) ==
    /\ Len(waivers) < MaxWaivers
    /\ guardian \/ waivers = <<>>
    /\ v \in DOMAIN editions
    /\ signed <= day
    /\ waivers' = Append(waivers, [version |-> v, signed |-> signed,
                                   guardian |-> guardian, void |-> FALSE])
    /\ UNCHANGED <<day, dob, editions, validity, card>>

VoidWaiver(i) ==
    /\ i \in Completed
    /\ waivers' = [waivers EXCEPT ![i].void = TRUE]
    /\ UNCHANGED <<day, dob, editions, validity, card>>

PublishEdition(reconsent) ==
    /\ Current < MaxEditions
    /\ editions' = Append(editions, reconsent)
    /\ UNCHANGED <<day, dob, waivers, validity, card>>

\* PATCH /v1/templates/:id.  A card being made remembers, for the properties,
\* what has been in force since it was begun.
SetValidity(v) ==
    /\ validity' = v
    /\ card' = IF card.pc = "none" THEN card ELSE [card EXCEPT !.terms = @ \cup {v}]
    /\ UNCHANGED <<day, dob, waivers, editions>>

-----------------------------------------------------------------------------
(* statusCard.                                                             *)

Age(d, today) ==
    IF d = Unknown THEN "unknown" ELSE IF today < d THEN "minor" ELSE "adult"

\* The customer is read and the clock is looked at.  What the card could
\* know by then is kept for the properties.
CardCustomer ==
    /\ card.pc = "none"
    /\ card' = [NoCard EXCEPT !.pc = "waiver", !.now = day, !.age = Age(dob, day),
           !.filed = Completed, !.voided = DOMAIN waivers \ Completed,
           !.edition = Current, !.terms = {validity}]
    /\ UNCHANGED <<day, dob, waivers, editions, validity>>

LastSigned(docs) ==
    {i \in docs : \A j \in docs : waivers[j].signed <= waivers[i].signed}

\* Mutant: void documents count as well.
LatestEvenVoid ==
    IF waivers = <<>> THEN {NoWaiver} ELSE LastSigned(DOMAIN waivers)

\* The completed document signed last, one of them if there is a tie.
Latest == IF Completed = {} THEN {NoWaiver} ELSE LastSigned(Completed)

CardWaiver ==
    /\ card.pc = "waiver"
    /\ \E i \in Latest :
          card' = [card EXCEPT !.waiver = i,
                      !.pc = IF i = NoWaiver THEN "card" ELSE "template"]
    /\ UNCHANGED <<day, dob, waivers, editions, validity>>

\* The signing date plus the validity of today's template: the document's
\* own expires_at is null, as finalize leaves it.
Expired(i, today, valid) ==
    valid # Unlimited /\ waivers[i].signed + valid <= today

\* Only the flag of the current version asks for a new signature.
Reconsent(i) == Current # waivers[i].version /\ editions[Current]

\* The template and its current version.
CardTemplate ==
    LET i == card.waiver
    IN /\ card.pc = "template"
       /\ card' = [card EXCEPT !.pc = "card", !.status =
              IF Expired(i, card.now, validity) THEN "expired"
              ELSE IF Reconsent(i) THEN "reconsent_required" ELSE "current"]
       /\ UNCHANGED <<day, dob, waivers, editions, validity>>

\* attention_flags.
Flags ==
    {f \in {"age_unknown", "waiver_missing", "waiver_expired",
            "reconsent_required", "guardian_missing"} :
        \/ f = "age_unknown" /\ card.age = "unknown"
        \/ f = "waiver_missing" /\ card.waiver = NoWaiver
        \/ f = "waiver_expired" /\ card.status = "expired"
        \/ f = "reconsent_required" /\ card.status = "reconsent_required"
        \/ /\ f = "guardian_missing"
           /\ card.age = "minor"
           /\ card.waiver # NoWaiver
           /\ ~waivers[card.waiver].guardian}

\* The answer has been read, or the handler failed.
PutAway ==
    /\ card.pc # "none"
    /\ card' = NoCard
    /\ UNCHANGED <<day, dob, waivers, editions, validity>>

CardNext ==
    \/ NightFalls
    \/ \E d \in Birthdays \cup {Unknown} : EditBirthday(d)
    \/ \E v \in 1 .. MaxEditions, signed \in 1 .. MaxDay, guardian \in BOOLEAN :
          FileWaiver(v, signed, guardian)
    \/ \E i \in 1 .. MaxWaivers : VoidWaiver(i)
    \/ \E reconsent \in BOOLEAN : PublishEdition(reconsent)
    \/ \E v \in ValidDays \cup {Unlimited} : SetValidity(v)
    \/ CardCustomer
    \/ CardWaiver
    \/ CardTemplate
    \/ PutAway

CardSpec == CardInit /\ [][CardNext]_cardVars

-----------------------------------------------------------------------------
(* Properties.                                                             *)

\* A card is at least as new as the request for it: it neither names a
\* document that was void before, nor overlooks a later one that was there
\* before and still is, and it says "current" only of a document that holds
\* that day, by a validity that was in force meanwhile, and that the version
\* current by then did not ask to renew, unless yet another version was
\* published meanwhile.
CardIsFresh ==
    card.pc = "card" =>
        /\ card.waiver \notin card.voided
        /\ \A i \in card.filed \cap Completed :
              card.waiver # NoWaiver /\ waivers[i].signed <= waivers[card.waiver].signed
        /\ card.status = "current" =>
              /\ \E v \in card.terms : ~Expired(card.waiver, card.now, v)
              /\ card.edition = Current /\ waivers[card.waiver].version # Current =>
                    ~editions[Current]

\* What makes staff turn a customer away is true when they read it, but for a
\* validity extended since the request, and no card is without a flag if the
\* customer is a minor without a guardian's signature or of unknown age, even
\* while the date of birth is edited away.
CardIsJustified ==
    card.pc = "card" =>
        /\ card.status = "expired" =>
              \E v \in card.terms : Expired(card.waiver, day, v)
        /\ card.status = "reconsent_required" => \E v \in DOMAIN editions :
              v # waivers[card.waiver].version /\ editions[v]
        /\ Flags = {} => \/ card.age = "adult"
                         \/ card.age = "minor" /\ waivers[card.waiver].guardian

\* Both.
CardsCanBeTrusted == CardIsFresh /\ CardIsJustified
=============================================================================

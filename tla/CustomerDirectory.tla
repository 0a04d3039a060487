------------------------- MODULE CustomerDirectory -------------------------
(***************************************************************************)
(* Customers: the repository (packages/customers/src/customers.ts) and its *)
(* routes (apps/api/src/routes/customers.ts).                              *)
(*                                                                         *)
(* A listing is walked page by page, newest first, with the last id as the *)
(* cursor, while customers are added with whatever time their server's     *)
(* clock shows.  Rows are never deleted.  Of the contact data only the     *)
(* normalized address is kept, which is what imports look for.             *)
(***************************************************************************)
EXTENDS Naturals, FiniteSets

CONSTANTS
    People,       \* ids of customers, in the order of their text
    Moments,      \* values of created_at
    Addresses,    \* e-mail addresses as written
    Normalized,   \* trimmed and in lower case, or NoAddress
    NoAddress,    \* missing, or not an address
    PageLimit,    \* customers on a page
    Relatable     \* pairs of customers that may be related

ASSUME DirectoryAssumption ==
    /\ People \cup Moments \subseteq Nat
    /\ IsFiniteSet(People)
    /\ DOMAIN Normalized = Addresses
    /\ PageLimit \in Nat \ {0}
    /\ Relatable \subseteq People \X People

VARIABLES
    people,    \* the customers table
    related,   \* the customer_relationships table
    walk       \* the listing being walked

directoryVars == <<people, related, walk>>

Nowhere == [there |-> FALSE, address |-> NoAddress, at |-> 0]
NoWalk == [pc |-> "start", after |-> {}, seen |-> [p \in People |-> 0], before |-> {}]

\* The type invariant of the directory.
DirectoryTypeOK ==
    /\ people \in [People -> [there : BOOLEAN, at : Moments \cup {0},
                             address : {Normalized[a] : a \in Addresses} \cup {NoAddress}]]
    /\ related \subseteq Relatable
    /\ walk \in [pc : {"start", "more", "end"}, after : SUBSET People,
                 seen : [People -> Nat], before : SUBSET People]

DirectoryInit ==
    /\ people = [p \in People |-> Nowhere]
    /\ related = {}
    /\ walk = NoWalk

Known == {p \in People : people[p].there}

-----------------------------------------------------------------------------
(* Creating, changing and relating customers.                              *)

\* POST never looks for the address.
CreateCustomer(p, a, at) ==
    /\ p \notin Known
    /\ people' = [people EXCEPT ![p] =
           [there |-> TRUE, address |-> Normalized[a], at |-> at]]
    /\ UNCHANGED <<related, walk>>

UpdateCustomer(p, a) ==
    /\ p \in Known
    /\ people' = [people EXCEPT ![p].address = Normalized[a]]
    /\ UNCHANGED <<related, walk>>

\* Both have to be there; the pair is unique.
Relate(p, q) ==
    /\ {p, q} \subseteq Known
    /\ <<p, q>> \notin related
    /\ related' = related \cup {<<p, q>>}
    /\ UNCHANGED <<people, walk>>

Unrelate(p, q) ==
    /\ <<p, q>> \in related
    /\ related' = related \ {<<p, q>>}
    /\ UNCHANGED <<people, walk>>

-----------------------------------------------------------------------------
(* The listing.                                                            *)

\* Mutant: the cursor is a time.
OlderByTime(p, q) == people[p].at < people[q].at

\* p comes after q in the listing.
Older(p, q) ==
    \/ people[p].at < people[q].at
    \/ people[p].at = people[q].at /\ p < q

\* What is left behind the cursor, and the page cut off from it.
Behind(after) == {p \in Known : \A q \in after : Older(p, q)}

PageOf(rest) == {p \in rest : Cardinality({q \in rest : Older(p, q)}) < PageLimit}

WalkPage ==
    LET rest == Behind(walk.after)
        page == PageOf(rest)
    IN /\ walk.pc \in {"start", "more"}
       /\ walk' = [pc |-> IF rest = page THEN "end" ELSE "more",
                   after |-> {p \in page : \A q \in page : p = q \/ Older(p, q)},
                   seen |-> [p \in People |->
                                walk.seen[p] + IF p \in page THEN 1 ELSE 0],
                   before |-> IF walk.pc = "start" THEN Known ELSE walk.before]
       /\ UNCHANGED <<people, related>>

LeaveWalk ==
    /\ walk.pc # "start"
    /\ walk' = NoWalk
    /\ UNCHANGED <<people, related>>

DirectoryNext ==
    \/ \E p \in People, a \in Addresses, at \in Moments : CreateCustomer(p, a, at)
    \/ \E p \in People, a \in Addresses : UpdateCustomer(p, a)
    \/ \E r \in Relatable : Relate(r[1], r[2]) \/ Unrelate(r[1], r[2])
    \/ WalkPage
    \/ LeaveWalk

DirectorySpec == DirectoryInit /\ [][DirectoryNext]_directoryVars

-----------------------------------------------------------------------------
(* Properties.                                                             *)

\* Walking all pages shows everybody who was there at the start exactly
\* once, and nobody twice, whoever is added meanwhile and whatever times
\* and ids collide.
PagesAreExact ==
    /\ \A p \in People : walk.seen[p] <= 1
    /\ walk.pc = "end" => \A p \in walk.before : walk.seen[p] = 1

=============================================================================

----------------------------- MODULE AuditVerify -----------------------------
(***************************************************************************)
(* verifyAuditChain (packages/audit/src/audit.ts): the walk over an        *)
(* organization's events that reports the first break.                     *)
(***************************************************************************)
EXTENDS AuditChain, FiniteSets, Functions

\* ORDER BY sequence ASC: rows with the same sequence in either order.
Orders(o) ==
    {q \in Bijection(1 .. Cardinality(Rows(o)), Rows(o)) :
        \A m, n \in DOMAIN q :
            m < n => events[q[m]].sequence <= events[q[n]].sequence}

\* The previous hash the loop carries into turn n.  The sequence number it
\* expects there is n.
Carried(q, n) == IF n = 1 THEN Genesis ELSE events[q[n - 1]].hash

\* Mutant: the hash of the event is not recomputed.
FindingUnhashed(q, n) ==
    LET e == events[q[n]]
    IN  IF e.sequence # n THEN "sequence_gap"
        ELSE IF e.previous # Carried(q, n) THEN "previous_hash_mismatch"
        ELSE "valid"

\* Turn n of the loop: what it finds wrong with the event, checks in order.
Finding(q, n) ==
    LET e == events[q[n]]
    IN  IF e.sequence # n THEN "sequence_gap"
        ELSE IF e.previous # Carried(q, n) THEN "previous_hash_mismatch"
        ELSE IF ChainHash(Carried(q, n), e.sequence, e.payload) # e.hash
             THEN "event_hash_mismatch"
        ELSE "valid"

Broken(q) == {n \in DOMAIN q : Finding(q, n) # "valid"}

\* The walk returns at the first turn that finds something.
Verdict(q) ==
    IF Broken(q) = {} THEN "valid"
    ELSE Finding(q, CHOOSE n \in Broken(q) : \A m \in Broken(q) : n <= m)

\* The walk calls a chain valid exactly when its sequence numbers are
\* distinct and every row carries the hash of what it says: it misses no fork
\* and no edited payload, and it rejects no chain for anything else.
VerdictIsExact ==
    \A o \in Orgs : \A q \in Orders(o) :
        (Verdict(q) = "valid") <=> Unforked(o) /\ \A i \in Rows(o) : Consistent(i)

\* The break it names is the kind of break there is: an edited payload in a
\* chain without forks is reported as such.
VerdictNamesTheBreak ==
    \A o \in Orgs : \A q \in Orders(o) :
        /\ Verdict(q) # "previous_hash_mismatch"
        /\ Unforked(o) /\ (\E i \in Rows(o) : ~Consistent(i))
              => Verdict(q) = "event_hash_mismatch"

\* Both: the verdict and the reason given for it, whichever order the
\* database lists rows of the same sequence number in.
VerdictIsJust == VerdictIsExact /\ VerdictNamesTheBreak
=============================================================================

--------------------------- MODULE SigningSerial ---------------------------
(***************************************************************************)
(* SigningSession when handlers do not overlap: every request and every    *)
(* sweep runs to its end, or dies, before the next one starts.  Under that *)
(* schedule the service keeps the promise of SigningLifecycle; the runs of *)
(* SigningSession itself say what is left of it when handlers interleave.  *)
(***************************************************************************)
EXTENDS SigningSession

\* There are finitely many handlers, so that those at work can be counted.
ASSUME SerialAssumption == IsFiniteSet(Slots) /\ IsFiniteSet(Sweepers)

BusySlots == {r \in Slots : ~At(r, "idle")}
BusySweepers == {w \in Sweepers : batch[w] # NoBatch}

OneAtATime == Cardinality(BusySlots) + Cardinality(BusySweepers) <= 1

SerialNext == Next /\ OneAtATime'

SerialSpec == Init /\ [][SerialNext]_vars

Lifecycle == INSTANCE SigningLifecycle WITH
    phase <- status,
    needed <- [s \in Sessions |-> Required(s)],
    signed <- [s \in Sessions |-> Signed(s)],
    linkDead <- revoked

\* Run one after the other, the handlers implement the lifecycle: a status is
\* never skipped backwards, nothing is submitted unsigned, and a session that
\* was submitted can no longer be withdrawn.
ImplementsLifecycle == Lifecycle!Spec
=============================================================================

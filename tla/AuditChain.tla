----------------------------- MODULE AuditChain -----------------------------
(***************************************************************************)
(* AuditService.record (packages/audit/src/audit.ts) as concurrent calls   *)
(* over one audit_events table.                                            *)
(*                                                                         *)
(* record reads the head of its organization's chain, computes the next    *)
(* sequence number and the event hash from that copy, and inserts.  The    *)
(* index on (organization_id, sequence) is not unique, so nothing stops    *)
(* two calls from inserting after the same head.                           *)
(*                                                                         *)
(* SHA-256 is taken to be injective: a hash is the list of what has been   *)
(* hashed, chainEventHash appends to it, and "genesis" is the empty list.  *)
(***************************************************************************)
EXTENDS Naturals, Sequences

CONSTANTS
    Orgs,       \* organizations
    NoOrg,      \* the organization of a row that is not inserted yet
    Payloads,   \* canonical payloads, without the sequence number
    Recorders,  \* calls of record that may be in progress
    MaxEvents   \* bound on rows

ASSUME AuditAssumption ==
    /\ NoOrg \notin Orgs
    /\ MaxEvents \in Nat

VARIABLES
    events,    \* audit_events by row id, in the order of insertion
    call,      \* per recorder: the event it is about to insert
    tampered   \* somebody has changed a row behind the service's back

auditVars == <<events, call, tampered>>

Ids == 1 .. MaxEvents

Event == [sequence : Nat, payload : Payloads]
Hash == Seq(Event)

Genesis == <<>>

\* chainEventHash(previous_hash, canonical event).
ChainHash(previous, sequence, payload) ==
    Append(previous, [sequence |-> sequence, payload |-> payload])

Row == [org : Orgs, sequence : Nat, previous : Hash, payload : Payloads,
        hash : Hash]
NoRow == [org |-> NoOrg]

IdleCall == [pc |-> "idle"]
Call == [pc : {"insert"}, org : Orgs, sequence : Nat, previous : Hash,
         payload : Payloads]

\* The type invariant of the table and of the calls in progress.
AuditTypeOK ==
    /\ events \in [Ids -> Row \cup {NoRow}]
    /\ call \in [Recorders -> Call \cup {IdleCall}]
    /\ tampered \in BOOLEAN

AuditInit ==
    /\ events = [i \in Ids |-> NoRow]
    /\ call = [r \in Recorders |-> IdleCall]
    /\ tampered = FALSE

Rows(o) == {i \in Ids : events[i].org = o}

-----------------------------------------------------------------------------

\* Mutant: the head is looked up without the organization.
AnyHead(o, i) ==
    /\ events[i].org # NoOrg
    /\ \A j \in Ids : events[j].org # NoOrg
                         => events[j].sequence <= events[i].sequence

\* Row i may be what ORDER BY sequence DESC LIMIT 1 returns.
IsHead(o, i) ==
    /\ i \in Rows(o)
    /\ \A j \in Rows(o) : events[j].sequence <= events[i].sequence

\* Mutant: the sequence number is not advanced.
ReadHeadOnly(r) ==
    /\ call[r] = IdleCall
    /\ \E o \in Orgs, p \in Payloads :
          \/ /\ ~\E i \in Ids : IsHead(o, i)
             /\ call' = [call EXCEPT ![r] =
                           [pc |-> "insert", org |-> o, sequence |-> 1,
                            previous |-> Genesis, payload |-> p]]
          \/ \E i \in Ids :
                /\ IsHead(o, i)
                /\ call' = [call EXCEPT ![r] =
                              [pc |-> "insert", org |-> o,
                               sequence |-> events[i].sequence,
                               previous |-> events[i].hash, payload |-> p]]
    /\ UNCHANGED <<events, tampered>>

\* The head is read, sequence and previous hash are computed.
ReadHead(r) ==
    /\ call[r] = IdleCall
    /\ \E o \in Orgs, p \in Payloads :
          \/ /\ ~\E i \in Ids : IsHead(o, i)
             /\ call' = [call EXCEPT ![r] =
                           [pc |-> "insert", org |-> o, sequence |-> 1,
                            previous |-> Genesis, payload |-> p]]
          \/ \E i \in Ids :
                /\ IsHead(o, i)
                /\ call' = [call EXCEPT ![r] =
                              [pc |-> "insert", org |-> o,
                               sequence |-> events[i].sequence + 1,
                               previous |-> events[i].hash, payload |-> p]]
    /\ UNCHANGED <<events, tampered>>

\* The row the call inserts.
NewRow(c) == [org |-> c.org, sequence |-> c.sequence, previous |-> c.previous,
              payload |-> c.payload,
              hash |-> ChainHash(c.previous, c.sequence, c.payload)]

\* The next free id is the least one.
InsertEvent(r) ==
    /\ call[r] # IdleCall
    /\ \E i \in Ids :
          /\ events[i] = NoRow
          /\ \A j \in 1 .. i - 1 : events[j] # NoRow
          /\ events' = [events EXCEPT ![i] = NewRow(call[r])]
    /\ call' = [call EXCEPT ![r] = IdleCall]
    /\ UNCHANGED tampered

\* The caller dies before the insert.
RecordAborts(r) ==
    /\ call[r] # IdleCall
    /\ call' = [call EXCEPT ![r] = IdleCall]
    /\ UNCHANGED <<events, tampered>>

\* The stored payload of a row is changed and no hash recomputed, as the test
\* of verifyAuditChain does.
EditPayload(i) ==
    /\ ~tampered
    /\ events[i] # NoRow
    /\ \E p \in Payloads \ {events[i].payload} :
          events' = [events EXCEPT ![i].payload = p]
    /\ tampered' = TRUE
    /\ UNCHANGED call

AuditNext ==
    \/ \E r \in Recorders : ReadHead(r) \/ InsertEvent(r) \/ RecordAborts(r)
    \/ \E i \in Ids : EditPayload(i)

AuditSpec == AuditInit /\ [][AuditNext]_auditVars

-----------------------------------------------------------------------------
(* Properties.                                                             *)

\* Row i carries the hash of what it says.
Consistent(i) ==
    events[i].hash = ChainHash(events[i].previous, events[i].sequence,
                               events[i].payload)

\* Row i continues row j of its organization.
Continues(i, j) ==
    /\ events[j].org = events[i].org
    /\ events[i].sequence = events[j].sequence + 1
    /\ events[i].previous = events[j].hash

Starts(i) == events[i].sequence = 1 /\ events[i].previous = Genesis

\* However calls overlap, every event starts its organization's chain or
\* continues an event in it: a chain may fork, but no event floats free.
EveryEventIsLinked ==
    \A i \in Ids : events[i] # NoRow => \/ Starts(i)
                                        \/ \E j \in Ids : Continues(i, j)

\* Until somebody edits a row, every row carries the hash of what it says.
HashesAreTrue ==
    ~tampered => \A i \in Ids : events[i] # NoRow => Consistent(i)

\* Both: what verifyAuditChain may rely on in a table it has to judge.
ChainHangsTogether == EveryEventIsLinked /\ HashesAreTrue

\* No two events of the organization have the same sequence number.
Unforked(o) ==
    \A i, j \in Rows(o) : events[i].sequence = events[j].sequence => i = j

\* The calls in progress for o all hold the hash of its current head.
AllFresh(o) ==
    \A r \in Recorders :
        call[r] # IdleCall /\ call[r].org = o =>
            \/ Rows(o) = {} /\ call[r].previous = Genesis
            \/ \E i \in Ids : IsHead(o, i) /\ call[r].previous = events[i].hash

\* A chain forks only when a call inserts after a head that has moved on
\* since it was read.
ForksNeedStaleHeads ==
    [][\A o \in Orgs : Unforked(o) /\ AllFresh(o) => Unforked(o)']_auditVars
=============================================================================

-------------------------- MODULE AuditChain_proofs --------------------------
(***************************************************************************)
(* Proofs about AuditChain and the verifier of its chains, AuditVerify,    *)
(* for any number of organizations, payloads, concurrent calls and rows.   *)
(***************************************************************************)
EXTENDS AuditVerify, FiniteSetTheorems, WellFoundedInduction, TLAPS

Stored(i) == events[i] # NoRow

\* A row that belongs to an organization is there, and has a row's fields.
LEMMA RowsExist ==
    ASSUME AuditTypeOK, NEW i \in Ids
    PROVE  /\ Stored(i) => events[i] \in Row
           /\ Stored(i) <=> events[i].org # NoOrg
           /\ \A o \in Orgs : i \in Rows(o) => Stored(i)
  BY AuditAssumption DEF AuditTypeOK, Stored, Row, NoRow, Rows

LEMMA CallsHaveFields ==
    ASSUME AuditTypeOK, NEW r \in Recorders, call[r] # IdleCall
    PROVE  call[r] \in Call
  BY DEF AuditTypeOK

LEMMA ChainHashType ==
    ASSUME NEW previous \in Hash, NEW n \in Nat, NEW p \in Payloads
    PROVE  /\ ChainHash(previous, n, p) \in Hash
           /\ Len(ChainHash(previous, n, p)) = Len(previous) + 1
<1>1. [sequence |-> n, payload |-> p] \in Event
  BY DEF Event
<1> QED
  BY <1>1 DEF ChainHash, Hash

LEMMA NewRowType ==
    ASSUME NEW c \in Call
    PROVE  NewRow(c) \in Row /\ NewRow(c) # NoRow
<1>1. /\ c.org \in Orgs
      /\ c.sequence \in Nat
      /\ c.previous \in Hash
      /\ c.payload \in Payloads
  BY DEF Call
<1>2. ChainHash(c.previous, c.sequence, c.payload) \in Hash
  BY <1>1, ChainHashType
<1>3. NewRow(c) \in Row
  BY <1>1, <1>2 DEF NewRow, Row
<1>4. NewRow(c).org # NoRow.org
  BY <1>1, AuditAssumption DEF NewRow, NoRow
<1> QED
  BY <1>3, <1>4

-----------------------------------------------------------------------------
(* What each step does to the table and to the calls.                      *)

\* The new call starts the chain or continues a row that is there.
Grounded(c) ==
    \/ c.sequence = 1 /\ c.previous = Genesis
    \/ \E j \in Ids : /\ events[j].org = c.org
                      /\ c.sequence = events[j].sequence + 1
                      /\ c.previous = events[j].hash

LEMMA ReadHeadStep ==
    ASSUME AuditTypeOK, NEW r \in Recorders, ReadHead(r)
    PROVE  \E c \in Call : /\ Grounded(c)
                           /\ call' = [call EXCEPT ![r] = c]
<1>1. PICK o \in Orgs, p \in Payloads :
        \/ /\ ~\E i \in Ids : IsHead(o, i)
           /\ call' = [call EXCEPT ![r] =
                         [pc |-> "insert", org |-> o, sequence |-> 1,
                          previous |-> Genesis, payload |-> p]]
        \/ \E i \in Ids :
              /\ IsHead(o, i)
              /\ call' = [call EXCEPT ![r] =
                            [pc |-> "insert", org |-> o,
                             sequence |-> events[i].sequence + 1,
                             previous |-> events[i].hash, payload |-> p]]
  BY DEF ReadHead
<1>2. CASE call' = [call EXCEPT ![r] =
                      [pc |-> "insert", org |-> o, sequence |-> 1,
                       previous |-> Genesis, payload |-> p]]
  <2> DEFINE c == [pc |-> "insert", org |-> o, sequence |-> 1,
                   previous |-> Genesis, payload |-> p]
  <2>1. Genesis \in Hash
    BY DEF Genesis, Hash
  <2>2. c \in Call
    BY <2>1 DEF Call
  <2>3. Grounded(c)
    BY DEF Grounded
  <2> QED
    BY <1>2, <2>2, <2>3
<1>3. ASSUME NEW i \in Ids, IsHead(o, i),
             call' = [call EXCEPT ![r] =
                        [pc |-> "insert", org |-> o,
                         sequence |-> events[i].sequence + 1,
                         previous |-> events[i].hash, payload |-> p]]
      PROVE  \E c \in Call : Grounded(c) /\ call' = [call EXCEPT ![r] = c]
  <2> DEFINE c == [pc |-> "insert", org |-> o,
                   sequence |-> events[i].sequence + 1,
                   previous |-> events[i].hash, payload |-> p]
  <2>1. events[i].org = o /\ events[i] \in Row
    BY <1>3, RowsExist DEF IsHead, Rows
  <2>2. c \in Call
    BY <2>1 DEF Call, Row
  <2>3. Grounded(c)
    BY <2>1 DEF Grounded
  <2> QED
    BY <1>3, <2>2, <2>3
<1> QED
  BY <1>1, <1>2, <1>3

\* The type invariant holds of every interleaving of record and of an edit.
THEOREM AuditTypeCorrect == AuditSpec => []AuditTypeOK
<1>1. AuditInit => AuditTypeOK
  BY DEF AuditInit, AuditTypeOK
<1>2. AuditTypeOK /\ [AuditNext]_auditVars => AuditTypeOK'
  <2> SUFFICES ASSUME AuditTypeOK, [AuditNext]_auditVars
               PROVE  AuditTypeOK'
    OBVIOUS
  <2>1. ASSUME NEW r \in Recorders, ReadHead(r)
        PROVE  AuditTypeOK'
    BY <2>1, ReadHeadStep DEF ReadHead, AuditTypeOK
  <2>2. ASSUME NEW r \in Recorders, InsertEvent(r)
        PROVE  AuditTypeOK'
    <3>1. NewRow(call[r]) \in Row
      BY <2>2, CallsHaveFields, NewRowType DEF InsertEvent
    <3> QED
      BY <2>2, <3>1 DEF InsertEvent, AuditTypeOK
  <2>3. ASSUME NEW r \in Recorders, RecordAborts(r)
        PROVE  AuditTypeOK'
    BY <2>3 DEF RecordAborts, AuditTypeOK
  <2>4. ASSUME NEW i \in Ids, EditPayload(i)
        PROVE  AuditTypeOK'
    <3>1. events[i] \in Row
      BY <2>4, RowsExist DEF EditPayload, Stored
    <3>2. ASSUME NEW p \in Payloads
          PROVE  [events[i] EXCEPT !.payload = p] \in Row
      BY <3>1 DEF Row
    <3> QED
      BY <2>4, <3>2 DEF EditPayload, AuditTypeOK
  <2>5. CASE UNCHANGED auditVars
    BY <2>5 DEF auditVars, AuditTypeOK
  <2> QED
    BY <2>1, <2>2, <2>3, <2>4, <2>5 DEF AuditNext
<1> QED
  BY <1>1, <1>2, PTL DEF AuditSpec

\* A row that is there keeps everything but its payload.
LEMMA EventsStay ==
    ASSUME AuditTypeOK, [AuditNext]_auditVars, NEW i \in Ids, Stored(i)
    PROVE  /\ Stored(i)'
           /\ events'[i].org = events[i].org
           /\ events'[i].sequence = events[i].sequence
           /\ events'[i].previous = events[i].previous
           /\ events'[i].hash = events[i].hash
           /\ tampered' \/ events'[i].payload = events[i].payload
<1> events[i] \in Row
  BY RowsExist
<1>1. ASSUME NEW r \in Recorders, InsertEvent(r)
      PROVE  events'[i] = events[i]
  BY <1>1 DEF InsertEvent, Stored, AuditTypeOK
<1>2. ASSUME NEW j \in Ids, EditPayload(j)
      PROVE  /\ events'[i].org = events[i].org
             /\ events'[i].sequence = events[i].sequence
             /\ events'[i].previous = events[i].previous
             /\ events'[i].hash = events[i].hash
             /\ tampered'
  BY <1>2 DEF EditPayload, AuditTypeOK, Row
<1>3. \/ events'[i] = events[i]
      \/ \E j \in Ids : EditPayload(j)
  BY <1>1 DEF AuditNext, auditVars, ReadHead, RecordAborts
<1>4. events'[i].org = events[i].org
  BY <1>2, <1>3
<1>5. Stored(i)'
  BY <1>4, AuditAssumption DEF Stored, NoRow, Row
<1> QED
  BY <1>2, <1>3, <1>5

\* A row that was not there is the one a call inserts.
LEMMA RowsAppear ==
    ASSUME AuditTypeOK, [AuditNext]_auditVars, NEW i \in Ids, ~Stored(i), Stored(i)'
    PROVE  \E r \in Recorders : /\ InsertEvent(r)
                                /\ call[r] \in Call
                                /\ events'[i] = NewRow(call[r])
                                /\ \A j \in Ids \ {i} : events'[j] = events[j]
<1>1. ASSUME NEW r \in Recorders, InsertEvent(r)
      PROVE  /\ call[r] \in Call
             /\ events'[i] = NewRow(call[r])
             /\ \A j \in Ids \ {i} : events'[j] = events[j]
  <2>1. call[r] \in Call
    BY <1>1, CallsHaveFields DEF InsertEvent
  <2> QED
    BY <1>1, <2>1 DEF InsertEvent, Stored, AuditTypeOK
<1>2. ASSUME NEW j \in Ids, EditPayload(j)
      PROVE  FALSE
  BY <1>2 DEF EditPayload, Stored, AuditTypeOK
<1> QED
  BY <1>1, <1>2 DEF AuditNext, auditVars, ReadHead, RecordAborts, Stored

\* A call in progress was in progress before, or has just read the head.
LEMMA CallsAppear ==
    ASSUME AuditTypeOK, [AuditNext]_auditVars, NEW r \in Recorders, call'[r] # IdleCall
    PROVE  \/ call'[r] = call[r]
           \/ call'[r] \in Call /\ Grounded(call'[r]) /\ events' = events
<1>1. ASSUME NEW q \in Recorders, ReadHead(q)
      PROVE  \/ call'[r] = call[r]
             \/ call'[r] \in Call /\ Grounded(call'[r]) /\ events' = events
  BY <1>1, ReadHeadStep DEF ReadHead, AuditTypeOK
<1>2. ASSUME NEW q \in Recorders, InsertEvent(q) \/ RecordAborts(q)
      PROVE  call'[r] = call[r]
  BY <1>2 DEF InsertEvent, RecordAborts, AuditTypeOK
<1> QED
  BY <1>1, <1>2 DEF AuditNext, auditVars, EditPayload

-----------------------------------------------------------------------------
(* Every event is linked.                                                  *)
(*                                                                         *)
(* The property is inductive together with the fact that every call in     *)
(* progress holds a head that is, or was, a row of its chain: rows keep    *)
(* their place and their hash, so what was a head stays a row.             *)

LinkInv ==
    /\ EveryEventIsLinked
    /\ \A r \in Recorders : call[r] # IdleCall => Grounded(call[r])

LEMMA GroundedStays ==
    ASSUME AuditTypeOK, [AuditNext]_auditVars, NEW c \in Call, Grounded(c)
    PROVE  Grounded(c)'
<1>1. CASE c.sequence = 1 /\ c.previous = Genesis
  BY <1>1 DEF Grounded
<1>2. ASSUME NEW j \in Ids, events[j].org = c.org,
             c.sequence = events[j].sequence + 1, c.previous = events[j].hash
      PROVE  Grounded(c)'
  <2>1. c.org \in Orgs
    BY DEF Call
  <2>2. Stored(j)
    BY <1>2, <2>1, AuditAssumption, RowsExist
  <2>3. /\ events'[j].org = c.org
        /\ c.sequence = events'[j].sequence + 1
        /\ c.previous = events'[j].hash
    BY <1>2, <2>2, EventsStay
  <2> QED
    BY <2>3 DEF Grounded
<1> QED
  BY <1>1, <1>2 DEF Grounded

\* However calls of record overlap and die, and whatever payload is edited,
\* every event starts its organization's chain or continues a row of it.
THEOREM EventsLinked == AuditSpec => []EveryEventIsLinked
<1>1. AuditInit => LinkInv
  BY DEF AuditInit, LinkInv, EveryEventIsLinked
<1>2. AuditTypeOK /\ AuditTypeOK' /\ LinkInv /\ [AuditNext]_auditVars => LinkInv'
  <2> SUFFICES ASSUME AuditTypeOK, AuditTypeOK', LinkInv, [AuditNext]_auditVars
               PROVE  LinkInv'
    OBVIOUS
  <2>1. ASSUME NEW i \in Ids, Stored(i)'
        PROVE  Starts(i)' \/ \E j \in Ids : Continues(i, j)'
    <3>1. CASE Stored(i)
      <4>1. Starts(i) \/ \E j \in Ids : Continues(i, j)
        BY <3>1 DEF LinkInv, EveryEventIsLinked, Stored
      <4>2. CASE Starts(i)
        BY <3>1, <4>2, EventsStay DEF Starts
      <4>3. ASSUME NEW j \in Ids, Continues(i, j)
            PROVE  Continues(i, j)'
        <5>1. Stored(j)
          BY <3>1, <4>3, RowsExist DEF Continues
        <5> QED
          BY <3>1, <4>3, <5>1, EventsStay DEF Continues
      <4> QED
        BY <4>1, <4>2, <4>3
    <3>2. CASE ~Stored(i)
      <4>1. PICK r \in Recorders :
              /\ InsertEvent(r)
              /\ call[r] \in Call
              /\ events'[i] = NewRow(call[r])
              /\ \A j \in Ids \ {i} : events'[j] = events[j]
        BY <2>1, <3>2, RowsAppear
      <4>2. Grounded(call[r])
        BY <4>1 DEF LinkInv, InsertEvent
      <4>3. /\ events'[i].org = call[r].org
            /\ events'[i].sequence = call[r].sequence
            /\ events'[i].previous = call[r].previous
        BY <4>1 DEF NewRow
      <4>4. CASE call[r].sequence = 1 /\ call[r].previous = Genesis
        BY <4>3, <4>4 DEF Starts
      <4>5. ASSUME NEW j \in Ids, events[j].org = call[r].org,
                   call[r].sequence = events[j].sequence + 1,
                   call[r].previous = events[j].hash
            PROVE  Continues(i, j)'
        <5>1. call[r].org \in Orgs
          BY <4>1 DEF Call
        <5>2. Stored(j)
          BY <4>5, <5>1, AuditAssumption, RowsExist
        <5>3. j # i
          BY <3>2, <5>2
        <5> QED
          BY <4>1, <4>3, <4>5, <5>3 DEF Continues
      <4> QED
        BY <4>2, <4>4, <4>5 DEF Grounded
    <3> QED
      BY <3>1, <3>2
  <2>2. ASSUME NEW r \in Recorders, call'[r] # IdleCall
        PROVE  Grounded(call[r])'
    <3>1. CASE call'[r] = call[r]
      <4>1. call[r] \in Call /\ Grounded(call[r])
        BY <2>2, <3>1, CallsHaveFields DEF LinkInv
      <4>2. ASSUME NEW c \in Call, Grounded(c)
            PROVE  Grounded(c)'
        BY <4>2, GroundedStays
      <4> QED
        BY <3>1, <4>1, <4>2 DEF Grounded
    <3>2. CASE call'[r] \in Call /\ Grounded(call'[r]) /\ events' = events
      BY <3>2 DEF Grounded
    <3> QED
      BY <2>2, <3>1, <3>2, CallsAppear
  <2> QED
    BY <2>1, <2>2 DEF LinkInv, EveryEventIsLinked, Stored
<1>3. LinkInv => EveryEventIsLinked
  BY DEF LinkInv
<1> QED
  BY <1>1, <1>2, <1>3, AuditTypeCorrect, PTL DEF AuditSpec

\* Until a row is edited, every row carries the hash of what it says.
THEOREM HashesTrue == AuditSpec => []HashesAreTrue
<1>1. AuditInit => HashesAreTrue
  BY DEF AuditInit, HashesAreTrue
<1>2. AuditTypeOK /\ HashesAreTrue /\ [AuditNext]_auditVars => HashesAreTrue'
  <2> SUFFICES ASSUME AuditTypeOK, HashesAreTrue, [AuditNext]_auditVars, ~tampered',
                      NEW i \in Ids, Stored(i)'
               PROVE  Consistent(i)'
    BY DEF HashesAreTrue, Stored
  <2>1. ~tampered
    BY DEF AuditNext, auditVars, ReadHead, InsertEvent, RecordAborts, EditPayload
  <2>2. CASE Stored(i)
    <3>1. Consistent(i)
      BY <2>1, <2>2 DEF HashesAreTrue, Stored
    <3> QED
      BY <2>2, <3>1, EventsStay DEF Consistent
  <2>3. CASE ~Stored(i)
    <3>1. PICK r \in Recorders : events'[i] = NewRow(call[r])
      BY <2>3, RowsAppear
    <3>2. events'[i].hash = ChainHash(events'[i].previous,
                                      events'[i].sequence,
                                      events'[i].payload)
      BY <3>1 DEF NewRow
    <3> QED
      BY <3>2 DEF Consistent, ChainHash
  <2> QED
    BY <2>2, <2>3
<1> QED
  BY <1>1, <1>2, AuditTypeCorrect, PTL DEF AuditSpec

\* Every event is linked to its organization's chain, and until a row is
\* edited every hash is that of its row.
THEOREM ChainsHang == AuditSpec => []ChainHangsTogether
BY EventsLinked, HashesTrue, PTL DEF ChainHangsTogether

-----------------------------------------------------------------------------
(* Forks.                                                                  *)
(*                                                                         *)
(* A hash is as long as the chain it ends: the sequence number of a row,   *)
(* or of a call, can be read off the hashes, so a call that holds the hash *)
(* of the head inserts one behind the largest number.                      *)

LengthInv ==
    /\ \A i \in Ids : Stored(i) => events[i].sequence = Len(events[i].hash)
    /\ \A r \in Recorders :
          call[r] # IdleCall => call[r].sequence = Len(call[r].previous) + 1

LEMMA LengthInductive ==
    /\ AuditInit => LengthInv
    /\ AuditTypeOK /\ LengthInv /\ [AuditNext]_auditVars => LengthInv'
<1>1. AuditInit => LengthInv
  BY DEF AuditInit, LengthInv, Stored
<1>2. AuditTypeOK /\ LengthInv /\ [AuditNext]_auditVars => LengthInv'
  <2> SUFFICES ASSUME AuditTypeOK, LengthInv, [AuditNext]_auditVars
               PROVE  LengthInv'
    OBVIOUS
  <2>1. ASSUME NEW i \in Ids, Stored(i)'
        PROVE  events'[i].sequence = Len(events'[i].hash)
    <3>1. CASE Stored(i)
      BY <3>1, EventsStay DEF LengthInv
    <3>2. CASE ~Stored(i)
      <4>1. PICK r \in Recorders : /\ call[r] # IdleCall
                                   /\ call[r] \in Call
                                   /\ events'[i] = NewRow(call[r])
        BY <2>1, <3>2, RowsAppear DEF InsertEvent
      <4>2. /\ call[r].sequence = Len(call[r].previous) + 1
            /\ call[r].sequence \in Nat
            /\ call[r].previous \in Hash
            /\ call[r].payload \in Payloads
        BY <4>1 DEF LengthInv, Call
      <4>3. Len(ChainHash(call[r].previous, call[r].sequence, call[r].payload))
              = call[r].sequence
        BY <4>2, ChainHashType
      <4> QED
        BY <4>1, <4>3 DEF NewRow
    <3> QED
      BY <3>1, <3>2
  <2>2. ASSUME NEW r \in Recorders, call'[r] # IdleCall
        PROVE  call'[r].sequence = Len(call'[r].previous) + 1
    <3>1. CASE call'[r] = call[r]
      BY <2>2, <3>1 DEF LengthInv
    <3>2. CASE call'[r] \in Call /\ Grounded(call'[r]) /\ events' = events
      <4>1. CASE call'[r].sequence = 1 /\ call'[r].previous = Genesis
        BY <4>1 DEF Genesis
      <4>2. ASSUME NEW j \in Ids, events'[j].org = call'[r].org,
                   call'[r].sequence = events'[j].sequence + 1,
                   call'[r].previous = events'[j].hash
            PROVE  call'[r].sequence = Len(call'[r].previous) + 1
        <5>1. call'[r].org \in Orgs
          BY <3>2 DEF Call
        <5>2. Stored(j)
          BY <3>2, <4>2, <5>1, AuditAssumption, RowsExist
        <5> QED
          BY <3>2, <4>2, <5>2 DEF LengthInv
      <4>3. \/ call'[r].sequence = 1 /\ call'[r].previous = Genesis
            \/ \E j \in Ids : /\ events'[j].org = call'[r].org
                              /\ call'[r].sequence = events'[j].sequence + 1
                              /\ call'[r].previous = events'[j].hash
        BY <3>2 DEF Grounded
      <4> QED
        BY <4>1, <4>2, <4>3
    <3> QED
      BY <2>2, <3>1, <3>2, CallsAppear
  <2> QED
    BY <2>1, <2>2 DEF LengthInv, Stored
<1> QED
  BY <1>1, <1>2

LEMMA FreshInsertKeepsUnforked ==
    ASSUME AuditTypeOK, LengthInv, [AuditNext]_auditVars, NEW o \in Orgs, Unforked(o),
           AllFresh(o)
    PROVE  Unforked(o)'
<1>1. ASSUME NEW i \in Ids, events'[i].org = o, ~Stored(i), Stored(i)',
             NEW j \in Ids \ {i}, events'[j].org = o
      PROVE  events'[i].sequence # events'[j].sequence
  <2>1. PICK r \in Recorders :
          /\ InsertEvent(r)
          /\ call[r] \in Call
          /\ events'[i] = NewRow(call[r])
          /\ \A k \in Ids \ {i} : events'[k] = events[k]
    BY <1>1, RowsAppear
  <2>2. call[r] # IdleCall /\ call[r].org = o
    BY <1>1, <2>1 DEF InsertEvent, NewRow
  <2>3. j \in Rows(o) /\ events[j] \in Row
    BY <1>1, <2>1, RowsExist DEF Rows
  <2>4. PICK k \in Ids : IsHead(o, k) /\ call[r].previous = events[k].hash
    BY <2>2, <2>3 DEF AllFresh
  <2>5. events[k] \in Row /\ Stored(k)
    BY <2>4, RowsExist DEF IsHead
  <2>6. call[r].sequence = events[k].sequence + 1
    BY <2>2, <2>4, <2>5 DEF LengthInv
  <2>7. events[j].sequence <= events[k].sequence
    BY <2>3, <2>4 DEF IsHead
  <2>8. events[j].sequence \in Nat /\ events[k].sequence \in Nat
    BY <2>3, <2>5 DEF Row
  <2>9. events'[i].sequence = call[r].sequence /\ events'[j] = events[j]
    BY <2>1 DEF NewRow
  <2> QED
    BY <2>6, <2>7, <2>8, <2>9
<1>2. ASSUME NEW i \in Ids, events'[i].org = o, Stored(i),
             NEW j \in Ids, events'[j].org = o, Stored(j),
             events'[i].sequence = events'[j].sequence
      PROVE  i = j
  BY <1>2, EventsStay DEF Unforked, Rows
<1>3. ASSUME NEW i \in Ids, events'[i].org = o
      PROVE  Stored(i)'
  BY <1>3, AuditAssumption DEF Stored, NoRow
<1> QED
  BY <1>1, <1>2, <1>3 DEF Unforked, Rows

\* A chain without forks stays so as long as every call in progress for it
\* holds the hash of its head: forks come from stale heads, and only there.
THEOREM OnlyStaleHeadsFork == AuditSpec => ForksNeedStaleHeads
<1>1. AuditTypeOK /\ LengthInv /\ [AuditNext]_auditVars
        => [\A o \in Orgs : Unforked(o) /\ AllFresh(o) => Unforked(o)']_auditVars
  BY FreshInsertKeepsUnforked
<1> QED
  BY <1>1, AuditTypeCorrect, LengthInductive, PTL DEF AuditSpec, ForksNeedStaleHeads

-----------------------------------------------------------------------------
(* The verifier.                                                           *)
(*                                                                         *)
(* The walk returns at the first break, so at the turn it returns from     *)
(* every earlier row carries the number of its turn.  A row that continues *)
(* the chain continues one of those: its number is at most that of the     *)
(* turn, and when it is that number, the row it continues is the one just  *)
(* visited.  A wrong previous hash is therefore never what breaks a walk.  *)

\* A set of numbers has a least one.
LEMMA LeastNumber ==
    ASSUME NEW S, S \subseteq Nat, S # {}
    PROVE  \E x \in S : \A y \in S : x <= y
<1>1. PICK x \in S : \A y \in S : ~(<<y, x>> \in OpToRel(<, Nat))
  BY NatLessThanWellFounded, WFMin, Zenon
<1>2. \A y \in S : ~(y < x)
  BY <1>1 DEF OpToRel
<1>3. \A y \in S : x <= y
  BY <1>2
<1> QED
  BY <1>3

\* What an order of an organization's rows is.
LEMMA OrdersSort ==
    ASSUME NEW o \in Orgs, NEW q \in Orders(o)
    PROVE  /\ \E size \in Nat : DOMAIN q = 1 .. size
           /\ \A n \in DOMAIN q : q[n] \in Rows(o)
           /\ \A i \in Rows(o) : \E n \in DOMAIN q : q[n] = i
           /\ \A m, n \in DOMAIN q :
                 m < n => q[m] # q[n] /\ events[q[m]].sequence <= events[q[n]].sequence
<1> DEFINE places == 1 .. Cardinality(Rows(o))
<1>1. /\ q \in Bijection(places, Rows(o))
      /\ \A m, n \in DOMAIN q : m < n => events[q[m]].sequence <= events[q[n]].sequence
  BY DEF Orders
<1>2. /\ q \in [places -> Rows(o)]
      /\ \A m, n \in DOMAIN q : q[m] = q[n] => m = n
      /\ \A i \in Rows(o) : \E n \in places : q[n] = i
  BY <1>1, Zenon DEF Bijection, Injection, Surjection, IsInjective
<1>3. DOMAIN q = places /\ Cardinality(Rows(o)) \in Nat
  <2>1. IsFiniteSet(Ids) /\ Rows(o) \subseteq Ids
    BY AuditAssumption, FS_Interval DEF Ids, Rows
  <2> QED
    BY <1>2, <2>1, FS_Subset, FS_CardinalityType
<1>4. ASSUME NEW m \in places, NEW n \in places, m < n
      PROVE  m # n
  BY <1>4
<1> QED
  BY <1>1, <1>2, <1>3, <1>4

\* The rows S can be listed by their sequence numbers.
Sorted(S, q) ==
    /\ q \in Bijection(1 .. Cardinality(S), S)
    /\ \A m, n \in DOMAIN q : m < n => events[q[m]].sequence <= events[q[n]].sequence

\* The row of least number goes before an order of the others.
LEMMA OrderGrows ==
    ASSUME NEW S, IsFiniteSet(S), \A i \in S : events[i].sequence \in Nat,
           NEW x \in S, \A i \in S : events[x].sequence <= events[i].sequence,
           NEW q, Sorted(S \ {x}, q)
    PROVE  \E p : Sorted(S, p)
<1> DEFINE n == Cardinality(S)
           p == [m \in 1 .. n |-> IF m = 1 THEN x ELSE q[m - 1]]
<1>1. n \in Nat /\ n # 0 /\ Cardinality(S \ {x}) = n - 1
  BY FS_CardinalityType, FS_EmptySet, FS_RemoveElement
<1> HIDE DEF n
<1>2. /\ q \in [1 .. n - 1 -> S \ {x}]
      /\ \A k, m \in 1 .. n - 1 : q[k] = q[m] => k = m
      /\ \A i \in S \ {x} : \E m \in 1 .. n - 1 : q[m] = i
      /\ \A k, m \in 1 .. n - 1 : k < m => events[q[k]].sequence <= events[q[m]].sequence
  BY <1>1, Zenon DEF Sorted, Bijection, Injection, Surjection, IsInjective
<1>3. /\ \A m \in 1 .. n : m # 1 => m - 1 \in 1 .. n - 1
      /\ 1 \in 1 .. n
      /\ \A m \in 1 .. n - 1 : m + 1 \in 1 .. n /\ m + 1 # 1 /\ (m + 1) - 1 = m
  BY <1>1
<1>4. p \in [1 .. n -> S]
  BY <1>2, <1>3
<1>5. ASSUME NEW k \in 1 .. n, NEW m \in 1 .. n, p[k] = p[m]
      PROVE  k = m
  BY <1>2, <1>3, <1>5
<1>6. ASSUME NEW i \in S
      PROVE  \E m \in 1 .. n : p[m] = i
  <2>1. CASE i = x
    BY <1>3, <2>1
  <2>2. CASE i # x
    <3>1. PICK m \in 1 .. n - 1 : q[m] = i
      BY <1>2, <2>2
    <3>2. p[m + 1] = i
      BY <1>3, <3>1
    <3> QED
      BY <1>3, <3>2
  <2> QED
    BY <2>1, <2>2
<1>7. ASSUME NEW k \in 1 .. n, NEW m \in 1 .. n, k < m
      PROVE  events[p[k]].sequence <= events[p[m]].sequence
  <2>1. m # 1 /\ p[m] = q[m - 1] /\ q[m - 1] \in S
    BY <1>2, <1>3, <1>7
  <2>2. CASE k = 1
    BY <2>1, <2>2
  <2>3. CASE k # 1
    <3>1. p[k] = q[k - 1] /\ k - 1 < m - 1
      BY <1>7, <2>3
    <3> QED
      BY <1>2, <1>3, <2>1, <2>3, <3>1
  <2> QED
    BY <2>2, <2>3
<1>8. DOMAIN p = 1 .. n
  OBVIOUS
<1> HIDE DEF p
<1>9. p \in Bijection(1 .. n, S)
  BY <1>4, <1>5, <1>6, <1>8, Zenon DEF Bijection, Injection, Surjection, IsInjective
<1>10. Sorted(S, p)
  BY <1>7, <1>8, <1>9 DEF Sorted, n
<1> QED
  BY <1>10

\* The database can always list an organization's rows.
LEMMA OrdersExist ==
    ASSUME AuditTypeOK, NEW o \in Orgs
    PROVE  Orders(o) # {}
<1> DEFINE Unsorted == {S \in SUBSET Rows(o) : ~\E q : Sorted(S, q)}
           Sizes == {Cardinality(S) : S \in Unsorted}
<1>1. /\ IsFiniteSet(Rows(o))
      /\ \A i \in Rows(o) : events[i].sequence \in Nat
  <2>1. IsFiniteSet(Ids) /\ Rows(o) \subseteq Ids
    BY AuditAssumption, FS_Interval DEF Ids, Rows
  <2>2. \A i \in Rows(o) : events[i] \in Row
    BY <2>1, RowsExist
  <2> QED
    BY <2>1, <2>2, FS_Subset DEF Row
<1>2. Unsorted = {}
  <2> SUFFICES ASSUME Unsorted # {}
               PROVE  FALSE
    OBVIOUS
  <2>1. \A S \in Unsorted : IsFiniteSet(S) /\ Cardinality(S) \in Nat
    BY <1>1, FS_Subset, FS_CardinalityType
  <2>2. Sizes \subseteq Nat /\ Sizes # {}
    BY <2>1
  <2>3. PICK n \in Sizes : \A k \in Sizes : n <= k
    <3> HIDE DEF Sizes
    <3> QED
      BY <2>2, LeastNumber
  <2>4. PICK S \in Unsorted : n = Cardinality(S)
    OBVIOUS
  <2>5. S \subseteq Rows(o) /\ IsFiniteSet(S) /\ ~\E q : Sorted(S, q)
    BY <2>1, <2>4
  <2>6. CASE S = {}
    <3>1. Cardinality(S) = 0 /\ 1 .. 0 = {}
      BY <2>6, FS_EmptySet
    <3> DEFINE q == [m \in {} |-> m]
    <3>2. q \in Bijection({}, {}) /\ DOMAIN q = {}
      BY Zenon DEF Bijection, Injection, Surjection, IsInjective
    <3>3. Sorted(S, q)
      BY <2>6, <3>1, <3>2 DEF Sorted
    <3> QED
      BY <2>5, <3>3
  <2>7. CASE S # {}
    <3> DEFINE Numbers == {events[i].sequence : i \in S}
    <3>1. Numbers \subseteq Nat /\ Numbers # {}
      BY <1>1, <2>5, <2>7
    <3>2. PICK least \in Numbers : \A k \in Numbers : least <= k
      <4> HIDE DEF Numbers
      <4> QED
        BY <3>1, LeastNumber
    <3>3. PICK x \in S : least = events[x].sequence
      OBVIOUS
    <3>4. \A i \in S : events[x].sequence <= events[i].sequence
      BY <3>2, <3>3
    <3>5. Cardinality(S \ {x}) = n - 1 /\ n \in Nat
      BY <2>1, <2>4, <2>5, <3>3, FS_RemoveElement
    <3>6. S \ {x} \notin Unsorted
      <4> SUFFICES ASSUME S \ {x} \in Unsorted
                   PROVE  FALSE
        OBVIOUS
      <4>1. n <= Cardinality(S \ {x})
        BY <2>3
      <4> QED
        BY <3>5, <4>1
    <3>7. PICK q : Sorted(S \ {x}, q)
      BY <2>5, <3>6
    <3> QED
      BY <1>1, <2>5, <3>4, <3>7, OrderGrows
  <2> QED
    BY <2>6, <2>7
<1>3. PICK q : Sorted(Rows(o), q)
  BY <1>2
<1> QED
  BY <1>3 DEF Sorted, Orders

\* The walk has found nothing before turn n.
CleanBefore(q, n) == \A m \in DOMAIN q : m < n => Finding(q, m) = "valid"

\* At the first break the number of the row is that of the turn, or of the
\* turn before.
LEMMA CleanIsCounted ==
    ASSUME NEW q, NEW n \in DOMAIN q, Finding(q, n) = "valid"
    PROVE  /\ events[q[n]].sequence = n
           /\ events[q[n]].previous = Carried(q, n)
           /\ events[q[n]].hash = ChainHash(events[q[n]].previous, events[q[n]].sequence,
                                            events[q[n]].payload)
  BY DEF Finding

\* The row of turn n, when the walk gets there, continues the row of the turn
\* before; or there is a second row with that row's number.
LEMMA BreaksAreForksOrEdits ==
    ASSUME AuditTypeOK, EveryEventIsLinked,
           NEW o \in Orgs, NEW q \in Orders(o), NEW n \in DOMAIN q, CleanBefore(q, n)
    PROVE  /\ events[q[n]].sequence # n => ~Unforked(o)
           /\ events[q[n]].sequence = n => events[q[n]].previous = Carried(q, n)
<1> DEFINE e == events[q[n]]
<1>1. PICK size \in Nat : DOMAIN q = 1 .. size
  BY OrdersSort
<1>2. /\ \A m \in DOMAIN q : q[m] \in Rows(o)
      /\ \A m \in DOMAIN q : m < n => events[q[m]].sequence = m /\ q[m] # q[n]
      /\ \A m, k \in DOMAIN q : m < k => events[q[m]].sequence <= events[q[k]].sequence
      /\ \A i \in Rows(o) : \E m \in DOMAIN q : q[m] = i
  BY OrdersSort, CleanIsCounted DEF CleanBefore
<1>3. \A i \in Rows(o) : i \in Ids /\ Stored(i) /\ events[i].sequence \in Nat /\ events[i].org = o
  <2> SUFFICES ASSUME NEW i \in Rows(o)
               PROVE  i \in Ids /\ Stored(i) /\ events[i].sequence \in Nat /\ events[i].org = o
    OBVIOUS
  <2>1. i \in Ids /\ events[i].org = o
    BY DEF Rows
  <2>2. events[i] \in Row /\ Stored(i)
    BY <2>1, RowsExist
  <2> QED
    BY <2>1, <2>2 DEF Row
<1>4. n \in Int /\ 1 <= n /\ n <= size
  BY <1>1
<1>5. q[n] \in Ids /\ Stored(q[n]) /\ e.sequence \in Nat /\ e.org = o
  BY <1>2, <1>3
<1>6. CASE Starts(q[n])
  <2>1. e.sequence = 1 /\ e.previous = Genesis
    BY <1>6 DEF Starts
  <2>2. CASE n = 1
    BY <2>1, <2>2 DEF Carried
  <2>3. CASE n # 1
    <3>1. 1 \in 1 .. size /\ 1 < n
      BY <1>4, <2>3
    <3>2. events[q[1]].sequence = e.sequence /\ q[1] # q[n]
      BY <1>1, <1>2, <2>1, <3>1
    <3>3. ~Unforked(o)
      BY <1>1, <1>2, <3>1, <3>2 DEF Unforked
    <3> QED
      BY <2>1, <2>3, <3>3
  <2> QED
    BY <2>2, <2>3
<1>7. ASSUME NEW j \in Ids, Continues(q[n], j)
      PROVE  /\ e.sequence # n => ~Unforked(o)
             /\ e.sequence = n => e.previous = Carried(q, n)
  <2>1. /\ j \in Rows(o)
        /\ e.sequence = events[j].sequence + 1
        /\ e.previous = events[j].hash
    BY <1>5, <1>7 DEF Continues, Rows
  <2>2. PICK k \in DOMAIN q : q[k] = j
    BY <1>2, <2>1
  <2>3. events[q[k]].sequence \in Nat
    BY <1>3, <2>1, <2>2
  <2>4. k < n
    <3> SUFFICES ASSUME ~(k < n)
                 PROVE  FALSE
      OBVIOUS
    <3>1. n = k \/ n < k
      BY <1>1
    <3>2. e.sequence <= events[q[k]].sequence
      BY <1>2, <1>5, <3>1
    <3> QED
      BY <1>5, <2>1, <2>2, <2>3, <3>2
  <2>5. e.sequence = k + 1 /\ k \in Int /\ 1 <= k
    BY <1>1, <1>2, <2>1, <2>2, <2>4
  <2>6. CASE k = n - 1
    <3>1. n # 1 /\ e.sequence = n
      BY <1>4, <2>5, <2>6
    <3>2. e.previous = events[q[n - 1]].hash
      BY <2>1, <2>2, <2>6
    <3> QED
      BY <3>1, <3>2 DEF Carried
  <2>7. CASE k # n - 1
    <3>1. k + 1 \in 1 .. size /\ k + 1 < n
      BY <1>4, <2>4, <2>5, <2>7
    <3>2. events[q[k + 1]].sequence = e.sequence /\ q[k + 1] # q[n]
      BY <1>1, <1>2, <2>5, <3>1
    <3>3. ~Unforked(o)
      BY <1>1, <1>2, <3>1, <3>2 DEF Unforked
    <3> QED
      BY <2>5, <3>1, <3>3
  <2> QED
    BY <2>6, <2>7
<1> QED
  BY <1>5, <1>6, <1>7 DEF EveryEventIsLinked, Stored

\* What the walk finds at its first break is a fork or an edited row.
LEMMA FirstBreak ==
    ASSUME AuditTypeOK, EveryEventIsLinked,
           NEW o \in Orgs, NEW q \in Orders(o), NEW n \in DOMAIN q, CleanBefore(q, n),
           Finding(q, n) # "valid"
    PROVE  \/ Finding(q, n) = "sequence_gap" /\ ~Unforked(o)
           \/ Finding(q, n) = "event_hash_mismatch" /\ ~Consistent(q[n])
<1>1. CASE events[q[n]].sequence # n
  BY <1>1, BreaksAreForksOrEdits DEF Finding
<1>2. CASE events[q[n]].sequence = n
  <2>1. events[q[n]].previous = Carried(q, n)
    BY <1>2, BreaksAreForksOrEdits
  <2> QED
    BY <1>2, <2>1 DEF Finding, Consistent
<1> QED
  BY <1>1, <1>2

\* A walk that finds nothing has seen every row, each with its own number.
LEMMA CleanWalk ==
    ASSUME NEW o \in Orgs, NEW q \in Orders(o), Broken(q) = {}
    PROVE  Unforked(o) /\ \A i \in Rows(o) : Consistent(i)
<1>1. \A n \in DOMAIN q : events[q[n]].sequence = n /\ Consistent(q[n])
  BY CleanIsCounted DEF Broken, Consistent
<1>2. \A i \in Rows(o) : \E n \in DOMAIN q : q[n] = i
  BY OrdersSort
<1> QED
  BY <1>1, <1>2 DEF Unforked

\* Where the walk breaks, it has found nothing before.
LEMMA BrokenWalk ==
    ASSUME NEW o \in Orgs, NEW q \in Orders(o), Broken(q) # {}
    PROVE  \E n \in DOMAIN q : /\ Verdict(q) = Finding(q, n)
                               /\ Finding(q, n) # "valid"
                               /\ CleanBefore(q, n)
<1> DEFINE first == CHOOSE n \in Broken(q) : \A m \in Broken(q) : n <= m
<1>1. \E size \in Nat : DOMAIN q = 1 .. size
  BY OrdersSort
<1>2. Broken(q) \subseteq Nat
  BY <1>1 DEF Broken
<1>3. \E n \in Broken(q) : \A m \in Broken(q) : n <= m
  BY <1>2, LeastNumber
<1>4. first \in Broken(q) /\ \A m \in Broken(q) : first <= m
  BY <1>3
<1>5. Verdict(q) = Finding(q, first)
  BY DEF Verdict
<1> HIDE DEF first
<1>6. CleanBefore(q, first)
  BY <1>1, <1>2, <1>4 DEF CleanBefore, Broken
<1> QED
  BY <1>4, <1>5, <1>6 DEF Broken

\* verifyAuditChain calls a chain valid exactly when no two rows share a
\* number and no row has been edited, and names the kind of break there is.
\* It rests on what record guarantees of the table, every event being linked:
\* the walk itself looks at neighbours only.
THEOREM VerdictsAreJust == AuditSpec => []VerdictIsJust
<1>1. AuditTypeOK /\ EveryEventIsLinked => VerdictIsJust
  <2> SUFFICES ASSUME AuditTypeOK, EveryEventIsLinked, NEW o \in Orgs, NEW q \in Orders(o)
               PROVE  /\ (Verdict(q) = "valid")
                           <=> Unforked(o) /\ \A i \in Rows(o) : Consistent(i)
                      /\ Verdict(q) # "previous_hash_mismatch"
                      /\ Unforked(o) /\ (\E i \in Rows(o) : ~Consistent(i))
                           => Verdict(q) = "event_hash_mismatch"
    BY DEF VerdictIsJust, VerdictIsExact, VerdictNamesTheBreak
  <2>1. CASE Broken(q) = {}
    <3>1. Verdict(q) = "valid"
      BY <2>1 DEF Verdict
    <3> QED
      BY <2>1, <3>1, CleanWalk
  <2>2. CASE Broken(q) # {}
    <3>1. PICK n \in DOMAIN q : /\ Verdict(q) = Finding(q, n)
                                /\ Finding(q, n) # "valid"
                                /\ CleanBefore(q, n)
      BY <2>2, BrokenWalk
    <3>2. q[n] \in Rows(o)
      BY OrdersSort
    <3>3. \/ Finding(q, n) = "sequence_gap" /\ ~Unforked(o)
          \/ Finding(q, n) = "event_hash_mismatch" /\ ~Consistent(q[n])
      BY <3>1, FirstBreak
    <3> QED
      BY <3>1, <3>2, <3>3
  <2> QED
    BY <2>1, <2>2
<1> QED
  BY <1>1, AuditTypeCorrect, EventsLinked, PTL
=============================================================================

SPECIFICATION Spec
CONSTANTS
    NoSession = NoSession
    Sessions = {s1}
    Slots = {r1}
    Sweepers = {w1}
    Fields = {"f1"}
    RequiredFields = {"f1"}
    Logged = {"completed", "finalized"}
    MaxSignatures = 2
INVARIANTS
    EvidenceIsPersisted
CHECK_DEADLOCK FALSE

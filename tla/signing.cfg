SPECIFICATION Spec
CONSTANTS
    NoSession = NoSession
    Sessions = {s1}
    Slots = {r1, r2}
    Sweepers = {w1}
    Fields = {"f1"}
    RequiredFields = {"f1"}
    Logged = {"completed", "finalized"}
    MaxSignatures = 2
INVARIANTS
    ClaimsMatchSignatures
    SignedBeforeProcessing
    DeadLinkIsRevoked
PROPERTIES
    SettledIsFinal
    EvidenceIsFrozen
    FreshWritesFollowTable
SYMMETRY Interchangeable
CHECK_DEADLOCK FALSE

SPECIFICATION Spec
CONSTANTS
    Keys = {k1, k2, k3}
    NoKey = NoKey
    IdemKeys = {i1}
    NoIdem = NoIdem
    Payloads = {p1, p2}
    NoPayload = NoPayload
    Slots = {r1, r2}
    Asked <- MCAsked
    MaxMade = 2
INVARIANTS
    AnswersMatchStore
    OneSuccessor
PROPERTIES
    StoredMeansDone
    RevokedIsDead
SYMMETRY Interchangeable
CHECK_DEADLOCK FALSE

SPECIFICATION WorkerSpec
CONSTANTS
    Sessions = {s1}
    NoSession = NoSession
    Slots = {r1}
    Sweepers = {w1}
    Fields = {}
    RequiredFields = {}
    Logged = {}
    MaxSignatures = 2
    MaxDocuments = 3
    FinalizeLimit = 10
    MaxFailures = 1
INVARIANTS
    NothingTwice
CHECK_DEADLOCK FALSE

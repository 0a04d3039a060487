SPECIFICATION WorkerSpec
CONSTANTS
    Sessions = {s1}
    NoSession = NoSession
    Slots = {r1}
    Sweepers = {w1, w2}
    Fields = {}
    RequiredFields = {}
    Logged = {}
    MaxSignatures = 1
    MaxDocuments = 3
    FinalizeLimit = 10
    MaxFailures = 1
INVARIANTS
    CompletedHasDocument
    RowsPointAtArtifacts
    DocumentShowsSigners
    NumbersAreGapless
SYMMETRY Interchangeable
CHECK_DEADLOCK FALSE

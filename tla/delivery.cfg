SPECIFICATION FairSpec
CONSTANTS
    Hooks = {h1}
    Mails = {m1}
    Endpoints = {e1, e2}
    NoEndpoint = NoEndpoint
    Unreadable = {e2}
    Workers = {w1, w2}
    MaxAttempts = 2
    BatchLimit = 20
    MaxFailures = 1
INVARIANTS
    SettledRowsAreTrue
PROPERTIES
    SettledStaysSettled
    EveryMessageSettles
CHECK_DEADLOCK FALSE

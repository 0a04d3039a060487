SPECIFICATION RetentionSpec
CONSTANTS
    Sessions = {s1, s2}
    NoSession = NoSession
    Slots = {r1}
    Sweepers = {w1}
    Fields = {}
    RequiredFields = {}
    Logged = {}
    MaxSignatures = 1
PROPERTIES
    ImplementsLifecycle
    UnstartedIsRetired
CHECK_DEADLOCK FALSE

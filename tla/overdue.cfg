SPECIFICATION RetentionSpec
CONSTANTS
    Sessions = {s1}
    NoSession = NoSession
    Slots = {r1}
    Sweepers = {w1}
    Fields = {}
    RequiredFields = {}
    Logged = {}
    MaxSignatures = 1
PROPERTIES
    OverdueIsRetired
CHECK_DEADLOCK FALSE

SPECIFICATION BackOfficeSpec
CONSTANTS
    Templates = {x1, x2}
    NoTemplate = NoTemplate
    Schemas = {s1, s2}
    ValidSchemas = {s1}
    NoSchema = NoSchema
    Slots = {h1, h2}
    MaxVersions = 2
    Orgs = {x1, x2}
    NoOrg = NoOrg
    Payloads = {p1, p2}
    Recorders = {h1, h2}
    MaxEvents = 4
    Keys = {"k1", "k2"}
    Unset = Unset
    Blank = Blank
    Unticked = Unticked
    Ticked = Ticked
    TickedText = "c"
    Strings = {"a", "b", "c"}
    Formatted = {"b"}
    TooLong = {"c"}
    Odd = {one, empty}
    one = one
    empty = empty
    Rendering <- MCRendering
    Forms <- MCForms
    PaddleEvents <- MCPaddleEvents
    Absent = Absent
    Deliveries = {h1, h2}
    LicenceKeys = {k1}
    MaxEntitlements = 3
    Spellings = {"ann", "Ann", "bob"}
    Email <- MCEmail
    Passwords = {x1, x2}
    OrgIds = {o1, o2}
    SiteIds = {site1}
    Nobody = Nobody
    Callers = {h1, h2}
    Scripts = {1, 2}
    Checksums = {x1, x2}
    NoChecksum = NoChecksum
    Runners = {h1, h2}
    Papers = {d1}
    Tokens = {t1}
    Reasons = {r1}
    NoReason = NoReason
    Clerks = {h1, h2}
    MaxServed = 2
    MaxDay = 2
    Birthdays = {2}
    MaxWaivers = 2
    MaxEditions = 2
    ValidDays = {1}
    Unlimited = Unlimited
    Desks = {h1, h2}
    LastDay = 2
    VisitIds = {x1, x2}
    NoVisit = NoVisit
    People = {1, 2, 3}
    Moments = {0, 1}
    Addresses = {"A", "b", "?"}
    Normalized <- MCNormalized
    NoAddress = NoAddress
    PageLimit = 1
    Relatable <- MCRelatable
    ImportFiles <- MCImportFiles
INVARIANTS
    ReferencesArePublished
    VersionsAreDense
    ChainHangsTogether
    VerdictIsJust
    AcceptedIsComplete
    PlainFormsCanBeSubmitted
    EntitlementsAreEarned
    WelcomedCanLogIn
    ShellsStayEmpty
    MigrationsAreAccounted
    DownloadsAreLogged
    TrailsAndPagesAreTrue
    CardsCanBeTrusted
    DeskAnswersHold
    PagesAreExact
    ForecastIsExact
PROPERTIES
    HashesMatchUnlessRaced
    OnlyRacesUndo
    ForksNeedStaleHeads
    TwinRowsNeedOverlap
SYMMETRY Interchangeable
CHECK_DEADLOCK FALSE

SPECIFICATION ServicesSpec
CONSTANTS
    Handlers = {h1, h2}
    Providers = {google}
    MaxPerHour = 1
    MaxAttempts = 1
    MaxCodes = 3
    Workers = {w1, w2}
    Slugs = {s1, s2, s3}
    Files = {f}
    Versions = {1, 2, 3}
    Elsewhere = {}
    MaxAssets = 1
    MaxPages = 1
    MaxJobs = 4
    Members = {m1, m2}
    Entries = {1, 2}
    Clearable = {budget}
    Lasting = {}
    Days = {1, 2}
    PageSize = 1
    MaxWrites = 3
    MaxEpoch = 2
    People = {p1, p2}
    MaxInvites = 2
    MaxKeys = 2
    MaxRemovals = 1
    Callers = {c1, c2}
    MaxFailures = 1
    Windows = {1, 2}
    Rows = {r1, r2}
    MaxCopies = 1
    MaxByHand = 1
    None = None
INVARIANTS
    ServicesTypeOK
    OneSignInPerCode
    GuessesBounded
    FloodBounded
    RowsServed
    QuotaBounded
    VaultEditsKept
    ScrollComplete
    LabelBounds
    FiledReads
    OneGuest
    ThrottleHolds
    ImportOnce
CHECK_DEADLOCK FALSE

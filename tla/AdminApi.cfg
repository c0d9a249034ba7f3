SPECIFICATION Spec
CONSTANTS
    None = None
    Roles = {"ADMIN", "admin", "user", "offline_access"}
    alice = alice
    bob = bob
    Requests = {r1, r2, r3}
    Hosts = {h1, h2}
    Auditor = r3
    MaxKeys = 2
    Payloads <- SomePayloads
    Names = {n1}
    CacheTTL = 1
    TempDays = 1
    Limit = 1
    MaxSkew = 0
    MaxClock = 2
    Never = 9
    VERIFY_ISSUER = TRUE
    VERIFY_AUDIENCE = FALSE
    AwareTimestamps = FALSE
    Tokens <- SomeTokens
    Users <- AllUsers
SYMMETRY Symmetry
CONSTRAINT Bounds
INVARIANTS
    CacheHoldsItsTime
    AuthorityIsRecent
    AuditTellsTruth
    UnauditedExplained
    UserNamesUnique
    ListingsTellTruth
CHECK_DEADLOCK FALSE

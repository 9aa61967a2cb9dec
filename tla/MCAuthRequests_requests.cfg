\* Two users complete one auth request, and two requests of the service handle
\* it, around its expiry.
SPECIFICATION FairSpec
CONSTANTS
    Users = {u1, u2}
    Providers = {"google", "github"}
    CryptoKeys = {k1, k2}
    Procs = {p1, p2}
    TTL = 1
    MaxRequests = 1
    MaxCodes = 2
    MaxDeploys = 1
    MaxTime = 2
INVARIANTS
    IssuedForItsLogin
    AnsweredCodeIsSpent
PROPERTIES
    CleanupSparesLive
    RequestsAreRemoved

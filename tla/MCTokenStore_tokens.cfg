\* Two users sharing one browser, two requests at a time: concurrent login
\* callbacks, then concurrent refreshes of the same token, with revocation, logout
\* and cleanup between their statements.
SPECIFICATION Spec
CONSTANTS
    Users = {u1, u2}
    Clients = {c1}
    Browsers = {b1}
    Procs = {p1, p2}
    AccessTTL = 1
    RefreshTTL = 1
    MaxDevices = 2
    MaxLogins = 2
    MaxGrants = 3
    MaxTime = 2
SYMMETRY Symmetry
CONSTRAINT Scenario
INVARIANTS
    RefreshSingleUse
    OneTokenPairPerFamily
    RevocationIsFinal
    RotationKeepsIdentity
    LiveTokenKeepsSession
    SessionOwner
PROPERTIES
    NoAccessAfterRevocation
    ImplementsLogins

\* RevokedSessionHasNoTokens, as the design notes state it, is violated.
SPECIFICATION Spec
CONSTANTS
    Users = {u1}
    Clients = {c1}
    Browsers = {b1}
    Procs = {p1, p2}
    AccessTTL = 1
    RefreshTTL = 1
    MaxDevices = 1
    MaxLogins = 1
    MaxGrants = 2
    MaxTime = 0
SYMMETRY Symmetry
INVARIANTS
    RevokedSessionHasNoTokens

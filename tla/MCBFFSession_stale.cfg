\* A request that waited for the lock refreshes with the token it loaded before.
SPECIFICATION Spec
CONSTANTS
    Procs = {p1, p2}
    States = {st1}
    AccessTTL = 1
    Margin = 1
    HardTTL = 1
    MaxSessions = 1
    MaxTokens = 2
    MaxTime = 2
SYMMETRY Symmetry
PROPERTIES
    NoStaleRefresh

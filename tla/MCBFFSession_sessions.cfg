\* Three concurrent requests on one session; the lock may expire under its
\* holder.  The second session id is there for a state that is used twice.
SPECIFICATION Spec
CONSTANTS
    Procs = {p1, p2, p3}
    States = {st1}
    AccessTTL = 1
    Margin = 1
    HardTTL = 1
    MaxSessions = 2
    MaxTokens = 3
    MaxTime = 3
SYMMETRY Symmetry
INVARIANTS
    StoredTokenIsCurrent
    HardMaximum
    StateSingleUse
    SerializedRefresh
    LogoutIsFinal
PROPERTIES
    NewestIsSaved

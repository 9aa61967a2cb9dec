\* Three transactions of any kind at once: each is as good as atomic.
SPECIFICATION Spec
CONSTANTS
    Procs = {p1, p2, p3}
    Devices = {d1}
    MaxGrants = 3
    Kinds = {"exchange", "rotate", "revoke", "logout"}
SYMMETRY Symmetry
INVARIANTS
    NobodyWaitsForEver
PROPERTIES
    ImplementsAtomic

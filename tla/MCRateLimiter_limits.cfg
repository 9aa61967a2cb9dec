\* Half a token a tick; the global bucket holds 2 tokens, the one of /login 1.
CONSTANTS
    Clients = {c1}
    Procs = {p1, p2}
    Paths <- LoginOnly
    Minute = 16
    RPM <- RPM8
    PathBurst <- LoginBurst1
    TTL = 5
    MaxStall = 1
    MaxTime = 9
SPECIFICATION Spec
PROPERTIES NoUnearnedRefusal ImplementsBuckets
SYMMETRY Symmetry

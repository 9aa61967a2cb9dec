\* RATE_LIMIT_GLOBAL_RPM = 3: the burst of the global limiter is 3 \div 4 = 0.
CONSTANTS
    Clients = {c1}
    Procs = {p1, p2}
    Paths <- LoginOnly
    Minute = 8
    RPM <- RPM3
    PathBurst <- LoginBurst1
    TTL = 5
    MaxStall = 1
    MaxTime = 9
SPECIFICATION Spec
PROPERTIES SustainedRate
SYMMETRY Symmetry

\* Two clients, two faults, pools of one connection.
SPECIFICATION FairSpec
CONSTANTS
    Clients = {c1, c2}
    Unset = Unset
    Junk = Junk
    Environments <- MCEnvironments
    MaxWork = 1
    MaxFaults = 2
INVARIANTS
    PoolsGetBackWhatTheyLend
PROPERTIES
    DrainLosesNothing
    HTTPShutdownEnds
    EveryRequestEnds
    EveryProcessServes

SPECIFICATION FairSpec
CONSTANTS
    Daemons = {p1, p2, p3}
    Overlap = FALSE
    MaxStarted = 5
    MaxKills = 3
INVARIANTS
    ServerReachable
PROPERTIES
    RefinesOneDaemon
    StartedServes
CHECK_DEADLOCK FALSE

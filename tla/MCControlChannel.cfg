SPECIFICATION ControlSpec
CONSTANTS
    Procs = {p1, p2}
    MaxStarts = 2
    NoPath = NoPath
    Dead = Dead
    StatusClients = {s1}
    OtherClients = {o1}
    Newer = {p2}
    Environments <- MCEnvironments
    DaemonEnv <- MCDaemonEnv
    WorkDirs = {"here", "there"}
    DaemonDir = "here"
    Backlog = 0
    MaxTimeouts = 1
INVARIANTS
    StatusTruthful
    PeersOnly
    OneReachable
PROPERTIES
    CallsEnd
CHECK_DEADLOCK FALSE

SPECIFICATION Spec
CONSTANTS
    Daemons = {p1, p2, p3}
    Overlap = TRUE
    MaxStarted = 3
    MaxKills = 0
INVARIANT
    AtMostOneServing
CHECK_DEADLOCK FALSE

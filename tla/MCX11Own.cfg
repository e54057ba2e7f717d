SPECIFICATION FairSpec
CONSTANTS
    t1 = t1
    t2 = t2
    s1 = s1
    s2 = s2
    Threads <- MCThreads
    Subs <- MCSubs
    MaxWrites = 2
    MaxForeign = 2
    Environments <- MCEnvironments
INVARIANTS
    OwnerServes
    TokenOfThatWrite
PROPERTIES
    WriteReturns
    EventThreadExits
CHECK_DEADLOCK FALSE

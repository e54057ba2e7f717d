SPECIFICATION Spec
CONSTANTS
    r1 = r1
    r2 = r2
    r3 = r3
    f1 = f1
    f2 = f2
    f3 = f3
    Reals <- MCReals
    Fakes <- MCFakes
    FakeOf <- MCFakeOf
    Texts <- MCTexts
    NoFile = NoFile
    Procs = {p1}
    MaxRunning = 1
    MaxEntries = 2
    Ttl = 1
    SessionTtl = 2
    MaxTime = 5
    MaxFaults = 2
INVARIANTS
    DeliveredRestorable
    RestoresOriginal
PROPERTIES
    EndIsFinal
    RefusedFileKept
CHECK_DEADLOCK FALSE

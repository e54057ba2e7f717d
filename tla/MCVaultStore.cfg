SPECIFICATION Spec
CONSTANTS
    Procs = {p1, p2}
    Labels = {a, b}
    NoFile = NoFile
    MaxCommands = 3
    MaxFaults = 2
INVARIANTS
    VaultOpens
    AckedIsDurable
PROPERTIES
    OnlyStaleSavesLose
    ExitTruthful
CHECK_DEADLOCK FALSE

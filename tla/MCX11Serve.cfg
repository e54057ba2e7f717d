SPECIFICATION FairSpec
CONSTANTS
    Requestors = {q1, q2}
    Lengths = {1, 2, 3}
    Cap = 1
    MaxWrites = 2
    MaxPastes = 3
    Environments <- MCEnvironments
INVARIANTS
    PastesOneText
    TransferIntact
PROPERTIES
    PasteEnds
CHECK_DEADLOCK FALSE

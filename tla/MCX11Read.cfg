SPECIFICATION FairSpec
CONSTANTS
    r1 = r1
    r2 = r2
    Readers <- MCReaders
    Environments <- MCEnvironments
    Cap = 2
    BadTexts = {2}
    MaxReads = 3
INVARIANTS
    ReadIsOwnAnswer
PROPERTIES
    AnswerNotDropped
    ReadReturns
CHECK_DEADLOCK FALSE

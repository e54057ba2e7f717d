SPECIFICATION Spec
CONSTANTS
    Threads = {t1, t2}
    Texts = {x}
    NoText = NoText
    Subs = {s1, s2}
    MaxChanges = 2
    MaxReads = 1
    LateDrops = TRUE
PROPERTY DropEndsCallbacks
CHECK_DEADLOCK FALSE

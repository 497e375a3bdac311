SPECIFICATION FairSpec
CONSTANTS
    b1 = b1
    b2 = b2
    w1 = w1
    w2 = w2
    Batches = {b1, b2}
    EmptyScan = EmptyScan
    BatchLen = 2
    Merged = {b2}
    Workers = {w1, w2}
    MaxReceiveCount = 3
    DeleteOnSuccess = TRUE
    Faults = {"Crash", "Duplicate"}
    MaxAccidents = 3
INVARIANTS
    TypeOK
    NoObjectLost
    ParentTruthful
PROPERTIES
    TokenResolved
CHECK_DEADLOCK FALSE

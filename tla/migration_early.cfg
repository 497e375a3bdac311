SPECIFICATION FairSpec
CONSTANTS
    b1 = b1
    b2 = b2
    w1 = w1
    w2 = w2
    Batches = {b1, b2}
    EmptyScan = EmptyScan
    BatchLen = 2
    Merged = {b2}
    Workers = {w1, w2}
    MaxReceiveCount = 2
    DeleteOnSuccess = TRUE
    Faults = {"EarlyDelivery", "StaleRead", "S3Error", "ScanCrash"}
    MaxAccidents = 0
INVARIANTS
    HasObjectsTruthful
    NoObjectsTruthful
PROPERTIES
    QuietAfterSuccess
    FailureAnswered
    PromiseSpec
CHECK_DEADLOCK FALSE

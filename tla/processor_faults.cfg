SPECIFICATION FairSpec
CONSTANTS
    o1 = o1
    o2 = o2
    e1 = e1
    e2 = e2
    e3 = e3
    Objects = {o1, o2}
    Executions = {e1, e2}
    MaxRecords = 2
    MaxRetries = 0
    Faults = {"Overlap", "S3Error", "Masked", "EarlyTotal", "QueryError", "PartialInsert"}
INVARIANTS
    TypeOK
    SucceededLoaded
    NothingForgotten
PROPERTIES
    ListedHandled
CHECK_DEADLOCK FALSE

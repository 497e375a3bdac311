SPECIFICATION Spec
CONSTANTS
    o1 = o1
    o2 = o2
    e1 = e1
    e2 = e2
    e3 = e3
    Objects = {o1, o2}
    Executions = {e1, e2, e3}
    MaxRecords = 1
    MaxRetries = 1
    Faults = {"S3Error", "EarlyTotal", "QueryError", "ServiceError"}
SYMMETRY Symmetric
INVARIANTS
    LoadedOnce
CHECK_DEADLOCK FALSE

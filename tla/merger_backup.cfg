SPECIFICATION Spec
CONSTANTS
    r1 = r1
    r2 = r2
    r3 = r3
    p1 = p1
    p2 = p2
    m = m
    e1 = e1
    e2 = e2
    Rows = {r1, r2}
    Partitions = {p1, m}
    PartitionOf <- OnePartition
    MergedOf <- OneMerged
    Executions = {e1, e2}
    MaxEarly = 1
    Faults = {"S3Error", "EarlyTotal", "QueryError", "LateInsert", "ServiceError"}
SYMMETRY Symmetric
VIEW Unreported
INVARIANTS
    BackedUp
    NeverTwice
CHECK_DEADLOCK FALSE

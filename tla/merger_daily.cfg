SPECIFICATION FairSpec
CONSTANTS
    r1 = r1
    r2 = r2
    r3 = r3
    p1 = p1
    p2 = p2
    m = m
    e1 = e1
    e2 = e2
    Rows = {r1, r2, r3}
    Partitions = {p1, p2, m}
    PartitionOf <- RowsPartition
    MergedOf <- OneMerged
    Executions = {e1}
    MaxEarly = 1
    Faults = {"S3Error", "EarlyTotal"}
INVARIANTS
    SucceededVisible
PROPERTIES
    DropsOnlyEmptied
    RowsPublished
CHECK_DEADLOCK FALSE

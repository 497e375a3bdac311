SPECIFICATION Spec
CONSTANTS
    p1 = p1
    p2 = p2
    t1 = t1
    t2 = t2
    l1 = l1
    l2 = l2
    Customer = Customer
    Pipelines = {p1, p2}
    Tables = {t1, t2}
    Locations = {l1, l2}
    Tries = 2
    Failing = {"read", "readBucketPolicy", "readRolePolicy", "write", "call", "drop"}
    MaxFailures = 2
SYMMETRY Symmetric
INVARIANTS
    TypeOK
    Complete
    NothingLeft
    Granted
    CustomerKept
CONSTRAINT FewAccidents
CHECK_DEADLOCK FALSE

SPECIFICATION FairSpec
CONSTANTS
    c1 = c1
    c2 = c2
    c3 = c3
    c4 = c4
    Calls = {c1, c2, c3, c4}
    Kinds = {"svc", "app"}
    Careful = TRUE
    Faults = {"StartFails", "UpdateFails", "StopFails", "QueryFails", "StackFails", "NotifyFails", "CallDies"}
    MaxAccidents = 2
INVARIANTS
    TypeOK
    NoOrphan
    DeleteSticks
    NoIngestionLeft
    Unthrottled
    ActiveWorks
    RoleKept
PROPERTY Settles
CHECK_DEADLOCK FALSE

SPECIFICATION FairSpec
CONSTANTS
    w1 = w1
    w2 = w2
    e1 = e1
    NoEvent = NoEvent
    NoEnv = NoEnv
    Containers = {w1, w2}
    Events = {e1}
    Len0 = 3
    Sources = {"EVENT_BRIDGE", "KDS", "MSK"}
    Limits = {1, 3}
    FullPayload = 2
    SmallPayload = 1
    InitJobs <- MCInitJobs
    Faults = {"ServerError", "LostResponse", "Rejects", "ExportError", "Crash", "Duplicate", "Conflict", "SameSecond"}
    MaxAccidents = 2
INVARIANTS
    TypeOK
PROPERTIES
    Settles
CHECK_DEADLOCK FALSE

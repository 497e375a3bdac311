SPECIFICATION Spec
CONSTANTS
    w1 = w1
    w2 = w2
    e1 = e1
    e2 = e2
    NoEvent = NoEvent
    NoEnv = NoEnv
    Containers = {w1, w2}
    Events = {e1, e2}
    Len0 = 2
    Sources = {"EVENT_BRIDGE", "MSK"}
    Limits = {1, 2}
    FullPayload = 2
    SmallPayload = 1
    InitJobs <- MCInitJobs
    Faults = {"ServerError", "LostResponse", "Rejects", "ExportError", "Crash", "Duplicate", "Conflict"}
    MaxAccidents = 1
INVARIANTS
    Accounted
    InitialisedFirst
    LoadedOnce
    Adapts
SYMMETRY ContainerSymmetry
CHECK_DEADLOCK FALSE

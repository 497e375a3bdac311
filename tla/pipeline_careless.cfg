SPECIFICATION Spec
CONSTANTS
    c1 = c1
    c2 = c2
    c3 = c3
    c4 = c4
    Calls = {c1, c2, c3, c4}
    Kinds = {"svc", "app"}
    Careful = FALSE
    Faults = {"StartFails", "UpdateFails", "StopFails", "QueryFails", "StackFails", "NotifyFails", "CallDies", "Slow"}
    MaxAccidents = 1
SYMMETRY CallSymmetry
INVARIANTS
    InactiveMeansDeleted
PROPERTY AnswersOnce
CHECK_DEADLOCK FALSE

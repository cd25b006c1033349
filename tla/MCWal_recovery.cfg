SPECIFICATION Spec
CONSTANTS
    p1 = p1
    p2 = p2
    Procs = {p1, p2}
    Alone = TRUE
    RecoverFirst = TRUE
    MaxWrites = 4
    MaxCrashes = 3
    MaxTorn = 1
INVARIANTS
    RecoveredIsLatest
    LogCoversStore
PROPERTIES
    ForwardWhileWhole

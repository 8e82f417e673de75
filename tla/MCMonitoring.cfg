CONSTANTS
    Tasks = {t1, t2}
    Conns = {c1, c2}
    First = c1
    Null = Null
    Undef = Undef
    MaxNear = 0
    Switching = TRUE
    MaxCalls = 4
    MaxCrashes = 1
    MaxFailures = 2
SPECIFICATION Spec
SYMMETRY TaskSymmetry
INVARIANTS
    TypeOK
    SavedAgreesAtRest
    FlagMatchesSubscription

CONSTANTS
    Tasks = {t1}
    Conns = {c1, c2}
    First = c1
    Null = Null
    Undef = Undef
    MaxNear = 0
    Switching = FALSE
    MaxCalls = 6
    MaxCrashes = 2
    MaxFailures = 0
SPECIFICATION FairSpec
INVARIANTS
    OneTrackedSubscription
PROPERTIES
    ImplementsSession

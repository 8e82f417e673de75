CONSTANTS
    Tasks = {t1, t2}
    Conns = {c1, c2}
    First = c1
    Null = Null
    Undef = Undef
    MaxNear = 1
    Switching = FALSE
    MaxCalls = 3
    MaxCrashes = 0
    MaxFailures = 1
SPECIFICATION FairSpec
INVARIANTS
    SubscriptionsHaveCauses
PROPERTIES
    RestartResumes

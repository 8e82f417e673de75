CONSTANTS
    Tasks = {t1}
    Conns = {c1, c2}
    First = c1
    Null = Null
    Undef = Undef
    MaxNear = 0
    Switching = TRUE
    MaxCalls = 3
    MaxCrashes = 0
    MaxFailures = 0
SPECIFICATION Spec
PROPERTIES
    StopRemovesListener

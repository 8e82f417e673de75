CONSTANTS
    Tokens = {"t1", "t2"}
    INTERVAL = 2
    DURATION = 4
    Workers = {"w1", "w2"}
    Metrics <- MCMetrics
SPECIFICATION FairSpec
INVARIANTS
    TypeOK
    ChecksWithinLimit
    CheckedToTheEnd
PROPERTIES
    QueueDrains

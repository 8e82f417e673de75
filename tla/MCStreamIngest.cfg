CONSTANTS
    Batches = {"b1", "b2", "b3", "b4"}
    Requests = {"r1", "r2"}
    RequestOf <- MCRequestOf
    N = 2
    Mints = {"m1"}
    Tx <- MCTx
    MAX_RETRIES = 2
    Lagging = {"b3"}
SPECIFICATION FairSpec
CHECK_DEADLOCK FALSE
INVARIANTS
    TypeOK
    HoldersFollowTrades
    StoredOncePerAttempt
    NoOrphanTrade
    SuccessCountsTrades
PROPERTIES
    EveryRequestIsAnswered
    ImplementsLedger

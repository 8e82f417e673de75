CONSTANTS
    Handlers = {"h1", "h2", "h3"}
    Users = {"creator", "other"}
    Trades <- MCTrades
    SCALE = 1000
    MAX_RETRIES = 2
    MaxTrades = 3
    MaxCrashes = 2
    MaxFailures = 2
SPECIFICATION FairSpec
CHECK_DEADLOCK FALSE
INVARIANTS
    TypeOK
    OneDocumentPerHolder
    HoldingIsNetOfTrades
    HoldingWithinAttempts
PROPERTIES
    StartCompletes

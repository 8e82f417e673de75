CONSTANTS
    BYTE = 4
    MaxSlot = 3
    MAX_RETRIES = 3
    Initial <- MCInitial
    Amounts = {2, 6}
    Bounds = {0, 9}
SPECIFICATION FairSpec
CHECK_DEADLOCK FALSE
INVARIANTS
    SalesAreDecoded

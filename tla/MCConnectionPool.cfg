CONSTANTS
    N = 3
    RateLimit <- MCRateLimit
    REQUEST_WINDOW = 2
    CooldownPeriod = 2
    MaxTimers = 2
SPECIFICATION FairSpec
INVARIANTS
    TypeOK
    ActiveBelowLimit
    CoolingHasTimer
    ThrowsOnlyWhenAllCooling
PROPERTIES
    RotatesAway
    CooldownEnds

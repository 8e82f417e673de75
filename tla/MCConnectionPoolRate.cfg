CONSTANTS
    N = 2
    RateLimit <- MCRateLimit
    REQUEST_WINDOW = 2
    CooldownPeriod = 2
    MaxTimers = 2
SPECIFICATION RateSpec
PROPERTIES
    CoolsDownAtRateLimit

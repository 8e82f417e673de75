CONSTANTS
    Callers = {"t1", "o1"}
    Tasks = {"t1"}
    SolPrices = {200, 250}
    CACHE_DURATION = 1
    MaxTrip = 1
    Worlds = {"entering", "risen", "untraded", "missing"}
    Facts <- MCFacts
    MaxMoves = 1
    LAMPORTS = 10
    UNITS = 10
    None = None
SPECIFICATION Spec
INVARIANTS
    TypeOK
    NoEntrySignal
    QuoteFresh
    UnknownEntryClosesAtOnce
    ProfitForCause

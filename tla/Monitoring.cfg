SPECIFICATION Spec
CONSTANTS
    Horizon = 6
    Prices = {90, 98, 100}
    CrashPct = 2
    CrashWindow = 1
    PauseLength = 2
    RecoveryPct = 50
    MaxTicks = 4
    Sources = {"quotes", "bars"}
    FeedTimeout = 1
    FeedEmergency = 2
    ApiRetries = 2
    ApiEscalation = 1
    Strategies = {s1, s2}
    Fingerprints = {"buy 1", "buy 2"}
    RateWindow = 1
    MaxPerMinute = 3
    DuplicateWindow = 1
    AttemptWindow = 2
    MaxAttempts = 1
    A = A
    B = B
    Tickets = {t1, t2}
    Stocks = {A, B}
    SectorOf <- MCSector
    StrategyOf <- MCSector
    Quantities = {1, 2}
    Equity0 = 4
    BreakerStates = {"NORMAL", "RESTRICTED"}
    Limits <- MCLimits
    Lookback = 2
    CacheTtl = 1
    Versions = 3
    Lots = {1, 2}
    MaxRows = 5
    MaxShares = 3
    MaxTroubles = 2
INVARIANTS
    PauseAnswersToFall
    OutageIsReal
    OrderFlowCapped
    ExposureBounded
    HistoryHeals
    DriftIsReported
CHECK_DEADLOCK FALSE

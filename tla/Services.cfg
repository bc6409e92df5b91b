SPECIFICATION ServicesSpec
CONSTANTS
    Tasks = {t1, t2, t3}
    Workers = {w1}
    Stoppers = {s1}
    QueueSize = 1
    Nested = {t3}
    Expiring = {t3}
    None = None
    Fetchers = {p1, p2, p3}
    Hooks = {h1, h2, h3}
    Checkers = {k1, k2, k3}
    NTasks = 4
    NilTasks = {2}
    concurrency = 2
    Attempts = 4
    InitialWaits = {0, 1, 2}
    MaxWaits = {0, 3}
CHECK_DEADLOCK FALSE
INVARIANTS
    CancelIsolated
    ReportComplete
    ResultTruthful
    AttemptsClean
    BreakerToldTruth
    WithinLimits
    HealthTruthful
    FailuresTraced
    CountedAsAnswered
PROPERTIES
    StopReturns
    AcceptedTasksFinish
    CallersReturn
    ShutdownEnds

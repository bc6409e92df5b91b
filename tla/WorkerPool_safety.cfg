SPECIFICATION MCSpec
CONSTANTS
    Tasks = {t1, t2, t3}
    Workers = {w1, w2}
    Stoppers = {s1, s2}
    QueueSize = 1
    Nested = {t1, t2, t3}
    Expiring = {t1, t2, t3}
    None = None
    Hooks = {"workerpool", "cache", "http_server"}
SYMMETRY Symmetry
INVARIANTS
    NoChannelPanic
    NoTaskLost
    DrainComplete
    QueuedTasksRun

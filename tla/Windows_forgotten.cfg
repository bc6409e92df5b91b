SPECIFICATION WindowsSpec
CONSTANTS
    Parts = {"sliding"}
    Calls = {c1, c2, c3}
    resetTimeout = 1
    maxHalfOpen = 2
    DefaultReset = 30
    CallbackPanics = TRUE
    ratioNum = 1
    ratioDen = 2
    minRequests = 3
    window = 2
    MaxRecords = 4
    Replicas = {c1, c2, c3}
    Procs = {p1, p2}
    Amounts = {0, 1, 2}
    None = None
    limit = 2
    bucketIdle = 4
    slidingWindow = 4
    slidingIdle = 2
    MaxTime = 5
    LimiterKeys = {"k"}
    gcInterval = 2
    Ids = {1, 2, 3}
    refillRate = 2
    sharedWindow = 2
    refillInterval = 3
SYMMETRY Symmetry
INVARIANT
    WindowHolds

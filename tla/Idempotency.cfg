SPECIFICATION MCSpec
CONSTANTS
    Requests = {r1, r2, r3}
    Keys = {k1, k2, k3}
    None = None
    Gin = FALSE
    lockTTL = 1
    responseTTL = 0
    Cancels = FALSE
    Prompt = TRUE
    MaxTime = 3
    maxEntries = 0
    Deletes = FALSE
    ChaosTime = 2
    ChaosEntries = 2
    pgGin = TRUE
    pgPrompt = TRUE
    pgLockTTL = 1
    pgResponseTTL = 1
SYMMETRY Symmetry
INVARIANTS
    LockExclusive
    AtMostOneSuccess
    ReplaysTruthful
    PGLockExclusive
PROPERTIES
    PGResponseKept

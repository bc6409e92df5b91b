SPECIFICATION Spec
CONSTANTS
    Requests = {r1, r2}
    Keys = {k1, k2}
    None = None
    Gin = FALSE
    lockTTL = 0
    responseTTL = 0
    Cancels = TRUE
    Prompt = FALSE
    MaxTime = 1
    maxEntries = 0
    Deletes = FALSE
INVARIANTS
    RetryAfterFailure

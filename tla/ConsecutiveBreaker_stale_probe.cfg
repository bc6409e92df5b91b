SPECIFICATION Spec
CONSTANTS
    Calls = {c1, c2, c3}
    maxFailures = 1
    resetTimeout = 1
    DefaultReset = 60
    maxHalfOpen = 2
    CallbackPanics = FALSE
INVARIANTS
    ProbesBounded

SPECIFICATION CacheSpec
CONSTANTS
    Parts = {"sampled"}
    Keys = {"a", "b", "c", "d"}
    capacity = 3
    MaxFreq = 3
    Nil = Nil
    Procs = {p1, p2, p3}
    SampledKeys = {"a", "b", "c"}
    Capacities = {0}
    StripeOf <- TwoStripes
    Callers = {"r1", "r2"}
    Kids = {"a", "b"}
    cacheTTL = 2
    Versions = 2
SYMMETRY Symmetry
PROPERTIES
    CleanUpSparesLive

SPECIFICATION CacheSpec
CONSTANTS
    Key = {k1, k2}
    Accessor = {a1, a2}
    PosTTL = 1
    NegTTL = 0
    Cap = 1
    Lag = 1
    MaxTime = 3
    MaxWrites = 2
    MaxFailures = 1
SYMMETRY AnyOrder
INVARIANT CacheCapped
CHECK_DEADLOCK FALSE

\* A tenant with an rps limit and one with a daily quota, against eviction,
\* cache fills, quota changes and failing queries.
SPECIFICATION Spec
CONSTANTS
    a = a
    h1 = h1
    h2 = h2
    Tenant = {a}
    Handler = {h1, h2}
    Limits <- Smaller
    InitialLimits <- Start
    DefaultRate = 1
    DefaultBurst = 2
    DefaultBytes = 1
    FrameSizes = {1}
    IdleTicks = 1
    CacheTicks = 1
    DayTicks = 3
    MaxTime = 3
    MaxUsage = 1
    MaxFailures = 1
SYMMETRY Handlers
INVARIANTS RateIsBounded
PROPERTIES QuotaOverrunIsBounded
CHECK_DEADLOCK FALSE

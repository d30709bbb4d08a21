SPECIFICATION MCSpec
CONSTANTS
    Sources = {s1}
    Slots = {q1, q2}
    Rate = 1
    Burst = 2
    Quota = 1
    HourlyCap = 1
    TouchInterval = 9
    HourLen = 2
    DayLen = 2
    Sampling = TRUE
    Failing = TRUE
    Batches <- MCBatches
    MaxRecords = 1
    MaxRejects = 1
    MaxClock = 2
    MaxArrivals = 3
    p1 = p1
    p2 = p2
    o1 = o1
    o2 = o2
    Calls = {c1, c2}
    Callers = {u1, u2}
    SuperAdmins = {u2}
    Projects = {p1, p2}
    Owner <- MCOwner
    AppQuota = 1
    Breaks = TRUE
    MaxEntries = 1
    MaxDay = 1
    MaxCalls = 2
INVARIANTS RateBound UsageConserved QuotaOvershootBounded AppUsageAgrees
PROPERTIES WrittenWhereAllowed
SYMMETRY SlotSymmetry
CHECK_DEADLOCK FALSE

SPECIFICATION MCSpec
CONSTANTS
    Releases = {v1}
    Fingerprints = {f1, f2}
    Raw = f1
    Resolved = f2
    Release = v1
    ReleaseOf <- MCReleaseOf
    RawFp <- MCRawFp
    ResolvedFp <- MCResolvedFp
    Weight <- MCWeight
    Events = {e1, e2}
    Workers = {w1, w2}
    Resolvable = {e1}
    BatchSize = 1
    MaxProcessAttempts = 2
    MaxCachedMaps = 1
    Faults = TRUE
    Crashes = FALSE
    Retention = FALSE
    MaxIssues = 2
    MaxChanges = 2
    MaxDeliveries = 1
    Heavy = {e1}
    u1 = u1
    root = root
    co1 = co1
    co2 = co2
    s1 = s1
    s2 = s2
    a1 = a1
    p1 = p1
    p2 = p2
    Members = {u1, root}
    Supers = {root}
    Companies = {co1, co2}
    Sites = {s1, s2}
    CompanyOf <- MCCompanyOf
    Addresses = {a1}
    Posts = {p1, p2}
    Reports <- MCReports
    TicksPerSecond = 2
    TokensPerTick = 1
    IpBurst = 3
    SweepInterval = 3
    Skew = 1
    MaxFrames = 1
    SpikeSettings <- MCSettings
    SpikeDefaults <- MCDefaults
    LastInstant = 5
    MaxReports = 3
    MaxTriage = 1
    MaxPasses = 1
INVARIANTS OneIssuePerFingerprint TriageConsistent AskedWaitSuffices ReportsStayInTeam SameCrashSameIssue
PROPERTIES SpikesStandOut
CHECK_DEADLOCK FALSE

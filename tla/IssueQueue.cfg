SPECIFICATION FairSpec
CONSTANTS
    Releases = {v1}
    Fingerprints = {f1, f2}
    Raw = f1
    Resolved = f2
    Release = v1
    ReleaseOf <- MCReleaseOf
    RawFp <- MCRawFp
    ResolvedFp <- MCResolvedFp
    Weight <- MCWeight
    Events = {e1, e2}
    Workers = {w1}
    Resolvable = {e1, e2}
    BatchSize = 1
    MaxProcessAttempts = 2
    MaxCachedMaps = 1
    Faults = TRUE
    Crashes = TRUE
    Retention = TRUE
    MaxIssues = 2
    MaxChanges = 2
    MaxDeliveries = 1
    Heavy = {}
INVARIANT CountCoversEvents
PROPERTY EventuallyDone
CHECK_DEADLOCK FALSE

SPECIFICATION FairSpec
CONSTANTS
    Records = {1, 2, 3}
    BatchSize = 2
    AuditDays = 1
    MaxClock = 3
    MaxFailures = 1
INVARIANT PassedMeansDelivered
PROPERTY EventuallyDelivered
CHECK_DEADLOCK FALSE

SPECIFICATION FairSpec
CONSTANTS
    App = app
    Infra = infra
    Passes <- BothPasses
    Days <- BothDays
    InfraDays = 1
    HourLen = 2
    BatchSize = 2
    MaxRows = 3
    MaxStops = 1
    MaxLag = 1
    MaxClock = 3
    MaxBatch = 2
INVARIANT NeverOverReports
INVARIANT NeverUnderReports
PROPERTY ExpiredDeleted

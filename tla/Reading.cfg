SPECIFICATION MCSpec
CONSTANTS
    issuer = r1
    Requests = {r1, r2, r3}
    Users = {u1, u2}
    Admins = {}
    OrgAdmins = {u2}
    Projects = {p1, p2}
    Tickets = {t1}
    NoTicket = NoTicket
    TTL = 0
    MaxClock = 1
    People = {ann, bob}
    SuperUsers = {}
    OrgProjects = {web}
    NoPin = NoPin
    Records = {s1}
    Visits = {v1, v2}
    MaxChanges = 1
    LogIds = {1, 2, 3}
    LogProjects = {web, api}
    KeyPin = web
    LastTime = 3
    RawWindow = 1
    PageSizes = {1, 2}
    ExportPage = 1
    RowCaps = {2}
    MaxFanOut = 2
    RowIds = {1, 2, 3}
    ChartProjects = {web, api}
    ChartNow = 2
    LastStamp = 3
    Intervals = {1, 2, 4}
    HourWidth = 2
    RawSpan = 2
    DefaultSpan = 1
    BucketCap = 2
    DefaultLimit = 1
    LimitCap = 2
    TotalCap = 1
INVARIANTS SingleUse RecordsReachTheirReaders PagesAreComplete 
CHECK_DEADLOCK FALSE

SPECIFICATION MCSpec
CONSTANTS
    Sources = {s1, s2}
    Operators = {o1, o2}
    Lifetimes = {0, 1}
    MaxKeys = 4
    MaxClock = 2
    ApiKeyIDs = {k1, k2}
    Readers = {r1}
    DefaultRate = 0
    DefaultBurst = 0
    KeyRates = {0, 2}
    KeyBursts = {0}
    CostExport = 2
    IdleMinutes = 1
    TouchInterval = 2
    LastMinute = 4
    People = {u1}
    Handlers = {h1, h2}
    CacheTTL = 2
    MaxRequest = 1
    LastInstant = 6
    Workspaces = {w1, w2}
    Logins = {l1, l2}
    Mailboxes = {e1, e2}
    Permitted = {e1}
    LoginStateTTL = 1
    SessionCodeTTL = 1
    LastSecond = 2
INVARIANTS ReplacedKeyRefused BucketIsExact StalenessBounded SessionMatchesLogin
CHECK_DEADLOCK FALSE

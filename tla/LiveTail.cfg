SPECIFICATION TailSpec
CONSTANTS
    Conns = {c1}
    TailProjects = {p1, p2}
    Ingesters = {g1, g2}
    SendBuffer = 2
    MaxBatches = 2
INVARIANT NothingLost
PROPERTIES BroadcastFinishes ClosedIsCleanedUp
CHECK_DEADLOCK FALSE

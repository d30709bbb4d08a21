SPECIFICATION MCSpec
CONSTANTS
    r1 = r1
    d2 = d2
    e1 = e1
    Rules = {r1, r2}
    Conns = {c1}
    Projects = {p1}
    ProjectOf <- OneProject
    AllProjects = all
    Levels = {"ERROR"}
    Dispatchers = {d1, d2}
    Evaluators = {e1}
    DedupSettings = {0}
    DefaultDedupWindow = 1
    MaxClock = 1
    MaxEvents = 2
    MaxMatch = 1
    MaxFired = 3
    MaxPages = 2
    MaxEdits = 1
    Teams = {web, api}
    ConnIds = {k1, k2}
    RuleIds = {n1}
    Editors = {a1, a2}
    UsedLevels = {"WARN", "ERROR"}
    MaxCount = 3
    CountCap = 2
    MaxWindow = 1
    MaxLogs = 2
    LastTick = 2
    MaxWrites = 4
INVARIANTS AtMostOneOpen MatchCountConserved AlertsStayInProject 
PROPERTIES AckSilences DedupWindowQuiet ImplementsLifecycle
CHECK_DEADLOCK FALSE

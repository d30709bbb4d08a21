SPECIFICATION MCSpec
CONSTANTS
    founder = founder
    admin = admin
    viewer = viewer
    org = org
    Users = {founder, admin, viewer, guest}
    Orgs = {org, org2}
    project = project
    Projects = {project, p2}
    Requests = {r1, r2}
    Invites = {i1}
    MaxOrgsPerUser = 1
    MaxMembers = 6
    MaxTokens = 2
    AskedRoles = {"ORG_ADMIN", "VIEWER"}
    Budget = 3
    Payers = {a1, a2}
    StripeSubs = {x1, x2}
    FreeDays = 1
    ProDays = 2
    MaxUnderWay = 2
INVARIANTS OwnerStaysAdmin VisibilityAgrees AcceptedIsComplete PaidKeepsLink
SYMMETRY RequestSymmetry
CHECK_DEADLOCK FALSE

------------------------------ MODULE Tenancy ------------------------------
(***************************************************************************)
(* Organizations, membership, projects and project access                  *)
(* (business/domain/orgbus, projectbus, app/domain/orgapp, projectapp,     *)
(* app/sdk/mid/authorize.go, authorizeproject.go).                         *)
(*                                                                         *)
(* The tables of one database, each statement atomic and none in a common  *)
(* transaction.  A request is a handler between two of its statements; it  *)
(* may fail at any of them.  The audit extension records a change in a     *)
(* statement of its own, after the change.                                 *)
(***************************************************************************)
EXTENDS Naturals, FiniteSets

CONSTANTS
    Users, Orgs, Projects,
    Requests,         \* concurrent requests
    MaxOrgsPerUser,
    MaxMembers,       \* bound on membership rows ever inserted
    AskedRoles        \* the roles requests ask for


NoUser == "no_user"
NoOrg  == "no_org"
Gone   == "gone"      \* of a project that was deleted
Roles  == {"SUPER_ADMIN", "ORG_ADMIN", "PROJECT_MANAGER", "VIEWER"}

\* SUPER ADMIN is a platform role, which no membership holds.
MembershipRoles == Roles \ {"SUPER_ADMIN"}

ASSUME TenancyAssumption ==
    /\ MaxOrgsPerUser \in Nat \ {0} /\ MaxMembers \in Nat /\ AskedRoles \subseteq MembershipRoles
    /\ NoUser \notin Users /\ Orgs \cap {NoOrg, Gone} = {}

VARIABLES
    users,      \* accounts that exist
    orgs,       \* organizations: [state, owner, enabled]; an id is used once
    members,    \* org_members: [id, org, user, role]
    memberIDs,  \* rows inserted into org_members so far
    projects,   \* the organization of each project; an id is used once
    grants,     \* user_project_access
    free,       \* organizations that have their free subscription
    trail,      \* the audit trail: [action, id]
    req,        \* requests in flight
    removed     \* history: <<user, org>> memberships the identity provider ended,
                \* <<user, NoOrg>> accounts deleted

tenancyVars == <<users, orgs, members, memberIDs, projects, grants, free, trail, req, removed>>

Idle == [op |-> "idle"]

NewOrg == [state |-> "new", owner |-> NoUser, enabled |-> TRUE]

OrgRow(creator) == [state |-> "live", owner |-> creator, enabled |-> TRUE]

MemberRow(id, o, u, role) == [id |-> id, org |-> o, user |-> u, role |-> role]

\* The identities of users and of the first organizations come from elsewhere.
TenancyInit ==
    /\ users = Users
    /\ orgs = [o \in Orgs |-> NewOrg]
    /\ members = {} /\ memberIDs = 0
    /\ projects = [p \in Projects |-> NoOrg]
    /\ grants = {} /\ free = {} /\ trail = {} /\ removed = {}
    /\ req = [s \in Requests |-> Idle]
----------------------------------------------------------------------------
(* Queries. *)

Live(o) == orgs[o].state = "live"

Exists(p) == projects[p] \in Orgs

CountOwned(u) == Cardinality({o \in Orgs : Live(o) /\ orgs[o].owner = u})

QueryMembers(o) == {m \in members : m.org = o}

QueryByUserID(u) == {m \in members : m.user = u}

\* queryMine: the organizations a user belongs to
QueryMine(u) == {o \in Orgs : \E m \in QueryByUserID(u) : m.org = o}

QueryMemberByID(id) == {m \in members : m.id = id}

OrgAdminCount(o) == Cardinality({m \in QueryMembers(o) : m.role = "ORG_ADMIN"})

\* AuthorizeOrgAdmin and AuthorizeOrgOwner, for a caller without the platform role
AuthorizeOrgAdmin(u, o) == \E m \in QueryByUserID(u) : m.org = o /\ m.role = "ORG_ADMIN"

AuthorizeOrgOwner(u, o) == Live(o) /\ orgs[o].owner = u
----------------------------------------------------------------------------
(* Requests. *)

Start(s, r) == req[s] = Idle /\ req' = [req EXCEPT ![s] = r]

Step(s, r) == req' = [req EXCEPT ![s] = r]

Finish(s) == Step(s, Idle)

\* A change that its audit extension records next, and what follows the record
Audited(s, rec, then) == Step(s, [op |-> "audit", rec |-> rec, then |-> then])

Record(action, id) == [action |-> action, id |-> id]

OrgCreated(o)      == Record("org.created", o)
OrgUpdated(o)      == Record("org.updated", o)
OrgDeleted(o)      == Record("org.deleted", o)
UserJoined(id)     == Record("user.joined", id)
UserRemoved(id)    == Record("user.removed", id)
RoleChanged(id)    == Record("user.role_changed", id)
ProjectCreated(p)  == Record("project.created", p)
ProjectDeleted(p)  == Record("project.deleted", p)
ProjectGranted(p)  == Record("project.granted", p)

Audit(s) ==
    /\ req[s].op = "audit"
    /\ trail' = trail \cup {req[s].rec}
    /\ Step(s, req[s].then)
    /\ UNCHANGED <<users, orgs, members, memberIDs, projects, grants, free, removed>>

\* A statement fails, or the client is gone: what was written stays.
Abandon(s) ==
    /\ req[s] # Idle
    /\ Finish(s)
    /\ UNCHANGED <<users, orgs, members, memberIDs, projects, grants, free, trail, removed>>
----------------------------------------------------------------------------
(* Membership rows. *)

MemberExists(o, u) == \E m \in members : m.org = o /\ m.user = u

\* Store.AddMember: the foreign keys, then the unique (org_id, user_id)
CanInsertMember(o, u) == Live(o) /\ u \in users /\ ~MemberExists(o, u)

InsertMember(o, u, role) ==
    IF CanInsertMember(o, u)
    THEN members \cup {MemberRow(memberIDs + 1, o, u, role)}
    ELSE members

\* orgbus.AddMember and its audit record; a caller takes ErrMemberExists for an
\* answer and every other error for a failure.  An organization or an account
\* that is gone is a failure.
AddMember(s, o, u, role, then) ==
    /\ memberIDs < MaxMembers
    /\ members' = InsertMember(o, u, role)
    /\ IF CanInsertMember(o, u)
       THEN memberIDs' = memberIDs + 1 /\ Audited(s, UserJoined(memberIDs + 1), then)
       ELSE UNCHANGED memberIDs /\ Step(s, IF MemberExists(o, u) THEN then ELSE Idle)
    /\ UNCHANGED <<users, orgs, projects, grants, free, trail, removed>>

DeleteMember(id) == members \ QueryMemberByID(id)

\* RemoveMember, by the id of the row; its extension reads the row first
RemoveMember(s, id) ==
    /\ members' = DeleteMember(id)
    /\ IF QueryMemberByID(id) = {} THEN Finish(s)
       ELSE Audited(s, UserRemoved(id), Idle)
    /\ UNCHANGED <<users, orgs, memberIDs, projects, grants, free, trail>>

SetMemberRole(id, role) ==
    DeleteMember(id) \cup {[m EXCEPT !.role = role] : m \in QueryMemberByID(id)}

\* UpdateMemberRole, by the id of the row
UpdateMemberRole(s, id, role) ==
    /\ members' = SetMemberRole(id, role)
    /\ IF QueryMemberByID(id) = {} THEN Finish(s)
       ELSE Audited(s, RoleChanged(id), Idle)
    /\ UNCHANGED <<users, orgs, memberIDs, projects, grants, free, trail, removed>>
----------------------------------------------------------------------------
(* orgapp: create, delete, update an organization. *)

\* The ownership cap of orgbus.Create
UnderCap(u) == CountOwned(u) < MaxOrgsPerUser

CreateOrg(s, u, o) ==
    /\ u \in users /\ orgs[o].state = "new" /\ UnderCap(u)
    /\ \A t \in Requests : req[t].op \in {"insert_org", "seed_admin", "seed_plan"} => req[t].org # o
    /\ Start(s, [op |-> "insert_org", org |-> o, user |-> u])
    /\ UNCHANGED <<users, orgs, members, memberIDs, projects, grants, free, trail, removed>>

InsertOrg(s) ==
    /\ req[s].op = "insert_org"
    /\ LET o == req[s].org  u == req[s].user
       IN  IF u \in users
           THEN /\ orgs' = [orgs EXCEPT ![o] = OrgRow(u)]
                /\ Step(s, [req[s] EXCEPT !.op = "seed_admin"])
           ELSE UNCHANGED orgs /\ Finish(s)
    /\ UNCHANGED <<users, members, memberIDs, projects, grants, free, trail, removed>>

\* The creator's membership; storer.AddMember, which no extension sees
SeedAdmin(s) ==
    /\ req[s].op = "seed_admin" /\ memberIDs < MaxMembers
    /\ members' = InsertMember(req[s].org, req[s].user, "ORG_ADMIN")
    /\ IF CanInsertMember(req[s].org, req[s].user)
       THEN memberIDs' = memberIDs + 1 /\ Step(s, [req[s] EXCEPT !.op = "seed_plan"])
       ELSE UNCHANGED memberIDs /\ Finish(s)
    /\ UNCHANGED <<users, orgs, projects, grants, free, trail, removed>>

SeedPlan(s) ==
    /\ req[s].op = "seed_plan"
    /\ free' = IF Live(req[s].org) THEN free \cup {req[s].org} ELSE free
    /\ IF Live(req[s].org) THEN Audited(s, OrgCreated(req[s].org), Idle) ELSE Finish(s)
    /\ UNCHANGED <<users, orgs, members, memberIDs, projects, grants, trail, removed>>

\* app.delete: the owner, or force when other admins would lose access
ConfirmDelete(s, u, o, force) ==
    /\ AuthorizeOrgOwner(u, o) /\ u \in users
    /\ OrgAdminCount(o) > 1 => force
    /\ Start(s, [op |-> "delete_org", org |-> o])
    /\ UNCHANGED <<users, orgs, members, memberIDs, projects, grants, free, trail, removed>>

\* The cascade reaches memberships, the subscription, projects and their grants.
DeleteOrg(s) ==
    /\ req[s].op = "delete_org"
    /\ LET o == req[s].org  gone == {p \in Projects : projects[p] = o}
       IN  /\ orgs' = [orgs EXCEPT ![o].state = "deleted", ![o].owner = NoUser]
           /\ members' = members \ QueryMembers(o)
           /\ projects' = [p \in Projects |-> IF p \in gone THEN Gone ELSE projects[p]]
           /\ grants' = {g \in grants : g[2] \notin gone}
           /\ free' = free \ {o}
           /\ Audited(s, OrgDeleted(o), Idle)
    /\ UNCHANGED <<users, memberIDs, trail, removed>>

\* app.update: the row read, the row written back
LoadOrg(s, u, o) ==
    /\ AuthorizeOrgAdmin(u, o)
    /\ Start(s, [op |-> "update_org", org |-> o, enabled |-> orgs[o].enabled])
    /\ UNCHANGED <<users, orgs, members, memberIDs, projects, grants, free, trail, removed>>

WriteOrg(o, enabled) == IF Live(o) THEN [orgs EXCEPT ![o].enabled = enabled] ELSE orgs

\* The request leaves enabled alone ("keep") or sets it.
UpdateOrg(s, change) ==
    /\ req[s].op = "update_org"
    /\ LET o == req[s].org  enabled == IF change = "keep" THEN req[s].enabled ELSE change = "on"
       IN  /\ orgs' = WriteOrg(o, enabled)
           /\ Audited(s, OrgUpdated(o), Idle)
    /\ UNCHANGED <<users, members, memberIDs, projects, grants, free, trail, removed>>
----------------------------------------------------------------------------
(* orgapp: change or remove a member. *)

\* loadOrgMember: the row must belong to the organization the caller administers
LoadOrgMember(s, u, m, op, role) ==
    /\ AuthorizeOrgAdmin(u, m.org)
    /\ Start(s, [op |-> "guard", then |-> op, member |-> m, role |-> role])
    /\ UNCHANGED <<users, orgs, members, memberIDs, projects, grants, free, trail, removed>>

\* A bug: only the last admin is protected.
MemberChangeAllowedForOwner(m, staysAdmin) ==
    Live(m.org) /\ (staysAdmin \/ m.role # "ORG_ADMIN" \/ OrgAdminCount(m.org) > 1)

\* guardMemberChange, on the row loaded before
MemberChangeAllowed(m, staysAdmin) ==
    /\ Live(m.org)
    /\ orgs[m.org].owner # m.user
    /\ staysAdmin \/ m.role # "ORG_ADMIN" \/ OrgAdminCount(m.org) > 1

GuardMemberChange(s) ==
    /\ req[s].op = "guard"
    /\ LET r == req[s]
       IN  IF MemberChangeAllowed(r.member, r.then = "update_role" /\ r.role = "ORG_ADMIN")
           THEN Step(s, [op |-> r.then, id |-> r.member.id, role |-> r.role])
           ELSE Finish(s)
    /\ UNCHANGED <<users, orgs, members, memberIDs, projects, grants, free, trail, removed>>

UpdateRole(s) == req[s].op = "update_role" /\ UpdateMemberRole(s, req[s].id, req[s].role)

RemoveOrgMember(s) ==
    req[s].op = "remove_member" /\ RemoveMember(s, req[s].id) /\ UNCHANGED removed
----------------------------------------------------------------------------
(* projectapp. *)

InsertProject(p, o) == [projects EXCEPT ![p] = o]

CreateProject(s, u, o, p) ==
    /\ projects[p] = NoOrg /\ AuthorizeOrgAdmin(u, o) /\ Live(o)
    /\ req[s] = Idle
    /\ projects' = InsertProject(p, o)
    /\ Audited(s, ProjectCreated(p), Idle)
    /\ UNCHANGED <<users, orgs, members, memberIDs, grants, free, trail, removed>>

RequireProjectInOrg(p, o) == projects[p] = o

\* The foreign key takes the project's grants along.
DeleteProjectRow(p) ==
    /\ projects' = [projects EXCEPT ![p] = Gone]
    /\ grants' = {g \in grants : g[2] # p}

DeleteProject(s, u, o, p) ==
    /\ RequireProjectInOrg(p, o) /\ AuthorizeOrgAdmin(u, o)
    /\ req[s] = Idle
    /\ DeleteProjectRow(p)
    /\ Audited(s, ProjectDeleted(p), Idle)
    /\ UNCHANGED <<users, orgs, members, memberIDs, free, trail, removed>>

\* GrantProjectAccess: INSERT ... ON CONFLICT DO NOTHING under two foreign keys
CanGrant(u, p) == u \in users /\ Exists(p)

GrantProjectAccess(u, p) == IF CanGrant(u, p) THEN grants \cup {<<u, p>>} ELSE grants
----------------------------------------------------------------------------
(* Access to a project. *)

\* Membership as an administrator, the predicate of the three queries below
AdminOfProject(u, p) == \E m \in members :
    m.org = projects[p] /\ m.user = u /\ m.role \in {"ORG_ADMIN", "SUPER_ADMIN"}

HasAccess(u, p) == Exists(p) /\ (AdminOfProject(u, p) \/ <<u, p>> \in grants)

\* A bug: the list forgets the grants.
QueryVisibleToAdmins(o, u) == {p \in Projects : projects[p] = o /\ AdminOfProject(u, p)}

QueryVisibleByOrg(o, u) ==
    {p \in Projects : projects[p] = o /\ (AdminOfProject(u, p) \/ <<u, p>> \in grants)}

QueryAccessible(o, u) ==
    {p \in Projects : projects[p] = o /\ (AdminOfProject(u, p) \/ <<u, p>> \in grants)}

\* projectapp.query: what the caller is shown of an organization
ListProjects(o, u, superAdmin) ==
    IF superAdmin THEN {p \in Projects : projects[p] = o} ELSE QueryAccessible(o, u)

\* callerOrgRole
CallerOrgRole(u, p) == {m.role : m \in {n \in QueryByUserID(u) : n.org = projects[p]}}

\* requireProjectAccess
AuthorizeProjectAccess(u, p) ==
    Exists(p) /\ ("ORG_ADMIN" \in CallerOrgRole(u, p) \/ HasAccess(u, p))

\* AuthorizeProjectManage, for a caller whose claims hold the role PROJECT MANAGER or not
AuthorizeProjectManage(u, p, manager) ==
    /\ Exists(p)
    /\ "ORG_ADMIN" \in CallerOrgRole(u, p) \/ (manager /\ AuthorizeProjectAccess(u, p))
----------------------------------------------------------------------------
(* An account is deleted: its memberships and grants go, its organizations
   lose their owner. *)
DropUser(u) ==
    /\ users' = users \ {u}
    /\ orgs' = [o \in Orgs |-> IF orgs[o].owner = u THEN [orgs[o] EXCEPT !.owner = NoUser]
                                ELSE orgs[o]]
    /\ members' = members \ QueryByUserID(u)
    /\ grants' = {g \in grants : g[1] # u}
    /\ removed' = removed \cup {<<u, NoOrg>>}
    /\ UNCHANGED <<memberIDs, projects, free, trail, req>>

OrgRequest(s) ==
    \/ \E u \in users, o \in Orgs : CreateOrg(s, u, o) \/ LoadOrg(s, u, o)
    \/ \E u \in users, o \in Orgs, force \in BOOLEAN : ConfirmDelete(s, u, o, force)
    \/ InsertOrg(s) \/ SeedAdmin(s) \/ SeedPlan(s) \/ DeleteOrg(s)
    \/ \E change \in {"keep", "on", "off"} : UpdateOrg(s, change)
    \/ \E u \in users, m \in members, role \in AskedRoles :
          \/ LoadOrgMember(s, u, m, "update_role", role)
          \/ LoadOrgMember(s, u, m, "remove_member", "VIEWER")
    \/ GuardMemberChange(s) \/ UpdateRole(s) \/ RemoveOrgMember(s)
    \/ Audit(s) \/ Abandon(s)

ProjectRequest(s) == \E u \in users, o \in Orgs, p \in Projects :
    CreateProject(s, u, o, p) \/ DeleteProject(s, u, o, p)
============================================================================

---------------------------- MODULE Invitations ----------------------------
(***************************************************************************)
(* The doors into an organization besides creating it: invitations         *)
(* (app/domain/invitationapp, business/domain/invitationbus), the          *)
(* provisioning agent of the identity provider (app/domain/scimapp,        *)
(* business/domain/scimbus) and the account itself (app/domain/userapp).   *)
(***************************************************************************)
EXTENDS Tenancy

CONSTANTS
    Invites,     \* invitation ids, each used once
    MaxTokens    \* bound on provisioning tokens issued

ASSUME InvitationsAssumption == MaxTokens \in Nat

NoToken == 0

VARIABLES
    invites,     \* org_invitations: [state, org, email, role, projects, by, expired]
    scim,        \* org_scim_tokens: the token of each organization
    scimTokens,  \* tokens issued so far
    defaultRole  \* the role provisioning gives, from the sign-on configuration

invitationVars == <<invites, scim, scimTokens, defaultRole>>

NoInvite == [state |-> "new", org |-> NoOrg, email |-> NoUser, role |-> "VIEWER",
             projects |-> {}, by |-> NoUser, expired |-> FALSE]

\* The email of an invitation is named by the account it belongs to, or will.
InvitationsInit ==
    /\ TenancyInit
    /\ invites = [i \in Invites |-> NoInvite]
    /\ scim = [o \in Orgs |-> NoToken]
    /\ scimTokens = 0
    /\ defaultRole = [o \in Orgs |-> "VIEWER"]
----------------------------------------------------------------------------
(* Invitations. *)

UserInvited(i)   == Record("user.invited", i)
InviteRevoked(i) == Record("invite.revoked", i)

InviteRow(o, email, role, ps, by) ==
    [state |-> "pending", org |-> o, email |-> email, role |-> role, projects |-> ps,
     by |-> by, expired |-> FALSE]

Pending(i) == invites[i].state = "pending"

InsertInvitation(i, row) == [invites EXCEPT ![i] = row]

\* create; a mail that cannot be sent fails the request and leaves the row
CreateInvitation(s, by, o, i, email, role, ps) ==
    /\ AuthorizeOrgAdmin(by, o) /\ invites[i].state = "new" /\ req[s] = Idle
    /\ role \in MembershipRoles
    /\ invites' = InsertInvitation(i, InviteRow(o, email, role, ps, by))
    /\ Audited(s, UserInvited(i), Idle)
    /\ UNCHANGED <<users, orgs, members, memberIDs, projects, grants, free, trail, removed,
                   scim, scimTokens, defaultRole>>

\* 72 hours pass: the signed token and the row expire together.
Expire(i) ==
    /\ Pending(i) /\ ~invites[i].expired
    /\ invites' = [invites EXCEPT ![i].expired = TRUE]
    /\ UNCHANGED <<tenancyVars, scim, scimTokens, defaultRole>>

\* accept, as far as the lookup of the account: without one the answer is
\* signup_required and nothing changes
AcceptInvitation(s, i) ==
    /\ Pending(i) /\ ~invites[i].expired
    /\ invites[i].email \in users
    /\ Start(s, [op |-> "join", invite |-> i, inv |-> invites[i]])
    /\ UNCHANGED <<users, orgs, members, memberIDs, projects, grants, free, trail, removed,
                   invitationVars>>

\* The membership, from the row loaded before; already a member is no failure
Join(s) ==
    /\ req[s].op = "join"
    /\ LET r == req[s]
       IN  AddMember(s, r.inv.org, r.inv.email, r.inv.role,
                     [op |-> "grant", invite |-> r.invite, user |-> r.inv.email,
                      left |-> r.inv.projects])
    /\ UNCHANGED invitationVars

\* A bug: the invitation is marked before its grants are written.
AllGrantedEarly(s) == TRUE

AllGranted(s) == req[s].left = {}

\* One project after the other; a project that is gone fails the request
Grant(s) ==
    /\ req[s].op = "grant"
    /\ \E p \in req[s].left :
          /\ grants' = GrantProjectAccess(req[s].user, p)
          /\ IF CanGrant(req[s].user, p)
             THEN Audited(s, ProjectGranted(p), [req[s] EXCEPT !.left = @ \ {p}])
             ELSE Finish(s)
    /\ UNCHANGED <<users, orgs, members, memberIDs, projects, free, trail, removed, invitationVars>>

\* An UPDATE, of no row when the invitation is gone
SetAccepted(i) == IF Pending(i) THEN [invites EXCEPT ![i].state = "accepted"] ELSE invites

MarkAccepted(s) ==
    /\ req[s].op = "grant" /\ AllGranted(s)
    /\ invites' = SetAccepted(req[s].invite)
    /\ Finish(s)
    /\ UNCHANGED <<users, orgs, members, memberIDs, projects, grants, free, trail, removed,
                   scim, scimTokens, defaultRole>>

\* revoke: of the caller's organization and not accepted
RevokeInvitation(s, u, i) ==
    /\ Pending(i) /\ AuthorizeOrgAdmin(u, invites[i].org)
    /\ Start(s, [op |-> "revoke", invite |-> i])
    /\ UNCHANGED <<users, orgs, members, memberIDs, projects, grants, free, trail, removed,
                   invitationVars>>

DropInvitation(i) == [invites EXCEPT ![i].state = "deleted"]

DeleteInvitation(s) ==
    /\ req[s].op = "revoke"
    /\ invites' = DropInvitation(req[s].invite)
    /\ Audited(s, InviteRevoked(req[s].invite), Idle)
    /\ UNCHANGED <<users, orgs, members, memberIDs, projects, grants, free, trail, removed,
                   scim, scimTokens, defaultRole>>
----------------------------------------------------------------------------
(* Provisioning. *)

\* The new token replaces the old one.
UpsertToken(o, token) == [scim EXCEPT ![o] = token]

IssueSCIMToken(u, o) ==
    /\ AuthorizeOrgAdmin(u, o) /\ scimTokens < MaxTokens
    /\ scimTokens' = scimTokens + 1
    /\ scim' = UpsertToken(o, scimTokens + 1)
    /\ UNCHANGED <<tenancyVars, invites, defaultRole>>

DeleteToken(o) == [scim EXCEPT ![o] = NoToken]

RevokeSCIMToken(u, o) ==
    /\ AuthorizeOrgAdmin(u, o) /\ scim[o] # NoToken
    /\ scim' = DeleteToken(o)
    /\ UNCHANGED <<tenancyVars, invites, scimTokens, defaultRole>>

\* ssoapp.upsert, as far as provisioning reads it
SetDefaultRole(u, o, role) ==
    /\ AuthorizeOrgAdmin(u, o) /\ defaultRole[o] # role
    /\ defaultRole' = [defaultRole EXCEPT ![o] = role]
    /\ UNCHANGED <<tenancyVars, invites, scim, scimTokens>>

QueryByHash(token) == {o \in Orgs : token # NoToken /\ scim[o] = token}

\* The bearer token names the organization; without a row the request is refused.
OrgFromToken(token) == QueryByHash(token)

\* DefaultRole, as it is when the member is added
DefaultRole(o) == defaultRole[o]

MemberOf(o, u) == {m \in QueryMembers(o) : m.user = u}

\* createUser, up to its decision: an account that is a member already is a conflict
ProvisionUser(s, token, u) ==
    /\ \E o \in OrgFromToken(token) :
          /\ IF u \in users THEN MemberOf(o, u) = {} ELSE <<u, NoOrg>> \notin removed
          /\ Start(s, [op |-> "create_account", org |-> o, user |-> u, known |-> u \in users])
    /\ UNCHANGED <<users, orgs, members, memberIDs, projects, grants, free, trail, removed,
                   invitationVars>>

\* createLocalUser when the address was unknown; a duplicate address fails.  An
\* account registered and deleted since the lookup does not come back.
CreateLocalUser(s) ==
    /\ req[s].op = "create_account"
    /\ req[s].known \/ <<req[s].user, NoOrg>> \notin removed
    /\ users' = users \cup (IF req[s].known THEN {} ELSE {req[s].user})
    /\ IF req[s].known \/ req[s].user \notin users
       THEN Step(s, [op |-> "provision", org |-> req[s].org, user |-> req[s].user])
       ELSE Finish(s)
    /\ UNCHANGED <<orgs, members, memberIDs, projects, grants, free, trail, removed, invitationVars>>

\* setActive(true), from patchUser or putUser
Reactivate(s, token, u) ==
    /\ u \in users
    /\ \E o \in OrgFromToken(token) : Start(s, [op |-> "provision", org |-> o, user |-> u])
    /\ UNCHANGED <<users, orgs, members, memberIDs, projects, grants, free, trail, removed,
                   invitationVars>>

Provision(s) ==
    /\ req[s].op = "provision"
    /\ AddMember(s, req[s].org, req[s].user, DefaultRole(req[s].org), Idle)
    /\ UNCHANGED invitationVars

\* deprovision, from deleteUser or setActive(false): the row of the member, then its end
Deprovision(s, token, u) ==
    /\ \E o \in OrgFromToken(token), m \in members :
          m \in MemberOf(o, u) /\ Start(s, [op |-> "deprovision", member |-> m])
    /\ UNCHANGED <<users, orgs, members, memberIDs, projects, grants, free, trail, removed,
                   invitationVars>>

\* patchUser and putUser, once the resource says active or not
SetActive(s, token, u) == Reactivate(s, token, u) \/ Deprovision(s, token, u)

\* deleteUser
DeleteScimUser(s, token, u) == Deprovision(s, token, u)

EndMembership(s) ==
    /\ req[s].op = "deprovision"
    /\ removed' = removed \cup {<<req[s].member.user, req[s].member.org>>}
    /\ RemoveMember(s, req[s].member.id)
    /\ UNCHANGED invitationVars
----------------------------------------------------------------------------
(* Accounts. *)

\* userapp.create; an account deleted is another account when it comes back
Register(u) ==
    /\ u \notin users /\ <<u, NoOrg>> \notin removed
    /\ users' = users \cup {u}
    /\ UNCHANGED <<orgs, members, memberIDs, projects, grants, free, trail, req, removed,
                   invitationVars>>

\* org_invitations.invited_by has no cascade: an inviter cannot be deleted.
DeleteUser(u) ==
    /\ u \in users
    /\ \A i \in Invites : invites[i].by = u => invites[i].state \in {"new", "deleted"}
    /\ DropUser(u)
    /\ UNCHANGED invitationVars
----------------------------------------------------------------------------
InviteRequest(s) ==
    \/ \E by \in users, o \in Orgs, i \in Invites, e \in Users, r \in AskedRoles, ps \in SUBSET Projects :
          CreateInvitation(s, by, o, i, e, r, ps)
    \/ \E i \in Invites : AcceptInvitation(s, i)
    \/ \E u \in users, i \in Invites : RevokeInvitation(s, u, i)
    \/ Join(s) \/ Grant(s) \/ MarkAccepted(s) \/ DeleteInvitation(s)

ScimRequest(s) ==
    \/ \E token \in 1 .. MaxTokens, u \in Users :
          ProvisionUser(s, token, u) \/ SetActive(s, token, u) \/ DeleteScimUser(s, token, u)
    \/ CreateLocalUser(s) \/ Provision(s) \/ EndMembership(s)

\* Deleting an organization takes its invitations and its token along.
CascadeOrg ==
    /\ invites' = [i \in Invites |->
          IF invites[i].org # NoOrg /\ orgs[invites[i].org].state = "live"
                                    /\ orgs'[invites[i].org].state = "deleted"
          THEN [invites[i] EXCEPT !.state = "deleted"] ELSE invites[i]]
    /\ scim' = [o \in Orgs |-> IF orgs'[o].state = "deleted" THEN NoToken ELSE scim[o]]
    /\ UNCHANGED <<scimTokens, defaultRole>>

InvitationsNext ==
    \/ \E s \in Requests :
          \/ OrgRequest(s) /\ CascadeOrg
          \/ ProjectRequest(s) /\ UNCHANGED invitationVars
          \/ InviteRequest(s) \/ ScimRequest(s)
    \/ \E i \in Invites : Expire(i)
    \/ \E u \in users, o \in Orgs : IssueSCIMToken(u, o) \/ RevokeSCIMToken(u, o)
    \/ \E u \in users, o \in Orgs, role \in AskedRoles : SetDefaultRole(u, o, role)
    \/ \E u \in Users : Register(u) \/ DeleteUser(u)

InvitationsSpec == InvitationsInit /\ [][InvitationsNext]_<<tenancyVars, invitationVars>>
----------------------------------------------------------------------------
(* Properties. *)

\* guardMemberChange: "The owner is the only principal who may delete the org, so
\* an org whose owner is not an admin member can never be wound down."  Once the
\* membership of the creator is written, no interleaving of role changes, removals,
\* invitations and deletions of accounts takes it away; only the identity provider
\* may end it.
OwnerStaysAdmin == \A o \in Orgs :
    Live(o) /\ orgs[o].owner # NoUser /\ <<orgs[o].owner, o>> \notin removed /\ o \in free
        => AuthorizeOrgAdmin(orgs[o].owner, o)

\* QueryVisibleByOrg: "The predicate mirrors HasAccess so the two can never disagree
\* about visibility", and the middleware agrees with both.
VisibilityAgrees == \A u \in users, o \in Orgs, p \in Projects :
    projects[p] = o =>
        /\ HasAccess(u, p) <=> p \in QueryVisibleByOrg(o, u)
        /\ HasAccess(u, p) <=> p \in QueryAccessible(o, u)
        /\ HasAccess(u, p) <=> AuthorizeProjectAccess(u, p)
        /\ AuthorizeProjectManage(u, p, TRUE) <=> AuthorizeProjectAccess(u, p)
        /\ HasAccess(u, p) <=> p \in ListProjects(o, u, FALSE)
        /\ HasAccess(u, p) => o \in QueryMine(u) \/ <<u, p>> \in grants

\* An invitation is marked accepted only after everything it grants is granted, so
\* that a failure on the way leaves it open for another try.
AcceptedIsComplete == \A i \in Invites :
    invites[i].state = "accepted" /\ invites[i].email \in users =>
        \A p \in invites[i].projects : Exists(p) => <<invites[i].email, p>> \in grants

----------------------------------------------------------------------------
(* What comments and documents say and the code does not do (README, section 4). *)

\* guardMemberChange "blocks membership edits that would orphan an organization":
\* two requests that each see two admins leave none.
AdminRemains == \A o \in Orgs : Live(o) /\ o \in free => OrgAdminCount(o) > 0

\* Create enforces the cap "authoritatively".
OwnedWithinCap == \A u \in Users : CountOwned(u) <= MaxOrgsPerUser

\* accept loads the row "to confirm it hasn't been revoked": a revocation between
\* the load and the join reports success, and the invitee joins.
RevokedStaysOut == [][
    \A s \in Requests : req[s].op = "join" /\ members' # members => Pending(req[s].invite)
    ]_<<tenancyVars, invitationVars>>
============================================================================

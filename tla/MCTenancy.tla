----------------------------- MODULE MCTenancy -----------------------------
(* The doors into an organization that exists already, a few requests at a   *)
(* time.  Each behaviour exercises one of the scenes: organizations and      *)
(* their members, invitations, or provisioning, with the members' requests   *)
(* in each; or the subscriptions of two organizations.                       *)
EXTENDS Invitations, Billing, TLC

CONSTANTS
    founder, admin, viewer,   \* three accounts
    org, project,             \* the organization they belong to, and its project
    Budget                    \* bound on requests and events started

VARIABLES budget, scene

mcVars == <<tenancyVars, invitationVars, billingVars, budget, scene>>

MCInit ==
    /\ users = {founder, admin, viewer}
    /\ orgs = [o \in Orgs |->
          IF o = org THEN [state |-> "live", owner |-> founder, enabled |-> TRUE] ELSE NewOrg]
    /\ members = {[id |-> 1, org |-> org, user |-> founder, role |-> "ORG_ADMIN"],
                  [id |-> 2, org |-> org, user |-> admin, role |-> "ORG_ADMIN"],
                  [id |-> 3, org |-> org, user |-> viewer, role |-> "VIEWER"]}
    /\ memberIDs = 3
    /\ projects = [p \in Projects |-> IF p = project THEN org ELSE NoOrg]
    /\ grants = {} /\ free = {org} /\ trail = {} /\ removed = {}
    /\ req = [s \in Requests |-> Idle]
    /\ invites = [i \in Invites |-> NoInvite]
    /\ scim = [o \in Orgs |-> IF o = org THEN 1 ELSE NoToken]
    /\ scimTokens = 1
    /\ defaultRole = [o \in Orgs |-> "VIEWER"]
    /\ budget = Budget
    /\ BillingInit
    /\ scene \in {"orgs", "invitations", "provisioning", "billing"}

Starts == req' = req \/ \E s \in Requests : req[s] = Idle /\ req'[s] # Idle

Spend == /\ Starts => budget > 0
         /\ budget' = budget - (IF Starts THEN 1 ELSE 0)
         /\ UNCHANGED <<billingVars, scene>>

\* The members' requests of every scene
MemberRequest(s) ==
    \/ \E u \in users, m \in members, role \in AskedRoles :
          \/ LoadOrgMember(s, u, m, "update_role", role)
          \/ LoadOrgMember(s, u, m, "remove_member", "VIEWER")
    \/ GuardMemberChange(s) \/ UpdateRole(s) \/ RemoveOrgMember(s)
    \/ Audit(s) \/ Abandon(s)

MCNext ==
    \/ /\ scene = "orgs"
       /\ \/ \E s \in Requests : OrgRequest(s) /\ CascadeOrg
          \/ \E u \in Users : Register(u) \/ DeleteUser(u)
       /\ Spend
    \/ /\ scene = "invitations"
       /\ \/ \E s \in Requests : InviteRequest(s)
          \/ \E s \in Requests :
                (MemberRequest(s) \/ ProjectRequest(s)) /\ UNCHANGED invitationVars
          \/ \E i \in Invites : Expire(i)
          \/ DeleteUser(viewer)
       /\ Spend
    \/ /\ scene = "provisioning"
       /\ \/ \E s \in Requests : ScimRequest(s)
          \/ \E s \in Requests : MemberRequest(s) /\ UNCHANGED invitationVars
          \/ \E u \in users : IssueSCIMToken(u, org) \/ RevokeSCIMToken(u, org)
          \/ \E u \in users, role \in AskedRoles : SetDefaultRole(u, org, role)
          \/ DeleteUser(viewer)
       /\ Spend
    \/ /\ scene = "billing"
       /\ BillingNext
       /\ UNCHANGED <<tenancyVars, invitationVars, budget, scene>>

MCSpec == MCInit /\ [][MCNext]_mcVars

\* Requests, and Stripe subscriptions, are only ever told apart by what is done with them.
RequestSymmetry == Permutations(Requests) \cup Permutations(StripeSubs)
============================================================================

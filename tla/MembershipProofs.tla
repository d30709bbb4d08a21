------------------------- MODULE MembershipProofs -------------------------
(***************************************************************************)
(* Proofs about organizations, their members, invitations and              *)
(* subscriptions, and about the export of their audit trail: for every set *)
(* of accounts, organizations, projects, requests, invitations, Stripe     *)
(* subscriptions and audit records, and every bound.                       *)
(***************************************************************************)
EXTENDS Invitations, Billing, AuditExport, TLAPS

(***************************************************************************)
(* Subscriptions.                                                          *)
(***************************************************************************)

SubStatuses == {"active", "trialing", "past_due", "canceled", "cancelled"}
SubRows == [plan: {"free", "pro"}, status: SubStatuses, link: StripeSubs \cup {NoSub},
            customer: BOOLEAN, cancelling: BOOLEAN]
StripeStates == {"none", "open", "active", "past_due", "ended"}
StripeRows == [org: Payers \cup {NoSub}, state: StripeStates, cancelling: BOOLEAN,
               metadata: BOOLEAN]
StripeEvents ==
    [type: {"completed", "deleted", "payment_failed", "paid"}, sub: StripeSubs]
    \cup [type: {"updated"}, sub: StripeSubs, status: StripeStates, cancelling: BOOLEAN]
CancelRequests == {NoRequest} \cup [step: {"stripe", "write"}, row: SubRows]

BillingTypeOK ==
    /\ sub \in [Payers -> SubRows]
    /\ stripeSubs \in [StripeSubs -> StripeRows]
    /\ events \subseteq StripeEvents
    /\ cancels \in [Payers -> CancelRequests]

\* A copy of the row of organization o, as the table or a cancel request holds it,
\* names a Stripe subscription of o when it says that o pays.
Linked(o, row) ==
    row.plan = "pro" => /\ row.link \in StripeSubs /\ row.customer
                        /\ stripeSubs[row.link].org = o

\* The inductive invariant: a subscription keeps the organization that opened it,
\* an event speaks of a subscription that was opened, and every copy is linked.
BillingInv ==
    /\ BillingTypeOK
    /\ \A x \in StripeSubs : stripeSubs[x].state = "none" <=> stripeSubs[x].org = NoSub
    /\ \A e \in events : stripeSubs[e.sub].org # NoSub
    /\ \A o \in Payers : Linked(o, sub[o])
    /\ \A o \in Payers : cancels[o] # NoRequest =>
          Linked(o, cancels[o].row) /\ cancels[o].row.plan = "pro"

LEMMA BillingInitOK == BillingInit => BillingInv
  BY DEF BillingInit, BillingInv, BillingTypeOK, SubRows, StripeRows, StripeStates,
     SubStatuses, CancelRequests, NoRequest, SubRow, Linked

\* Stripe moves a subscription that was opened on, and tells.
LEMMA StripeMoves ==
  ASSUME BillingInv, NEW x \in StripeSubs, NEW st \in StripeStates \ {"none"},
         NEW told \in SUBSET StripeEvents, \A e \in told : e.sub = x,
         stripeSubs[x].state # "none",
         stripeSubs' = [stripeSubs EXCEPT ![x].state = st],
         events' = events \cup told,
         UNCHANGED <<sub, cancels, override>>
  PROVE  BillingInv'
  <1>1. /\ stripeSubs' \in [StripeSubs -> StripeRows]
        /\ \A y \in StripeSubs : stripeSubs'[y].org = stripeSubs[y].org
        /\ \A y \in StripeSubs : stripeSubs'[y].state = "none" <=> stripeSubs'[y].org = NoSub
    BY DEF BillingInv, BillingTypeOK, StripeRows
  <1>2. BillingTypeOK'
    BY <1>1 DEF BillingInv, BillingTypeOK
  <1>3. \A e \in events' : e.sub \in StripeSubs /\ stripeSubs'[e.sub].org # NoSub
    BY <1>1 DEF BillingInv, BillingTypeOK, StripeEvents
  <1>4. \A o \in Payers, row \in SubRows : Linked(o, row) => Linked(o, row)'
    BY <1>1 DEF Linked
  <1>5. \A o \in Payers : cancels[o] # NoRequest => cancels[o].row \in SubRows
    BY DEF BillingInv, BillingTypeOK, CancelRequests
  <1>6. QED
    BY <1>1, <1>2, <1>3, <1>4, <1>5 DEF BillingInv, BillingTypeOK

\* A subscription is opened: no copy and no event names it yet.
LEMMA OpensOK ==
  ASSUME BillingInv, NEW o \in Payers, NEW x \in StripeSubs, NEW metadata \in BOOLEAN,
         stripeSubs[x].state = "none",
         stripeSubs' = [stripeSubs EXCEPT ![x] =
            [org |-> o, state |-> "open", cancelling |-> FALSE, metadata |-> metadata]],
         UNCHANGED <<sub, events, cancels, override>>
  PROVE  BillingInv'
  <1> DEFINE row == [org |-> o, state |-> "open", cancelling |-> FALSE, metadata |-> metadata]
  <1>r. row \in StripeRows /\ row.org # NoSub /\ row.state # "none" /\ stripeSubs[x].org = NoSub
    BY BillingAssumption DEF StripeRows, StripeStates, BillingInv
  <1>s. stripeSubs' = [stripeSubs EXCEPT ![x] = row]
    OBVIOUS
  <1> HIDE DEF row
  <1>1. /\ stripeSubs' \in [StripeSubs -> StripeRows]
        /\ \A y \in StripeSubs : stripeSubs[y].org # NoSub => stripeSubs'[y].org = stripeSubs[y].org
        /\ \A y \in StripeSubs : stripeSubs'[y].state = "none" <=> stripeSubs'[y].org = NoSub
    BY <1>r, <1>s DEF BillingInv, BillingTypeOK
  <1>2. BillingTypeOK'
    BY <1>1 DEF BillingInv, BillingTypeOK
  <1>3. \A e \in events' : e.sub \in StripeSubs /\ stripeSubs'[e.sub].org # NoSub
    BY <1>1 DEF BillingInv, BillingTypeOK, StripeEvents
  <1>4. \A p \in Payers, r \in SubRows : Linked(p, r) => Linked(p, r)'
    BY <1>1, BillingAssumption DEF Linked
  <1>5. \A p \in Payers : cancels[p] # NoRequest => cancels[p].row \in SubRows
    BY DEF BillingInv, BillingTypeOK, CancelRequests
  <1>6. QED
    BY <1>1, <1>2, <1>3, <1>4, <1>5 DEF BillingInv, BillingTypeOK

LEMMA StripeOK == ASSUME BillingInv, Stripe PROVE BillingInv'
  <1>0. PICK x \in StripeSubs :
        \/ StripePays(x) \/ StripePaymentFails(x) \/ StripeInvoicePaid(x) \/ StripeEnds(x)
        \/ \E o \in Payers : StripeOpens(o, x)
    BY DEF Stripe
  <1>t. stripeSubs[x] \in StripeRows
    BY DEF BillingInv, BillingTypeOK
  <1>2. CASE StripePays(x)
    <2> DEFINE told == {Event("completed", x)}
    <2>1. told \in SUBSET StripeEvents /\ \A e \in told : e.sub = x
      BY <1>t DEF Event, StripeEvents, StripeRows, StripeStates
    <2>2. /\ stripeSubs[x].state # "none" /\ "active" \in StripeStates \ {"none"}
          /\ stripeSubs' = [stripeSubs EXCEPT ![x].state = "active"]
          /\ events' = events \cup told
          /\ UNCHANGED <<sub, cancels, override>>
      BY <1>2 DEF StripePays, StripeStates
    <2> HIDE DEF told
    <2>3. QED
      BY <2>1, <2>2, StripeMoves
  <1>3. CASE StripePaymentFails(x)
    <2> DEFINE told == {Event("payment_failed", x), Updated(x, "past_due", stripeSubs[x].cancelling)}
    <2>1. told \in SUBSET StripeEvents /\ \A e \in told : e.sub = x
      <3>1. stripeSubs[x].cancelling \in BOOLEAN
        BY <1>t DEF StripeRows
      <3>2. Updated(x, "past_due", stripeSubs[x].cancelling) \in StripeEvents
        BY <3>1 DEF Updated, StripeEvents, StripeStates
      <3>3. Updated(x, "past_due", stripeSubs[x].cancelling).sub = x
        BY DEF Updated
      <3>4. Event("payment_failed", x) \in StripeEvents /\ Event("payment_failed", x).sub = x
        BY DEF Event, StripeEvents
      <3>5. QED
        BY <3>2, <3>3, <3>4
    <2>2. /\ stripeSubs[x].state # "none" /\ "past_due" \in StripeStates \ {"none"}
          /\ stripeSubs' = [stripeSubs EXCEPT ![x].state = "past_due"]
          /\ events' = events \cup told
          /\ UNCHANGED <<sub, cancels, override>>
      BY <1>3 DEF StripePaymentFails, StripeStates
    <2> HIDE DEF told
    <2>3. QED
      BY <2>1, <2>2, StripeMoves
  <1>4. CASE StripeInvoicePaid(x)
    <2> DEFINE told == {Event("paid", x)}
    <2>1. told \in SUBSET StripeEvents /\ \A e \in told : e.sub = x
      BY <1>t DEF Event, StripeEvents, StripeRows, StripeStates
    <2>2. /\ stripeSubs[x].state # "none" /\ "active" \in StripeStates \ {"none"}
          /\ stripeSubs' = [stripeSubs EXCEPT ![x].state = "active"]
          /\ events' = events \cup told
          /\ UNCHANGED <<sub, cancels, override>>
      BY <1>4 DEF StripeInvoicePaid, StripeStates
    <2> HIDE DEF told
    <2>3. QED
      BY <2>1, <2>2, StripeMoves
  <1>5. CASE StripeEnds(x)
    <2> DEFINE told == {Event("deleted", x)}
    <2>1. told \in SUBSET StripeEvents /\ \A e \in told : e.sub = x
      BY <1>t DEF Event, StripeEvents, StripeRows, StripeStates
    <2>2. /\ stripeSubs[x].state # "none" /\ "ended" \in StripeStates \ {"none"}
          /\ stripeSubs' = [stripeSubs EXCEPT ![x].state = "ended"]
          /\ events' = events \cup told
          /\ UNCHANGED <<sub, cancels, override>>
      BY <1>5 DEF StripeEnds, StripeStates
    <2> HIDE DEF told
    <2>3. QED
      BY <2>1, <2>2, StripeMoves
  <1>6. ASSUME NEW o \in Payers, StripeOpens(o, x) PROVE BillingInv'
    BY <1>6, OpensOK DEF StripeOpens
  <1>7. QED
    BY <1>0, <1>2, <1>3, <1>4, <1>5, <1>6

\* A webhook writes a linked row, or frees the organization.
LEMMA WebhookOK == ASSUME BillingInv, NEW e \in events, Webhook(e) PROVE BillingInv'
  <1>t. e \in StripeEvents /\ e.sub \in StripeSubs
    BY DEF BillingInv, BillingTypeOK, StripeEvents
  <1>s. stripeSubs[e.sub] \in StripeRows /\ stripeSubs[e.sub].org \in Payers
    BY <1>t DEF BillingInv, BillingTypeOK, StripeRows
  <1>u. events' \subseteq events /\ UNCHANGED <<stripeSubs, cancels, override>>
    BY DEF Webhook
  <1>1. sub' \in [Payers -> SubRows] /\ \A o \in Payers : Linked(o, sub'[o])
    <2>1. CASE UNCHANGED sub
      BY <2>1 DEF BillingInv, BillingTypeOK
    <2>2. CASE sub' = [sub EXCEPT ![stripeSubs[e.sub].org] = SubRow("pro", "active", e.sub, TRUE, FALSE)]
      <3>1. SubRow("pro", "active", e.sub, TRUE, FALSE) \in SubRows
        BY <1>t DEF SubRow, SubRows, SubStatuses
      <3>2. Linked(stripeSubs[e.sub].org, SubRow("pro", "active", e.sub, TRUE, FALSE))
        BY <1>t DEF SubRow, Linked
      <3>3. QED
        BY <1>s, <2>2, <3>1, <3>2 DEF BillingInv, BillingTypeOK
    <2>3. ASSUME NEW status \in SubStatuses, NEW cancelling \in BOOLEAN, NEW plan \in {"", "free"},
                 UpdateSubscriptionByStripeID(e.sub, plan, status, cancelling)
          PROVE  sub' \in [Payers -> SubRows] /\ \A o \in Payers : Linked(o, sub'[o])
      <3>1. \A o \in Payers : sub'[o] = sub[o] \/ (sub'[o] \in SubRows /\ sub'[o].plan = "free")
        BY <2>3 DEF UpdateSubscriptionByStripeID, SubRow, SubRows, BillingInv, BillingTypeOK
      <3>2. sub' = [o \in Payers |-> sub'[o]]
        BY <2>3 DEF UpdateSubscriptionByStripeID
      <3>3. QED
        BY <3>1, <3>2 DEF BillingInv, BillingTypeOK, Linked
    <2>4. CASE e.type = "completed" /\ HandleCheckoutCompleted(e.sub)
      BY <2>1, <2>2, <2>4 DEF HandleCheckoutCompleted, UpsertSubscription
    <2>5. CASE e.type = "updated" /\ HandleSubscriptionUpdated(e)
      <3>1. e.cancelling \in BOOLEAN
        BY <1>t, <2>5 DEF StripeEvents
      <3>2. NormalizeStripeStatus(e.status) \in SubStatuses
        BY DEF NormalizeStripeStatus, SubStatuses
      <3>3. QED
        BY <3>1, <3>2, <2>3, <2>5 DEF HandleSubscriptionUpdated
    <2>6. CASE e.type = "deleted" /\ HandleSubscriptionDeleted(e.sub)
      BY <2>3, <2>6 DEF HandleSubscriptionDeleted, SubStatuses
    <2>7. CASE e.type = "payment_failed" /\ HandleInvoicePaymentFailed(e.sub)
      BY <2>3, <2>7 DEF HandleInvoicePaymentFailed, SubStatuses
    <2>8. CASE e.type = "paid" /\ HandleInvoicePaid(e.sub)
      BY <2>3, <2>8 DEF HandleInvoicePaid, SubStatuses
    <2>9. QED
      BY <2>4, <2>5, <2>6, <2>7, <2>8 DEF Webhook
  <1>2. BillingTypeOK'
    BY <1>1, <1>u DEF BillingInv, BillingTypeOK
  <1>3. \A o \in Payers : Linked(o, sub[o])'
    BY <1>1, <1>u DEF Linked
  <1>4. \A o \in Payers : cancels'[o] # NoRequest =>
          Linked(o, cancels[o].row)' /\ cancels'[o].row.plan = "pro"
    BY <1>u DEF BillingInv, Linked
  <1>5. QED
    BY <1>2, <1>3, <1>4, <1>u DEF BillingInv

\* A request sets a subscription to be cancelled, or no longer, and tells.
LEMMA CancellingOK ==
  ASSUME BillingInv, NEW x \in StripeSubs, NEW cancelling \in BOOLEAN, NEW o \in Payers,
         stripeSubs[x].state # "none",
         NEW request \in CancelRequests,
         request # NoRequest => request.row.plan = "pro" /\ Linked(o, request.row),
         stripeSubs' = [stripeSubs EXCEPT ![x].cancelling = cancelling],
         events' = events \cup {Updated(x, stripeSubs[x].state, cancelling)},
         cancels' = [cancels EXCEPT ![o] = request],
         UNCHANGED <<sub, override>>
  PROVE  BillingInv'
  <1>1. /\ stripeSubs' \in [StripeSubs -> StripeRows]
        /\ \A y \in StripeSubs : stripeSubs'[y].org = stripeSubs[y].org
        /\ \A y \in StripeSubs : stripeSubs'[y].state = "none" <=> stripeSubs'[y].org = NoSub
    BY DEF BillingInv, BillingTypeOK, StripeRows
  <1>2. Updated(x, stripeSubs[x].state, cancelling) \in StripeEvents
        /\ Updated(x, stripeSubs[x].state, cancelling).sub = x
    BY DEF Updated, StripeEvents, BillingInv, BillingTypeOK, StripeRows
  <1>3. BillingTypeOK'
    BY <1>1, <1>2 DEF BillingInv, BillingTypeOK
  <1>4. \A e \in events' : stripeSubs'[e.sub].org # NoSub
    BY <1>1, <1>2 DEF BillingInv, BillingTypeOK, StripeEvents
  <1>5. \A p \in Payers : \A row : Linked(p, row) => Linked(p, row)'
    BY <1>1 DEF Linked
  <1>6. QED
    BY <1>1, <1>3, <1>4, <1>5 DEF BillingInv, BillingTypeOK

LEMMA BillingRequestOK ==
  ASSUME BillingInv, NEW o \in Payers, BillingRequest(o) PROVE BillingInv'
  <1>t. /\ cancels[o] \in CancelRequests /\ sub[o] \in SubRows
        /\ \A x \in StripeSubs : stripeSubs[x] \in StripeRows
    BY DEF BillingInv, BillingTypeOK
  <1>1. ASSUME NEW x \in StripeSubs, Checkout(o, x) PROVE BillingInv'
    BY <1>1, OpensOK DEF Checkout
  <1>2. ASSUME NEW x \in StripeSubs, Portal(o, x) PROVE BillingInv'
    <2> DEFINE on == ~stripeSubs[x].cancelling
    <2>1. on \in BOOLEAN /\ stripeSubs[x].state = "active"
          /\ stripeSubs' = [stripeSubs EXCEPT ![x].cancelling = on]
          /\ events' = events \cup {Updated(x, stripeSubs[x].state, on)}
          /\ UNCHANGED <<sub, cancels, override>>
      BY <1>2 DEF Portal
    <2>2. cancels' = [cancels EXCEPT ![o] = cancels[o]]
      BY <2>1 DEF BillingInv, BillingTypeOK
    <2>3. cancels[o] # NoRequest => cancels[o].row.plan = "pro" /\ Linked(o, cancels[o].row)
      BY DEF BillingInv
    <2> HIDE DEF on
    <2>4. QED
      BY <1>t, <2>1, <2>2, <2>3, CancellingOK
  <1>3. CASE LoadCancel(o)
    <2> DEFINE request == [step |-> "stripe", row |-> sub[o]]
    <2>1. request \in CancelRequests /\ request.row = sub[o]
      BY <1>t DEF CancelRequests
    <2>2. Linked(o, sub[o]) /\ sub[o].plan = "pro"
      BY <1>3, <1>t DEF LoadCancel, QuerySubscription, SubRows, BillingInv
    <2>3. cancels' = [cancels EXCEPT ![o] = request] /\ UNCHANGED <<sub, stripeSubs, events, override>>
      BY <1>3 DEF LoadCancel, QuerySubscription
    <2> HIDE DEF request
    <2>4. BillingTypeOK' /\ \A p \in Payers : \A row : Linked(p, row) => Linked(p, row)'
      BY <2>1, <2>3 DEF BillingInv, BillingTypeOK, Linked
    <2>5. QED
      BY <2>1, <2>2, <2>3, <2>4 DEF BillingInv, BillingTypeOK
  <1>4. CASE CancelAtStripe(o)
    <2> DEFINE x == cancels[o].row.link
    <2>0. cancels[o].step = "stripe"
      BY <1>4 DEF CancelAtStripe
    <2>1. cancels[o] # NoRequest
      BY <2>0 DEF NoRequest
    <2>2. /\ x \in StripeSubs /\ Linked(o, cancels[o].row) /\ cancels[o].row.plan = "pro"
          /\ cancels[o] \in [step: {"stripe", "write"}, row: SubRows]
      BY <2>1, <1>t DEF BillingInv, Linked, CancelRequests
    <2>3. CASE stripeSubs[x].state \in {"active", "past_due"}
      <3> DEFINE request == [cancels[o] EXCEPT !.step = "write"]
      <3>1. request \in CancelRequests /\ request.row = cancels[o].row
        BY <2>2 DEF CancelRequests
      <3>2. /\ cancels' = [cancels EXCEPT ![o] = request]
            /\ stripeSubs' = [stripeSubs EXCEPT ![x].cancelling = TRUE]
            /\ events' = events \cup {Updated(x, stripeSubs[x].state, TRUE)}
            /\ UNCHANGED <<sub, override>>
        BY <1>4, <2>3 DEF CancelAtStripe
      <3> HIDE DEF request, x
      <3>3. stripeSubs[x].state # "none"
        BY <2>3
      <3>4. QED
        BY <2>2, <3>1, <3>2, <3>3, CancellingOK
    <2>4. CASE stripeSubs[x].state \notin {"active", "past_due"}
      <3>1. cancels' = [cancels EXCEPT ![o] = NoRequest] /\ UNCHANGED <<sub, stripeSubs, events, override>>
        BY <1>4, <2>4 DEF CancelAtStripe
      <3>2. BillingTypeOK' /\ \A p \in Payers : \A row : Linked(p, row) => Linked(p, row)'
        BY <3>1 DEF BillingInv, BillingTypeOK, Linked, CancelRequests
      <3>3. QED
        BY <3>1, <3>2 DEF BillingInv, BillingTypeOK
    <2>5. QED
      BY <2>3, <2>4
  <1>5. CASE WriteCancel(o)
    <2> DEFINE row == [cancels[o].row EXCEPT !.cancelling = TRUE]
    <2>0. cancels[o].step = "write"
      BY <1>5 DEF WriteCancel
    <2>1. cancels[o] # NoRequest
      BY <2>0 DEF NoRequest
    <2>2. cancels[o].row \in SubRows /\ Linked(o, cancels[o].row)
      BY <2>1, <1>t DEF BillingInv, CancelRequests
    <2>3. row \in SubRows /\ Linked(o, row)
      BY <2>2 DEF SubRows, Linked
    <2>4. sub' = [sub EXCEPT ![o] = row] /\ cancels' = [cancels EXCEPT ![o] = NoRequest]
          /\ UNCHANGED <<stripeSubs, events, override>>
      BY <1>5 DEF WriteCancel, UpsertSubscription
    <2> HIDE DEF row
    <2>5. BillingTypeOK' /\ \A p \in Payers : \A r : Linked(p, r) => Linked(p, r)'
      BY <2>3, <2>4 DEF BillingInv, BillingTypeOK, Linked, CancelRequests
    <2>6. QED
      BY <2>3, <2>4, <2>5 DEF BillingInv, BillingTypeOK
  <1>6. ASSUME NEW days, SetRetention(o, days) PROVE BillingInv'
    BY <1>6 DEF SetRetention, BillingInv, BillingTypeOK, Linked
  <1>7. QED
    BY <1>1, <1>2, <1>3, <1>4, <1>5, <1>6 DEF BillingRequest

LEMMA BillingNextOK == BillingInv /\ [BillingNext]_billingVars => BillingInv'
  <1>1. BillingInv /\ UNCHANGED billingVars => BillingInv'
    BY DEF BillingInv, BillingTypeOK, Linked, billingVars
  <1>2. QED
    BY <1>1, StripeOK, BillingRequestOK, WebhookOK DEF BillingNext

\* An organization on the paid plan keeps its subscription id and its customer id,
\* so that cancelling it never meets a paid plan without a link: whatever order or
\* repetition of Stripe's events and of cancellations (billingapp, webhook and cancel).
THEOREM PaidStaysLinked == BillingSpec => []PaidKeepsLink
  <1>1. BillingInv => PaidKeepsLink
    BY BillingAssumption DEF BillingInv, PaidKeepsLink, Linked
  <1>2. QED
    BY <1>1, BillingInitOK, BillingNextOK, PTL DEF BillingSpec

(***************************************************************************)
(* Organizations and their members.                                        *)
(***************************************************************************)

OrgRows    == [state: {"new", "live", "deleted"}, owner: Users \cup {NoUser}, enabled: BOOLEAN]
MemberRows == [id: Nat, org: Orgs, user: Users, role: MembershipRoles]
AnyInvites == [state: {"new", "pending", "accepted", "deleted"}, org: Orgs \cup {NoOrg},
               email: Users \cup {NoUser}, role: MembershipRoles, projects: SUBSET Projects,
               by: Users \cup {NoUser}, expired: BOOLEAN]
InviteRows == {v \in AnyInvites :
                  v.state \in {"pending", "accepted"} => v.org \in Orgs /\ v.email \in Users}
AuditRecords == [action: {"org.created", "org.updated", "org.deleted", "user.joined", "user.removed",
                          "user.role_changed", "project.created", "project.deleted",
                          "project.granted", "user.invited", "invite.revoked"},
                 id: Nat \cup Orgs \cup Projects \cup Invites]

\* What follows the record of a change
GrantRequests == [op: {"grant"}, invite: Invites, user: Users, left: SUBSET Projects]
Continuations == {Idle} \cup GrantRequests

RequestRows ==
    Continuations
    \cup [op: {"audit"}, rec: AuditRecords, then: Continuations]
    \cup [op: {"insert_org", "seed_admin", "seed_plan"}, org: Orgs, user: Users]
    \cup [op: {"delete_org"}, org: Orgs]
    \cup [op: {"update_org"}, org: Orgs, enabled: BOOLEAN]
    \cup [op: {"guard"}, then: {"update_role", "remove_member"}, member: MemberRows,
          role: MembershipRoles]
    \cup [op: {"update_role", "remove_member"}, id: Nat, role: MembershipRoles]
    \cup [op: {"join"}, invite: Invites, inv: {v \in InviteRows : v.state = "pending"}]
    \cup [op: {"revoke"}, invite: Invites]
    \cup [op: {"create_account"}, org: Orgs, user: Users, known: BOOLEAN]
    \cup [op: {"provision"}, org: Orgs, user: Users]
    \cup [op: {"deprovision"}, member: MemberRows]

\* The tables: ids are used once, and a member's organization is there.
TablesOK ==
    /\ users \subseteq Users
    /\ orgs \in [Orgs -> OrgRows]
    /\ members \subseteq MemberRows /\ memberIDs \in Nat
    /\ projects \in [Projects -> Orgs \cup {NoOrg, Gone}]
    /\ grants \subseteq Users \X Projects
    /\ free \subseteq {o \in Orgs : Live(o)}
    /\ invites \in [Invites -> InviteRows]
    /\ defaultRole \in [Orgs -> MembershipRoles]
    /\ \A m \in members : m.id <= memberIDs /\ Live(m.org)
    /\ \A m, n \in members : m.id = n.id => m = n

\* The owner of o, unless the identity provider ended that membership, administers o.
OwnerAdministers(o) ==
    orgs[o].owner # NoUser /\ <<orgs[o].owner, o>> \notin removed
        => AuthorizeOrgAdmin(orgs[o].owner, o)

\* A copy of a member's row: the row of that id, if it is still there, is of the same
\* account and organization.
CopyOK(n) ==
    /\ n.id <= memberIDs
    /\ \A m \in members : m.id = n.id => m.org = n.org /\ m.user = n.user

\* A change of a member that passed the guard spares the owner.
SparesOwner(id) ==
    /\ id <= memberIDs
    /\ \A m \in members : m.id = id => orgs[m.org].owner # m.user

\* What a request in flight may rely on.
RequestOK(r) ==
    /\ r \in RequestRows
    /\ r.op \in {"guard", "deprovision"} => CopyOK(r.member)
    /\ r.op \in {"update_role", "remove_member"} => SparesOwner(r.id)
    /\ r.op = "insert_org" => orgs[r.org].state = "new"
    /\ r.op \in {"seed_admin", "seed_plan", "delete_org"} => orgs[r.org].state # "new"
    /\ r.op = "seed_admin" => orgs[r.org].owner \in {r.user, NoUser}
    /\ r.op = "seed_plan" /\ Live(r.org) => OwnerAdministers(r.org)

\* Two requests never insert one organization.
InsertsApart == \A s, t \in Requests :
    s # t /\ req[s].op = "insert_org" /\ req[t].op = "insert_org" => req[s].org # req[t].org

\* The inductive invariant.
MemberInv ==
    /\ TablesOK
    /\ req = [s \in Requests |-> req[s]]
    /\ \A s \in Requests : RequestOK(req[s])
    /\ InsertsApart
    /\ \A o \in free : OwnerAdministers(o)

LEMMA MemberInitOK == InvitationsInit => MemberInv
  <1> SUFFICES ASSUME InvitationsInit PROVE MemberInv
    OBVIOUS
  <1>0. "VIEWER" \in MembershipRoles
    BY DEF MembershipRoles, Roles
  <1>r. NewOrg \in OrgRows /\ NoInvite \in InviteRows
    BY <1>0 DEF NewOrg, OrgRows, NoInvite, InviteRows, AnyInvites
  <1>1. TablesOK
    BY <1>0, <1>r DEF InvitationsInit, TenancyInit, TablesOK
  <1>2. \A s \in Requests : req[s] = Idle
    BY DEF InvitationsInit, TenancyInit
  <1>3. RequestOK(Idle)
    BY DEF RequestOK, RequestRows, Continuations, Idle
  <1>4. \A s \in Requests : req[s].op # "insert_org"
    BY <1>2 DEF Idle
  <1>5. QED
    BY <1>1, <1>2, <1>3, <1>4 DEF MemberInv, InsertsApart, InvitationsInit, TenancyInit

\* What every step leaves of the facts that requests rely on: rows keep their account
\* and organization, a new row takes a new id, a deleted organization stays deleted, an
\* owner is never replaced, and an owner who administers keeps doing so.
Evolves ==
    /\ memberIDs' >= memberIDs
    /\ \A m \in members' : m.id <= memberIDs =>
          \E n \in members : n.id = m.id /\ n.org = m.org /\ n.user = m.user
    /\ \A o \in Orgs : orgs[o].state # "new" =>
          /\ orgs'[o].state # "new" /\ orgs'[o].owner \in {orgs[o].owner, NoUser}
          /\ Live(o)' => Live(o)
          /\ Live(o)' /\ OwnerAdministers(o) => OwnerAdministers(o)'

\* What a request knows of its fields.
LEMMA RequestFields ==
  ASSUME NEW r \in RequestRows
  PROVE  /\ r.op \in {"guard", "deprovision"} => r.member \in MemberRows
         /\ r.op \in {"update_role", "remove_member"} => r.id \in Nat /\ r.role \in MembershipRoles
         /\ r.op \in {"insert_org", "seed_admin", "seed_plan", "create_account", "provision"} =>
               r.org \in Orgs /\ r.user \in Users
         /\ r.op \in {"delete_org", "update_org"} => r.org \in Orgs
  BY DEF RequestRows, Continuations, GrantRequests, Idle

LEMMA RequestFieldsToo ==
  ASSUME NEW r \in RequestRows
  PROVE  /\ r.op = "audit" => r.rec \in AuditRecords /\ r.then \in Continuations
         /\ r.op = "guard" => r.then \in {"update_role", "remove_member"} /\ r.role \in MembershipRoles
         /\ r.op = "join" => r.invite \in Invites /\ r.inv \in InviteRows /\ r.inv.state = "pending"
         /\ r.op = "grant" => r \in GrantRequests
         /\ r.op = "revoke" => r.invite \in Invites
         /\ r.op = "update_org" => r.enabled \in BOOLEAN
         /\ r.op = "create_account" => r.known \in BOOLEAN
  BY DEF RequestRows, Continuations, GrantRequests, Idle

\* A request that is not about to insert an organization may go on relying on it.
LEMMA Carried ==
  ASSUME TablesOK, TablesOK', Evolves, NEW r, RequestOK(r),
         r.op = "insert_org" => orgs'[r.org].state = "new"
  PROVE  RequestOK(r)'
  <1>0. r \in RequestRows
    BY DEF RequestOK
  <1>1. ASSUME r.op \in {"guard", "deprovision"} PROVE CopyOK(r.member)'
    <2>1. CopyOK(r.member) /\ r.member \in MemberRows
      BY <1>0, <1>1, RequestFields DEF RequestOK
    <2>2. r.member.id \in Nat /\ memberIDs \in Nat /\ memberIDs' \in Nat /\ memberIDs' >= memberIDs
      BY <2>1 DEF MemberRows, TablesOK, Evolves
    <2>3. r.member.id <= memberIDs /\ r.member.id <= memberIDs'
      BY <2>1, <2>2 DEF CopyOK
    <2>4. ASSUME NEW m \in members', m.id = r.member.id
          PROVE  m.org = r.member.org /\ m.user = r.member.user
      <3>1. PICK n \in members : n.id = m.id /\ n.org = m.org /\ n.user = m.user
        BY <2>3, <2>4 DEF Evolves
      <3>2. QED
        BY <3>1, <2>1, <2>4 DEF CopyOK
    <2>5. QED
      BY <2>3, <2>4 DEF CopyOK
  <1>2. ASSUME r.op \in {"update_role", "remove_member"} PROVE SparesOwner(r.id)'
    <2>1. SparesOwner(r.id) /\ r.id \in Nat
      BY <1>0, <1>2, RequestFields DEF RequestOK
    <2>2. memberIDs \in Nat /\ memberIDs' \in Nat /\ memberIDs' >= memberIDs
      BY DEF TablesOK, Evolves
    <2>3. r.id <= memberIDs /\ r.id <= memberIDs'
      BY <2>1, <2>2 DEF SparesOwner
    <2>4. ASSUME NEW m \in members', m.id = r.id PROVE orgs'[m.org].owner # m.user
      <3>1. PICK n \in members : n.id = m.id /\ n.org = m.org /\ n.user = m.user
        BY <2>3, <2>4 DEF Evolves
      <3>2. n \in MemberRows /\ Live(n.org) /\ orgs[n.org].owner # n.user
        BY <3>1, <2>1, <2>4 DEF SparesOwner, TablesOK
      <3>3. n.org \in Orgs /\ n.user \in Users /\ orgs[n.org].state # "new"
        BY <3>2 DEF MemberRows, Live
      <3>4. orgs'[n.org].owner \in {orgs[n.org].owner, NoUser}
        BY <3>3 DEF Evolves
      <3>5. QED
        BY <3>1, <3>2, <3>3, <3>4, TenancyAssumption
    <2>5. QED
      BY <2>3, <2>4 DEF SparesOwner
  <1>3. ASSUME r.op \in {"seed_admin", "seed_plan", "delete_org"}
        PROVE  /\ orgs'[r.org].state # "new"
               /\ r.op = "seed_admin" => orgs'[r.org].owner \in {r.user, NoUser}
               /\ r.op = "seed_plan" /\ Live(r.org)' => OwnerAdministers(r.org)'
    <2>1. r.org \in Orgs /\ orgs[r.org].state # "new"
      BY <1>0, <1>3, RequestFields DEF RequestOK
    <2>2. /\ orgs'[r.org].state # "new" /\ orgs'[r.org].owner \in {orgs[r.org].owner, NoUser}
          /\ Live(r.org)' => Live(r.org)
          /\ Live(r.org)' /\ OwnerAdministers(r.org) => OwnerAdministers(r.org)'
      BY <2>1 DEF Evolves
    <2>3. QED
      BY <1>3, <2>2 DEF RequestOK
  <1>4. QED
    BY <1>0, <1>1, <1>2, <1>3 DEF RequestOK

\* A step of request s, once the tables are shown to evolve.
LEMMA Stepped ==
  ASSUME MemberInv, TablesOK', Evolves, NEW s \in Requests, NEW r,
         req' = [req EXCEPT ![s] = r], RequestOK(r)',
         r.op = "insert_org" =>
            \A t \in Requests \ {s} : req[t].op = "insert_org" => req[t].org # r.org,
         \A o \in Orgs : orgs[o].state = "new" /\ orgs'[o].state # "new" =>
            req[s].op = "insert_org" /\ req[s].org = o,
         \A o \in free' \ free : OwnerAdministers(o)'
  PROVE  MemberInv'
  <1>0. /\ TablesOK /\ \A t \in Requests : RequestOK(req[t]) /\ req[t] \in RequestRows
        /\ InsertsApart /\ \A o \in free : OwnerAdministers(o)
    BY DEF MemberInv, RequestOK
  <1>1. req' = [t \in Requests |-> req'[t]] /\ req'[s] = r
        /\ \A t \in Requests \ {s} : req'[t] = req[t]
    BY DEF MemberInv
  <1>2. ASSUME NEW t \in Requests \ {s}, NEW q, q = req[t] PROVE q = req'[t] /\ RequestOK(q)'
    <2>1. q = req[t]
      BY <1>2
    <2>2. RequestOK(q) /\ q \in RequestRows
      BY <2>1, <1>0, <1>2
    <2>3. q.op = "insert_org" => orgs[q.org].state = "new" /\ q.org \in Orgs
      BY <2>2, RequestFields DEF RequestOK
    <2>4. q.op = "insert_org" => orgs'[q.org].state = "new"
      BY <2>1, <2>3, <1>0, <1>2 DEF InsertsApart
    <2>5. RequestOK(q)'
      BY <2>2, <2>4, <1>0, Carried
    <2>6. req'[t] = q
      BY <2>1, <1>1
    <2>7. QED
      BY <2>5, <2>6
  <1>3. InsertsApart'
    BY <1>0, <1>1 DEF InsertsApart
  <1>4. ASSUME NEW o \in free' PROVE OwnerAdministers(o)'
    <2>1. CASE o \in free
      <3>1. o \in Orgs /\ Live(o) /\ Live(o)'
        BY <2>1, <1>0 DEF TablesOK
      <3>2. QED
        BY <3>1, <2>1, <1>0 DEF Evolves, Live
    <2>2. QED
      BY <2>1
  <1>5. ASSUME NEW t \in Requests PROVE RequestOK(req[t])'
    <2>1. PICK q : q = req'[t] /\ RequestOK(q)'
      BY <1>1, <1>2
    <2>2. QED
      BY <2>1 DEF RequestOK, CopyOK, SparesOwner, OwnerAdministers, AuthorizeOrgAdmin,
                  QueryByUserID, Live
  <1>6. QED
    BY <1>1, <1>3, <1>4, <1>5 DEF MemberInv

LEMMA StaysPut ==
  ASSUME MemberInv, TablesOK', Evolves, UNCHANGED <<req, free>>,
         \A o \in Orgs : orgs[o].state = "new" => orgs'[o].state = "new"
  PROVE  MemberInv'
  <1>0. /\ TablesOK /\ \A t \in Requests : RequestOK(req[t]) /\ req[t] \in RequestRows
        /\ InsertsApart /\ \A o \in free : OwnerAdministers(o)
    BY DEF MemberInv, RequestOK
  <1>1. ASSUME NEW t \in Requests PROVE RequestOK(req[t])'
    <2>1. PICK q : q = req[t] /\ q = req'[t]
      OBVIOUS
    <2>2. RequestOK(q) /\ q \in RequestRows
      BY <2>1, <1>0
    <2>3. q.op = "insert_org" => orgs'[q.org].state = "new"
      BY <2>2, RequestFields DEF RequestOK
    <2>4. RequestOK(q)'
      BY <2>2, <2>3, <1>0, Carried
    <2>5. QED
      BY <2>1, <2>4 DEF RequestOK, CopyOK, SparesOwner, OwnerAdministers, AuthorizeOrgAdmin,
                        QueryByUserID, Live
  <1>2. ASSUME NEW o \in free' PROVE OwnerAdministers(o)'
    <2>1. o \in free /\ o \in Orgs /\ Live(o) /\ Live(o)' /\ OwnerAdministers(o)
      BY <1>0 DEF TablesOK
    <2>2. QED
      BY <2>1 DEF Evolves, Live
  <1>3. QED
    BY <1>0, <1>1, <1>2 DEF MemberInv, InsertsApart

\* Requests that rely on nothing in the tables.
Plain == {"idle", "audit", "grant", "join", "revoke", "update_org", "create_account",
          "provision"}

GoesOnPlainly(s) == \E r \in RequestRows : r.op \in Plain /\ req' = [req EXCEPT ![s] = r]

LEMMA PlainStep ==
  ASSUME MemberInv, TablesOK', Evolves, NEW s \in Requests, GoesOnPlainly(s),
         \A o \in Orgs : orgs[o].state = "new" /\ orgs'[o].state # "new" =>
            req[s].op = "insert_org" /\ req[s].org = o,
         \A o \in free' \ free : OwnerAdministers(o)'
  PROVE  MemberInv'
  <1>1. PICK r \in RequestRows : r.op \in Plain /\ req' = [req EXCEPT ![s] = r]
    BY DEF GoesOnPlainly
  <1>2. RequestOK(r)' /\ r.op # "insert_org"
    BY <1>1 DEF RequestOK, Plain
  <1>3. QED
    BY <1>1, <1>2, Stepped

\* The requests a record of a change, and the end of a request, leave.
LEMMA PlainRequests ==
  ASSUME NEW s \in Requests
  PROVE  /\ \A rec \in AuditRecords, then \in Continuations : Audited(s, rec, then) => GoesOnPlainly(s)
         /\ \A then \in Continuations : Step(s, then) => GoesOnPlainly(s)
         /\ Finish(s) => GoesOnPlainly(s)
  <1>1. ASSUME NEW rec \in AuditRecords, NEW then \in Continuations, Audited(s, rec, then)
        PROVE  GoesOnPlainly(s)
    <2> DEFINE r == [op |-> "audit", rec |-> rec, then |-> then]
    <2>1. r \in RequestRows /\ r.op \in Plain
      BY DEF RequestRows, Plain
    <2>2. QED
      BY <1>1, <2>1 DEF Audited, Step, GoesOnPlainly
  <1>2. ASSUME NEW then \in Continuations, Step(s, then) PROVE GoesOnPlainly(s)
    <2>1. then \in RequestRows /\ then.op \in Plain
      BY DEF RequestRows, Plain, Continuations, GrantRequests, Idle
    <2>2. QED
      BY <1>2, <2>1 DEF Step, GoesOnPlainly
  <1>3. Idle \in Continuations
    BY DEF Continuations
  <1>4. QED
    BY <1>1, <1>2, <1>3 DEF Finish

\* What a request may leave of the tables besides members and organizations.
LEMMA SameMembers ==
  ASSUME TablesOK, UNCHANGED <<orgs, members, memberIDs>>, removed \subseteq removed',
         users' \subseteq Users, projects' \in [Projects -> Orgs \cup {NoOrg, Gone}],
         grants' \subseteq Users \X Projects, free' \subseteq {o \in Orgs : Live(o)},
         invites' \in [Invites -> InviteRows], defaultRole' \in [Orgs -> MembershipRoles]
  PROVE  TablesOK' /\ Evolves
  <1>1. TablesOK'
    BY DEF TablesOK, Live
  <1>2. memberIDs' >= memberIDs
    BY DEF TablesOK
  <1>3. \A o \in Orgs : Live(o)' = Live(o) /\ (OwnerAdministers(o) => OwnerAdministers(o)')
    BY DEF Live, OwnerAdministers, AuthorizeOrgAdmin, QueryByUserID
  <1>4. QED
    BY <1>1, <1>2, <1>3 DEF Evolves

\* No organization is deleted: its invitations stay.
LEMMA CascadeTypes ==
  ASSUME TablesOK, CascadeOrg
  PROVE  invites' \in [Invites -> InviteRows] /\ defaultRole' = defaultRole
  <1>1. ASSUME NEW i \in Invites
        PROVE  invites[i] \in InviteRows /\ [invites[i] EXCEPT !.state = "deleted"] \in InviteRows
    <2>1. invites[i] \in InviteRows
      BY DEF TablesOK
    <2>2. QED
      BY <2>1 DEF InviteRows, AnyInvites
  <1>2. QED
    BY <1>1 DEF CascadeOrg

\* orgbus.AddMember writes a row of a new id.
LEMMA InsertsMember ==
  ASSUME TablesOK, NEW o \in Orgs, NEW u \in Users, NEW role \in MembershipRoles,
         CanInsertMember(o, u), members' = InsertMember(o, u, role), memberIDs' = memberIDs + 1,
         invites' \in [Invites -> InviteRows],
         UNCHANGED <<users, orgs, projects, grants, free, removed, defaultRole>>
  PROVE  TablesOK' /\ Evolves /\ MemberRow(memberIDs + 1, o, u, role) \in members'
  <1> DEFINE row == MemberRow(memberIDs + 1, o, u, role)
  <1>1. /\ row \in MemberRows /\ row.id = memberIDs + 1 /\ row.org = o /\ row.user = u
        /\ memberIDs \in Nat /\ Live(o)
    BY DEF MemberRow, MemberRows, CanInsertMember, TablesOK
  <1>2. members' = members \cup {row}
    BY DEF InsertMember
  <1>3. \A m \in members : m \in MemberRows /\ m.id \in Nat /\ m.id <= memberIDs /\ Live(m.org)
    BY DEF TablesOK, MemberRows
  <1> HIDE DEF row
  <1>4. members' \subseteq MemberRows
        /\ \A m \in members' : m.id \in Nat /\ m.id <= memberIDs' /\ Live(m.org)
    BY <1>1, <1>2, <1>3
  <1>5. \A m, n \in members' : m.id = n.id => m = n
    <2>1. \A m, n \in members : m.id = n.id => m = n
      BY DEF TablesOK
    <2>2. \A m \in members : m.id # row.id
      BY <1>1, <1>3
    <2>3. QED
      BY <2>1, <2>2, <1>2
  <1>6. TablesOK'
    BY <1>1, <1>4, <1>5 DEF TablesOK, Live
  <1>7. \A m \in members' : m.id <= memberIDs => m \in members
    BY <1>1, <1>2
  <1>8. \A q \in Orgs : Live(q)' = Live(q) /\ (OwnerAdministers(q) => OwnerAdministers(q)')
    BY <1>2 DEF Live, OwnerAdministers, AuthorizeOrgAdmin, QueryByUserID
  <1>9. Evolves
    BY <1>1, <1>7, <1>8 DEF Evolves
  <1>10. QED
    BY <1>2, <1>6, <1>9 DEF row

\* A row that does not belong to the owner, or whose end the identity provider asked for,
\* is deleted.
LEMMA DeletesMember ==
  ASSUME TablesOK, NEW id, members' = DeleteMember(id), removed \subseteq removed',
         \A m \in members : m.id = id =>
            orgs[m.org].owner # m.user \/ <<m.user, m.org>> \in removed',
         invites' \in [Invites -> InviteRows],
         UNCHANGED <<users, orgs, memberIDs, projects, grants, free, defaultRole>>
  PROVE  TablesOK' /\ Evolves
  <1>1. members' \subseteq members /\ \A m \in members : m.id # id => m \in members'
    BY DEF DeleteMember, QueryMemberByID
  <1>2. TablesOK'
    BY <1>1 DEF TablesOK, Live
  <1>3. ASSUME NEW o \in Orgs, OwnerAdministers(o) PROVE OwnerAdministers(o)'
    BY <1>1, <1>3 DEF OwnerAdministers, AuthorizeOrgAdmin, QueryByUserID
  <1>4. memberIDs' >= memberIDs
    BY DEF TablesOK
  <1>5. QED
    BY <1>1, <1>2, <1>3, <1>4 DEF Evolves, Live

\* The role of a row that does not belong to the owner changes.
LEMMA SetsRole ==
  ASSUME TablesOK, NEW id, NEW role \in MembershipRoles, members' = SetMemberRole(id, role),
         \A m \in members : m.id = id => orgs[m.org].owner # m.user,
         invites' \in [Invites -> InviteRows],
         UNCHANGED <<users, orgs, memberIDs, projects, grants, free, removed, defaultRole>>
  PROVE  TablesOK' /\ Evolves
  <1>1. \A m \in members : m \in MemberRows /\ m.id \in Nat /\ m.id <= memberIDs /\ Live(m.org)
    BY DEF TablesOK, MemberRows
  <1>2. ASSUME NEW m \in members'
        PROVE  \E n \in members : /\ n.id = m.id /\ n.org = m.org /\ n.user = m.user
                                  /\ m \in MemberRows
                                  /\ m = n \/ (n.id = id /\ m = [n EXCEPT !.role = role])
    <2>1. CASE m \in members
      BY <2>1, <1>1
    <2>2. CASE m \notin members
      <3>1. PICK n \in members : n.id = id /\ m = [n EXCEPT !.role = role]
        BY <2>2 DEF SetMemberRole, DeleteMember, QueryMemberByID
      <3>2. n \in MemberRows
        BY <1>1
      <3>3. m \in MemberRows /\ n.id = m.id /\ n.org = m.org /\ n.user = m.user
        BY <3>1, <3>2 DEF MemberRows
      <3>4. QED
        BY <3>1, <3>3
    <2>3. QED
      BY <2>1, <2>2
  <1>3. \A m \in members : m.id # id => m \in members'
    BY DEF SetMemberRole, DeleteMember, QueryMemberByID
  <1>4. /\ members' \subseteq MemberRows
        /\ \A m \in members' : m.id <= memberIDs' /\ Live(m.org)'
    BY <1>1, <1>2 DEF Live
  <1>5. ASSUME NEW m \in members', NEW n \in members', m.id = n.id PROVE m = n
    <2>1. PICK p \in members : p.id = m.id /\ (m = p \/ (p.id = id /\ m = [p EXCEPT !.role = role]))
      BY <1>2
    <2>2. PICK q \in members : q.id = n.id /\ (n = q \/ (q.id = id /\ n = [q EXCEPT !.role = role]))
      BY <1>2
    <2>3. p = q
      BY <2>1, <2>2, <1>5 DEF TablesOK
    <2>4. CASE m.id # id
      BY <2>1, <2>2, <2>3, <2>4, <1>5
    <2>5. CASE m.id = id
      <3>1. \A k \in members' : k.id = id => \E j \in members : k = [j EXCEPT !.role = role] /\ j.id = id
        BY <1>1 DEF SetMemberRole, DeleteMember, QueryMemberByID
      <3>2. PICK j \in members : m = [j EXCEPT !.role = role] /\ j.id = id
        BY <3>1, <2>5
      <3>3. PICK k \in members : n = [k EXCEPT !.role = role] /\ k.id = id
        BY <3>1, <2>5, <1>5
      <3>4. j = k
        BY <3>2, <3>3 DEF TablesOK
      <3>5. QED
        BY <3>2, <3>3, <3>4
    <2>6. QED
      BY <2>4, <2>5
  <1>6. TablesOK'
    BY <1>4, <1>5 DEF TablesOK, Live
  <1>7. ASSUME NEW o \in Orgs, OwnerAdministers(o) PROVE OwnerAdministers(o)'
    BY <1>3, <1>7 DEF OwnerAdministers, AuthorizeOrgAdmin, QueryByUserID
  <1>8. memberIDs' >= memberIDs
    BY DEF TablesOK
  <1>9. QED
    BY <1>2, <1>6, <1>7, <1>8 DEF Evolves, Live

LEMMA PlainMove ==
  ASSUME MemberInv, UNCHANGED <<users, orgs, members, memberIDs, removed, free, defaultRole>>,
         NEW s \in Requests, GoesOnPlainly(s),
         projects' \in [Projects -> Orgs \cup {NoOrg, Gone}],
         grants' \subseteq Users \X Projects, invites' \in [Invites -> InviteRows]
  PROVE  MemberInv'
  <1>0. TablesOK
    BY DEF MemberInv
  <1>1. /\ users' \subseteq Users /\ removed \subseteq removed'
        /\ free' \subseteq {o \in Orgs : Live(o)} /\ defaultRole' \in [Orgs -> MembershipRoles]
    BY <1>0 DEF TablesOK
  <1>2. TablesOK' /\ Evolves
    BY <1>0, <1>1, SameMembers
  <1>3. QED
    BY <1>2, PlainStep

\* A request that only looks.
LEMMA Looks ==
  ASSUME MemberInv, NEW s \in Requests, NEW r, RequestOK(r), req' = [req EXCEPT ![s] = r],
         r.op = "insert_org" =>
            \A t \in Requests \ {s} : req[t].op = "insert_org" => req[t].org # r.org,
         invites' \in [Invites -> InviteRows],
         UNCHANGED <<users, orgs, members, memberIDs, projects, grants, free, removed, defaultRole>>
  PROVE  MemberInv'
  <1>0. TablesOK
    BY DEF MemberInv
  <1>1. /\ users' \subseteq Users /\ removed \subseteq removed' /\ grants' \subseteq Users \X Projects
        /\ free' \subseteq {o \in Orgs : Live(o)} /\ defaultRole' \in [Orgs -> MembershipRoles]
        /\ projects' \in [Projects -> Orgs \cup {NoOrg, Gone}]
    BY <1>0 DEF TablesOK
  <1>2. TablesOK' /\ Evolves
    BY <1>0, <1>1, SameMembers
  <1>3. r.op = "insert_org" => orgs'[r.org].state = "new"
    BY DEF RequestOK
  <1>4. RequestOK(r)'
    BY <1>0, <1>2, <1>3, Carried
  <1>5. QED
    BY <1>2, <1>4, Stepped

\* The row of an organization that is inserted.
LEMMA InsertsOrg ==
  ASSUME TablesOK, NEW o \in Orgs, NEW u \in Users, orgs[o].state = "new",
         orgs' = [orgs EXCEPT ![o] = OrgRow(u)], invites' \in [Invites -> InviteRows],
         UNCHANGED <<users, members, memberIDs, projects, grants, free, removed, defaultRole>>
  PROVE  TablesOK' /\ Evolves
  <1>1. OrgRow(u) \in OrgRows /\ OrgRow(u).state = "live"
    BY DEF OrgRow, OrgRows
  <1>2. orgs' \in [Orgs -> OrgRows] /\ \A q \in Orgs : Live(q) => Live(q)'
    BY <1>1 DEF TablesOK, Live
  <1>3. \A m \in members : m.org \in Orgs
    BY DEF TablesOK, MemberRows
  <1>4. TablesOK'
    BY <1>2, <1>3 DEF TablesOK
  <1>5. \A q \in Orgs : orgs[q].state # "new" => orgs'[q] = orgs[q]
    BY DEF TablesOK
  <1>6. memberIDs' >= memberIDs
    BY DEF TablesOK
  <1>7. QED
    BY <1>4, <1>5, <1>6 DEF Evolves, Live, OwnerAdministers, AuthorizeOrgAdmin, QueryByUserID

\* The cascade of a deleted organization.
LEMMA DeletesOrg ==
  ASSUME TablesOK, NEW o \in Orgs,
         orgs' = [orgs EXCEPT ![o].state = "deleted", ![o].owner = NoUser],
         members' = members \ QueryMembers(o), free' = free \ {o},
         projects' \in [Projects -> Orgs \cup {NoOrg, Gone}], grants' \subseteq grants,
         invites' \in [Invites -> InviteRows],
         UNCHANGED <<users, memberIDs, removed, defaultRole>>
  PROVE  TablesOK' /\ Evolves
  <1>1. orgs[o] \in OrgRows /\ orgs \in [Orgs -> OrgRows]
    BY DEF TablesOK
  <1>2. /\ orgs'[o] \in OrgRows /\ orgs'[o].state = "deleted" /\ orgs'[o].owner = NoUser
        /\ \A q \in Orgs \ {o} : orgs'[q] = orgs[q]
    BY <1>1 DEF OrgRows
  <1>3. orgs' \in [Orgs -> OrgRows]
    BY <1>1, <1>2
  <1>4. \A m \in members' : m \in members /\ m.org # o /\ m.org \in Orgs
    BY DEF QueryMembers, TablesOK, MemberRows
  <1>5. members' \subseteq members /\ \A m \in members : m.org # o => m \in members'
    BY DEF QueryMembers
  <1>6. \A m \in members' : Live(m.org)'
    BY <1>2, <1>4 DEF TablesOK, Live
  <1>7. TablesOK'
    BY <1>2, <1>3, <1>5, <1>6 DEF TablesOK, Live
  <1>8. ASSUME NEW q \in Orgs \ {o}, OwnerAdministers(q) PROVE OwnerAdministers(q)'
    <2>1. orgs'[q] = orgs[q] /\ removed' = removed /\ \A m \in members : m.org = q => m \in members'
      BY <1>2, <1>5
    <2>2. QED
      BY <2>1, <1>8 DEF OwnerAdministers, AuthorizeOrgAdmin, QueryByUserID
  <1>9. memberIDs' >= memberIDs
    BY DEF TablesOK
  <1>10. QED
    BY <1>2, <1>5, <1>7, <1>8, <1>9 DEF Evolves, Live

\* app.update writes enabled and nothing else.
LEMMA WritesOrg ==
  ASSUME TablesOK, NEW o \in Orgs, NEW enabled \in BOOLEAN, orgs' = WriteOrg(o, enabled),
         invites' \in [Invites -> InviteRows],
         UNCHANGED <<users, members, memberIDs, projects, grants, free, removed, defaultRole>>
  PROVE  /\ TablesOK' /\ Evolves
         /\ \A q \in Orgs : orgs'[q].state = orgs[q].state
  <1>1. orgs[o] \in OrgRows /\ orgs \in [Orgs -> OrgRows]
    BY DEF TablesOK
  <1>2. orgs' \in [Orgs -> OrgRows]
        /\ \A q \in Orgs : orgs'[q].state = orgs[q].state /\ orgs'[q].owner = orgs[q].owner
    BY <1>1 DEF WriteOrg, OrgRows
  <1>3. \A m \in members : m.org \in Orgs
    BY DEF TablesOK, MemberRows
  <1>4. TablesOK'
    BY <1>2, <1>3 DEF TablesOK, Live
  <1>5. memberIDs' >= memberIDs
    BY DEF TablesOK
  <1>6. QED
    BY <1>2, <1>4, <1>5 DEF Evolves, Live, OwnerAdministers, AuthorizeOrgAdmin, QueryByUserID

\* An account goes: its organizations have no owner any more.
LEMMA DropsUser ==
  ASSUME TablesOK, NEW u \in Users, DropUser(u), UNCHANGED invitationVars
  PROVE  TablesOK' /\ Evolves /\ \A o \in Orgs : orgs'[o].state = orgs[o].state
  <1>0. orgs \in [Orgs -> OrgRows]
    BY DEF TablesOK
  <1>1. /\ orgs' \in [Orgs -> OrgRows]
        /\ \A o \in Orgs : /\ orgs'[o].state = orgs[o].state
                           /\ orgs'[o].owner = IF orgs[o].owner = u THEN NoUser ELSE orgs[o].owner
    <2>1. \A o \in Orgs : orgs[o] \in OrgRows
      BY <1>0
    <2>2. QED
      BY <2>1 DEF DropUser, OrgRows
  <1>2. members' \subseteq members /\ \A m \in members : m.user # u => m \in members'
    BY DEF DropUser, QueryByUserID
  <1>3. \A m \in members : m.org \in Orgs
    BY DEF TablesOK, MemberRows
  <1>4. /\ users' \subseteq users /\ grants' \subseteq grants /\ removed \subseteq removed'
        /\ UNCHANGED <<memberIDs, projects, free, req, invites, defaultRole>>
    BY DEF DropUser, invitationVars
  <1>5. TablesOK'
    BY <1>1, <1>2, <1>3, <1>4 DEF TablesOK, Live
  <1>6. memberIDs' >= memberIDs
    BY <1>4 DEF TablesOK
  <1>7. ASSUME NEW o \in Orgs, OwnerAdministers(o) PROVE OwnerAdministers(o)'
    BY <1>1, <1>2, <1>4, <1>7 DEF OwnerAdministers, AuthorizeOrgAdmin, QueryByUserID
  <1>8. QED
    BY <1>1, <1>2, <1>4, <1>5, <1>6, <1>7 DEF Evolves, Live

LEMMA CreateOrgOK ==
  ASSUME MemberInv, NEW s \in Requests, NEW u \in users, NEW o \in Orgs,
         CreateOrg(s, u, o), CascadeOrg
  PROVE  MemberInv'
  <1> DEFINE r == [op |-> "insert_org", org |-> o, user |-> u]
  <1>0. TablesOK /\ u \in Users
    BY DEF MemberInv, TablesOK
  <1>1. r \in RequestRows /\ r.op = "insert_org" /\ r.org = o
    BY <1>0 DEF RequestRows
  <1>2. RequestOK(r)
    BY <1>1 DEF RequestOK, CreateOrg
  <1>3. /\ req' = [req EXCEPT ![s] = r]
        /\ \A t \in Requests \ {s} : req[t].op = "insert_org" => req[t].org # o
    BY DEF CreateOrg, Start
  <1>4. UNCHANGED <<users, orgs, members, memberIDs, projects, grants, free, removed>>
    BY DEF CreateOrg
  <1> HIDE DEF r
  <1>5. QED
    BY <1>0, <1>1, <1>2, <1>3, <1>4, CascadeTypes, Looks

LEMMA InsertOrgOK ==
  ASSUME MemberInv, NEW s \in Requests, InsertOrg(s), CascadeOrg PROVE MemberInv'
  <1> DEFINE o == req[s].org
             u == req[s].user
  <1>0. /\ TablesOK /\ RequestOK(req[s]) /\ req[s] \in RequestRows /\ req[s].op = "insert_org"
        /\ invites' \in [Invites -> InviteRows] /\ defaultRole' = defaultRole
        /\ UNCHANGED <<users, members, memberIDs, projects, grants, free, removed>>
    BY CascadeTypes DEF MemberInv, RequestOK, InsertOrg
  <1>1. o \in Orgs /\ u \in Users /\ orgs[o].state = "new"
    BY <1>0, RequestFields DEF RequestOK
  <1>2. CASE u \in users
    <2>1. PICK r : r = [req[s] EXCEPT !.op = "seed_admin"]
      OBVIOUS
    <2>2. r = [op |-> "seed_admin", org |-> o, user |-> u]
      BY <1>0, <2>1 DEF RequestRows, Continuations, GrantRequests, Idle
    <2>3. r \in RequestRows /\ r.op = "seed_admin" /\ r.org = o /\ r.user = u
      BY <1>1, <2>2 DEF RequestRows
    <2>4. orgs' = [orgs EXCEPT ![o] = OrgRow(u)] /\ req' = [req EXCEPT ![s] = r]
      BY <1>2, <2>1 DEF InsertOrg, Step
    <2>5. TablesOK' /\ Evolves
      BY <1>0, <1>1, <2>4, InsertsOrg
    <2>6. orgs'[o].state = "live" /\ orgs'[o].owner = u /\ \A q \in Orgs \ {o} : orgs'[q] = orgs[q]
      BY <1>0, <1>1, <2>4 DEF TablesOK, OrgRow
    <2>7. RequestOK(r)'
      BY <2>3, <2>6 DEF RequestOK
    <2> HIDE DEF o, u
    <2>8. \A q \in Orgs : orgs[q].state = "new" /\ orgs'[q].state # "new" =>
              req[s].op = "insert_org" /\ req[s].org = q
      BY <1>0, <2>6 DEF o
    <2>9. QED
      BY <1>0, <2>3, <2>4, <2>5, <2>7, <2>8, Stepped
  <1>3. CASE u \notin users
    <2>1. UNCHANGED orgs /\ Finish(s)
      BY <1>3 DEF InsertOrg
    <2>2. GoesOnPlainly(s)
      BY <2>1, PlainRequests
    <2>3. QED
      BY <1>0, <2>1, <2>2, PlainMove DEF TablesOK
  <1>4. QED
    BY <1>2, <1>3

LEMMA SeedAdminOK ==
  ASSUME MemberInv, NEW s \in Requests, SeedAdmin(s), CascadeOrg PROVE MemberInv'
  <1>o. PICK o, u : o = req[s].org /\ u = req[s].user
    OBVIOUS
  <1>0. /\ TablesOK /\ RequestOK(req[s]) /\ req[s] \in RequestRows /\ req[s].op = "seed_admin"
        /\ invites' \in [Invites -> InviteRows] /\ defaultRole' = defaultRole
        /\ UNCHANGED <<users, orgs, projects, grants, free, removed>>
    BY CascadeTypes DEF MemberInv, RequestOK, SeedAdmin
  <1>1. o \in Orgs /\ u \in Users /\ orgs[o].state # "new" /\ orgs[o].owner \in {u, NoUser}
    BY <1>0, <1>o, RequestFields DEF RequestOK
  <1>2. CASE CanInsertMember(o, u)
    <2>1. PICK r : r = [req[s] EXCEPT !.op = "seed_plan"]
      OBVIOUS
    <2>2. r = [op |-> "seed_plan", org |-> o, user |-> u]
      BY <1>0, <1>o, <2>1 DEF RequestRows, Continuations, GrantRequests, Idle
    <2>3. r \in RequestRows /\ r.op = "seed_plan" /\ r.org = o
      BY <1>1, <2>2 DEF RequestRows
    <2>4. /\ members' = InsertMember(o, u, "ORG_ADMIN") /\ memberIDs' = memberIDs + 1
          /\ req' = [req EXCEPT ![s] = r]
      BY <1>2, <1>o, <2>1 DEF SeedAdmin, Step
    <2>5. "ORG_ADMIN" \in MembershipRoles
      BY DEF MembershipRoles, Roles
    <2>6. TablesOK' /\ Evolves /\ MemberRow(memberIDs + 1, o, u, "ORG_ADMIN") \in members'
      BY <1>0, <1>1, <1>2, <2>4, <2>5, InsertsMember
    <2>7. PICK m \in members' : m.org = o /\ m.user = u /\ m.role = "ORG_ADMIN"
      BY <2>6 DEF MemberRow
    <2>8. OwnerAdministers(o)'
      BY <1>0, <1>1, <2>7 DEF OwnerAdministers, AuthorizeOrgAdmin, QueryByUserID
    <2>9. RequestOK(r)'
      BY <1>0, <1>1, <2>3, <2>8 DEF RequestOK
    <2>10. QED
      BY <1>0, <2>3, <2>4, <2>6, <2>9, Stepped
  <1>3. CASE ~CanInsertMember(o, u)
    <2>1. members' = members /\ UNCHANGED memberIDs /\ Finish(s)
      BY <1>3, <1>o DEF SeedAdmin, InsertMember
    <2>2. GoesOnPlainly(s)
      BY <2>1, PlainRequests
    <2>3. QED
      BY <1>0, <2>1, <2>2, PlainMove DEF TablesOK
  <1>4. QED
    BY <1>2, <1>3

LEMMA SeedPlanOK ==
  ASSUME MemberInv, NEW s \in Requests, SeedPlan(s), CascadeOrg PROVE MemberInv'
  <1>o. PICK o : o = req[s].org
    OBVIOUS
  <1>0. /\ TablesOK /\ RequestOK(req[s]) /\ req[s] \in RequestRows /\ req[s].op = "seed_plan"
        /\ invites' \in [Invites -> InviteRows] /\ defaultRole' = defaultRole
        /\ UNCHANGED <<users, orgs, members, memberIDs, projects, grants, removed>>
    BY CascadeTypes DEF MemberInv, RequestOK, SeedPlan
  <1>1. o \in Orgs /\ (Live(o) => OwnerAdministers(o))
    BY <1>0, <1>o, RequestFields DEF RequestOK
  <1>2. GoesOnPlainly(s)
    <2>1. OrgCreated(o) \in AuditRecords /\ Idle \in Continuations
      BY <1>1 DEF OrgCreated, Record, AuditRecords, Continuations
    <2>2. QED
      BY <1>o, <2>1, PlainRequests DEF SeedPlan
  <1>3. free' = IF Live(o) THEN free \cup {o} ELSE free
    BY <1>o DEF SeedPlan
  <1>4. /\ users' \subseteq Users /\ removed \subseteq removed' /\ grants' \subseteq Users \X Projects
        /\ free' \subseteq {q \in Orgs : Live(q)} /\ defaultRole' \in [Orgs -> MembershipRoles]
        /\ projects' \in [Projects -> Orgs \cup {NoOrg, Gone}]
    BY <1>0, <1>1, <1>3 DEF TablesOK
  <1>5. TablesOK' /\ Evolves
    BY <1>0, <1>4, SameMembers
  <1>6. \A q \in free' \ free : OwnerAdministers(q)'
    <2>1. \A q \in free' \ free : q = o /\ Live(o)
      BY <1>3
    <2>2. Live(o) => OwnerAdministers(o)'
      BY <1>0, <1>1 DEF OwnerAdministers, AuthorizeOrgAdmin, QueryByUserID
    <2>3. QED
      BY <2>1, <2>2
  <1>7. QED
    BY <1>0, <1>2, <1>5, <1>6, PlainStep

LEMMA AuditOK ==
  ASSUME MemberInv, NEW s \in Requests, Audit(s), CascadeOrg PROVE MemberInv'
  <1>1. req[s] \in RequestRows /\ req[s].op = "audit" /\ TablesOK
    BY DEF MemberInv, RequestOK, Audit
  <1>2. req[s].then \in Continuations
    BY <1>1, RequestFieldsToo
  <1>3. GoesOnPlainly(s)
    BY <1>2, PlainRequests DEF Audit
  <1>4. invites' \in [Invites -> InviteRows] /\ defaultRole' = defaultRole
    BY <1>1, CascadeTypes
  <1>5. UNCHANGED <<users, orgs, members, memberIDs, projects, grants, free, removed>>
    BY DEF Audit
  <1>6. QED
    BY <1>1, <1>3, <1>4, <1>5, PlainMove DEF TablesOK

LEMMA AbandonOK ==
  ASSUME MemberInv, NEW s \in Requests, Abandon(s), CascadeOrg PROVE MemberInv'
  <1>1. TablesOK /\ GoesOnPlainly(s)
    BY PlainRequests DEF MemberInv, Abandon
  <1>2. invites' \in [Invites -> InviteRows] /\ defaultRole' = defaultRole
    BY <1>1, CascadeTypes
  <1>3. UNCHANGED <<users, orgs, members, memberIDs, projects, grants, free, removed>>
    BY DEF Abandon
  <1>4. QED
    BY <1>1, <1>2, <1>3, PlainMove DEF TablesOK

LEMMA ConfirmDeleteOK ==
  ASSUME MemberInv, NEW s \in Requests, NEW u, NEW o \in Orgs, NEW force,
         ConfirmDelete(s, u, o, force), CascadeOrg
  PROVE  MemberInv'
  <1>1. PICK r : r = [op |-> "delete_org", org |-> o]
    OBVIOUS
  <1>2. RequestOK(r) /\ r.op # "insert_org" /\ TablesOK
    BY <1>1 DEF RequestOK, RequestRows, ConfirmDelete, AuthorizeOrgOwner, Live, MemberInv
  <1>3. /\ req' = [req EXCEPT ![s] = r]
        /\ UNCHANGED <<users, orgs, members, memberIDs, projects, grants, free, removed>>
    BY <1>1 DEF ConfirmDelete, Start
  <1>4. QED
    BY <1>2, <1>3, CascadeTypes, Looks

LEMMA DeleteOrgOK ==
  ASSUME MemberInv, NEW s \in Requests, DeleteOrg(s), CascadeOrg PROVE MemberInv'
  <1>o. PICK o : o = req[s].org
    OBVIOUS
  <1>0. /\ TablesOK /\ RequestOK(req[s]) /\ req[s] \in RequestRows /\ req[s].op = "delete_org"
        /\ invites' \in [Invites -> InviteRows] /\ defaultRole' = defaultRole
        /\ UNCHANGED <<users, memberIDs, removed>>
    BY CascadeTypes DEF MemberInv, RequestOK, DeleteOrg
  <1>1. o \in Orgs /\ orgs[o].state # "new"
    BY <1>0, <1>o, RequestFields DEF RequestOK
  <1>2. /\ orgs' = [orgs EXCEPT ![o].state = "deleted", ![o].owner = NoUser]
        /\ members' = members \ QueryMembers(o) /\ free' = free \ {o} /\ grants' \subseteq grants
        /\ projects' = [p \in Projects |-> IF projects[p] = o THEN Gone ELSE projects[p]]
        /\ Audited(s, OrgDeleted(o), Idle)
    BY <1>o DEF DeleteOrg
  <1>3. projects' \in [Projects -> Orgs \cup {NoOrg, Gone}]
    BY <1>0, <1>2 DEF TablesOK
  <1>4. TablesOK' /\ Evolves
    BY <1>0, <1>1, <1>2, <1>3, DeletesOrg
  <1>5. GoesOnPlainly(s)
    <2>1. OrgDeleted(o) \in AuditRecords /\ Idle \in Continuations
      BY <1>1 DEF OrgDeleted, Record, AuditRecords, Continuations
    <2>2. QED
      BY <2>1, <1>2, PlainRequests
  <1>6. \A q \in Orgs : orgs[q].state = "new" => orgs'[q].state = "new"
    BY <1>0, <1>1, <1>2 DEF TablesOK
  <1>7. free' \ free = {}
    BY <1>2
  <1>8. QED
    BY <1>4, <1>5, <1>6, <1>7, PlainStep

LEMMA LoadOrgOK ==
  ASSUME MemberInv, NEW s \in Requests, NEW u, NEW o \in Orgs, LoadOrg(s, u, o), CascadeOrg
  PROVE  MemberInv'
  <1>1. PICK r : r = [op |-> "update_org", org |-> o, enabled |-> orgs[o].enabled]
    OBVIOUS
  <1>2. TablesOK /\ orgs[o] \in OrgRows
    BY DEF MemberInv, TablesOK
  <1>3. RequestOK(r) /\ r.op # "insert_org"
    BY <1>1, <1>2 DEF RequestOK, RequestRows, OrgRows
  <1>4. /\ req' = [req EXCEPT ![s] = r]
        /\ UNCHANGED <<users, orgs, members, memberIDs, projects, grants, free, removed>>
    BY <1>1 DEF LoadOrg, Start
  <1>5. QED
    BY <1>2, <1>3, <1>4, CascadeTypes, Looks

LEMMA UpdateOrgOK ==
  ASSUME MemberInv, NEW s \in Requests, NEW change, UpdateOrg(s, change), CascadeOrg
  PROVE  MemberInv'
  <1>o. PICK o, e : o = req[s].org /\ e = (IF change = "keep" THEN req[s].enabled ELSE change = "on")
    OBVIOUS
  <1>0. /\ TablesOK /\ req[s] \in RequestRows /\ req[s].op = "update_org"
        /\ invites' \in [Invites -> InviteRows] /\ defaultRole' = defaultRole
        /\ UNCHANGED <<users, members, memberIDs, projects, grants, free, removed>>
    BY CascadeTypes DEF MemberInv, RequestOK, UpdateOrg
  <1>1. o \in Orgs
    BY <1>0, <1>o, RequestFields
  <1>2. req[s].enabled \in BOOLEAN
    BY <1>0, RequestFieldsToo
  <1>3. e \in BOOLEAN
    BY <1>o, <1>2
  <1>4. orgs' = WriteOrg(o, e) /\ Audited(s, OrgUpdated(o), Idle)
    BY <1>o DEF UpdateOrg
  <1>5. GoesOnPlainly(s)
    <2>1. OrgUpdated(o) \in AuditRecords /\ Idle \in Continuations
      BY <1>1 DEF OrgUpdated, Record, AuditRecords, Continuations
    <2>2. QED
      BY <2>1, <1>4, PlainRequests
  <1>6. TablesOK' /\ Evolves /\ \A q \in Orgs : orgs'[q].state = orgs[q].state
    BY <1>0, <1>1, <1>3, <1>4, WritesOrg
  <1>7. QED
    BY <1>0, <1>5, <1>6, PlainStep

LEMMA LoadOrgMemberOK ==
  ASSUME MemberInv, NEW s \in Requests, NEW u, NEW m \in members,
         NEW op \in {"update_role", "remove_member"}, NEW role \in MembershipRoles,
         LoadOrgMember(s, u, m, op, role), CascadeOrg
  PROVE  MemberInv'
  <1>1. PICK r : r = [op |-> "guard", then |-> op, member |-> m, role |-> role]
    OBVIOUS
  <1>2. TablesOK /\ m \in MemberRows /\ CopyOK(m)
    BY DEF MemberInv, TablesOK, CopyOK
  <1>3. RequestOK(r) /\ r.op # "insert_org"
    BY <1>1, <1>2 DEF RequestOK, RequestRows
  <1>4. /\ req' = [req EXCEPT ![s] = r]
        /\ UNCHANGED <<users, orgs, members, memberIDs, projects, grants, free, removed>>
    BY <1>1 DEF LoadOrgMember, Start
  <1>5. QED
    BY <1>2, <1>3, <1>4, CascadeTypes, Looks

LEMMA GuardMemberChangeOK ==
  ASSUME MemberInv, NEW s \in Requests, GuardMemberChange(s), CascadeOrg PROVE MemberInv'
  <1>q. PICK q : q = req[s]
    OBVIOUS
  <1>0. /\ TablesOK /\ RequestOK(q) /\ q \in RequestRows /\ q.op = "guard"
        /\ invites' \in [Invites -> InviteRows] /\ defaultRole' = defaultRole
        /\ UNCHANGED <<users, orgs, members, memberIDs, projects, grants, free, removed>>
    BY <1>q, CascadeTypes DEF MemberInv, RequestOK, GuardMemberChange
  <1>1. /\ q.member \in MemberRows /\ CopyOK(q.member) /\ q.role \in MembershipRoles
        /\ q.then \in {"update_role", "remove_member"}
    BY <1>0, RequestFields, RequestFieldsToo DEF RequestOK
  <1>2. CASE MemberChangeAllowed(q.member, q.then = "update_role" /\ q.role = "ORG_ADMIN")
    <2>1. PICK r : r = [op |-> q.then, id |-> q.member.id, role |-> q.role]
      OBVIOUS
    <2>2. orgs[q.member.org].owner # q.member.user
      BY <1>2 DEF MemberChangeAllowed
    <2>3. SparesOwner(q.member.id)
      BY <1>1, <2>2 DEF SparesOwner, CopyOK
    <2>4. r \in RequestRows /\ r.op \in {"update_role", "remove_member"} /\ r.id = q.member.id
      BY <1>1, <2>1 DEF RequestRows, MemberRows
    <2>5. RequestOK(r) /\ r.op # "insert_org"
      BY <2>3, <2>4 DEF RequestOK
    <2>6. req' = [req EXCEPT ![s] = r]
      BY <1>q, <1>2, <2>1 DEF GuardMemberChange, Step
    <2>7. QED
      BY <1>0, <2>5, <2>6, Looks
  <1>3. CASE ~MemberChangeAllowed(q.member, q.then = "update_role" /\ q.role = "ORG_ADMIN")
    <2>1. Finish(s)
      BY <1>q, <1>3 DEF GuardMemberChange
    <2>2. QED
      BY <1>0, <2>1, PlainRequests, PlainMove DEF TablesOK
  <1>4. QED
    BY <1>2, <1>3

\* What follows a change of a row by its id
LEMMA RowRecorded ==
  ASSUME NEW s \in Requests, NEW id \in Nat,
         Finish(s) \/ Audited(s, UserRemoved(id), Idle) \/ Audited(s, RoleChanged(id), Idle)
  PROVE  GoesOnPlainly(s)
  <1>1. UserRemoved(id) \in AuditRecords /\ RoleChanged(id) \in AuditRecords /\ Idle \in Continuations
    BY DEF UserRemoved, RoleChanged, Record, AuditRecords, Continuations
  <1>2. QED
    BY <1>1, PlainRequests

LEMMA UpdateRoleOK ==
  ASSUME MemberInv, NEW s \in Requests, UpdateRole(s), CascadeOrg PROVE MemberInv'
  <1>o. PICK id, role : id = req[s].id /\ role = req[s].role
    OBVIOUS
  <1>0. /\ TablesOK /\ RequestOK(req[s]) /\ req[s] \in RequestRows /\ req[s].op = "update_role"
        /\ invites' \in [Invites -> InviteRows] /\ defaultRole' = defaultRole
        /\ UNCHANGED <<users, orgs, memberIDs, projects, grants, free, removed>>
    BY CascadeTypes DEF MemberInv, RequestOK, UpdateRole, UpdateMemberRole
  <1>1. id \in Nat /\ role \in MembershipRoles /\ SparesOwner(id)
    BY <1>0, <1>o, RequestFields DEF RequestOK
  <1>2. members' = SetMemberRole(id, role)
    BY <1>o DEF UpdateRole, UpdateMemberRole
  <1>3. \A m \in members : m.id = id => orgs[m.org].owner # m.user
    BY <1>1 DEF SparesOwner
  <1>4. TablesOK' /\ Evolves
    BY <1>0, <1>1, <1>2, <1>3, SetsRole
  <1>5. Finish(s) \/ Audited(s, RoleChanged(id), Idle)
    BY <1>o DEF UpdateRole, UpdateMemberRole
  <1>6. QED
    BY <1>0, <1>1, <1>4, <1>5, RowRecorded, PlainStep

LEMMA RemoveOrgMemberOK ==
  ASSUME MemberInv, NEW s \in Requests, RemoveOrgMember(s), CascadeOrg PROVE MemberInv'
  <1>o. PICK id : id = req[s].id
    OBVIOUS
  <1>0. /\ TablesOK /\ RequestOK(req[s]) /\ req[s] \in RequestRows /\ req[s].op = "remove_member"
        /\ invites' \in [Invites -> InviteRows] /\ defaultRole' = defaultRole
        /\ UNCHANGED <<users, orgs, memberIDs, projects, grants, free, removed>>
    BY CascadeTypes DEF MemberInv, RequestOK, RemoveOrgMember, RemoveMember
  <1>1. id \in Nat /\ SparesOwner(id)
    BY <1>0, <1>o, RequestFields DEF RequestOK
  <1>2. members' = DeleteMember(id)
    BY <1>o DEF RemoveOrgMember, RemoveMember
  <1>3. \A m \in members : m.id = id => orgs[m.org].owner # m.user
    BY <1>1 DEF SparesOwner
  <1>4. TablesOK' /\ Evolves
    BY <1>0, <1>2, <1>3, DeletesMember
  <1>5. Finish(s) \/ Audited(s, UserRemoved(id), Idle)
    BY <1>o DEF RemoveOrgMember, RemoveMember
  <1>6. QED
    BY <1>0, <1>1, <1>4, <1>5, RowRecorded, PlainStep

LEMMA OrgRequestOK ==
  ASSUME MemberInv, NEW s \in Requests, OrgRequest(s), CascadeOrg PROVE MemberInv'
  <1>1. CASE \E u \in users, o \in Orgs : CreateOrg(s, u, o) \/ LoadOrg(s, u, o)
    BY <1>1, CreateOrgOK, LoadOrgOK
  <1>2. CASE \E u \in users, o \in Orgs, force \in BOOLEAN : ConfirmDelete(s, u, o, force)
    BY <1>2, ConfirmDeleteOK
  <1>3. CASE \E change \in {"keep", "on", "off"} : UpdateOrg(s, change)
    BY <1>3, UpdateOrgOK
  <1>4. CASE \E u \in users, m \in members, role \in AskedRoles :
                LoadOrgMember(s, u, m, "update_role", role)
    <2>1. \A role \in AskedRoles : role \in MembershipRoles
      BY TenancyAssumption
    <2>2. QED
      BY <1>4, <2>1, LoadOrgMemberOK
  <1>5. CASE \E u \in users, m \in members : LoadOrgMember(s, u, m, "remove_member", "VIEWER")
    <2>1. "VIEWER" \in MembershipRoles
      BY DEF MembershipRoles, Roles
    <2>2. QED
      BY <1>5, <2>1, LoadOrgMemberOK
  <1>6. QED
    BY <1>1, <1>2, <1>3, <1>4, <1>5, InsertOrgOK, SeedAdminOK, SeedPlanOK, DeleteOrgOK,
       GuardMemberChangeOK, UpdateRoleOK, RemoveOrgMemberOK, AuditOK, AbandonOK DEF OrgRequest

LEMMA ProjectRequestOK ==
  ASSUME MemberInv, NEW s \in Requests, ProjectRequest(s), UNCHANGED invitationVars
  PROVE  MemberInv'
  <1>0. TablesOK /\ UNCHANGED <<invites, defaultRole>>
    BY DEF MemberInv, invitationVars
  <1>1. ASSUME NEW u, NEW o \in Orgs, NEW p \in Projects, CreateProject(s, u, o, p)
        PROVE  MemberInv'
    <2>1. ProjectCreated(p) \in AuditRecords /\ Idle \in Continuations
      BY DEF ProjectCreated, Record, AuditRecords, Continuations
    <2>2. GoesOnPlainly(s)
      BY <1>1, <2>1, PlainRequests DEF CreateProject
    <2>3. projects' \in [Projects -> Orgs \cup {NoOrg, Gone}]
          /\ UNCHANGED <<users, orgs, members, memberIDs, grants, free, removed>>
      BY <1>0, <1>1 DEF CreateProject, InsertProject, TablesOK
    <2>4. QED
      BY <1>0, <2>2, <2>3, PlainMove DEF TablesOK
  <1>2. ASSUME NEW u, NEW o \in Orgs, NEW p \in Projects, DeleteProject(s, u, o, p)
        PROVE  MemberInv'
    <2>1. ProjectDeleted(p) \in AuditRecords /\ Idle \in Continuations
      BY DEF ProjectDeleted, Record, AuditRecords, Continuations
    <2>2. GoesOnPlainly(s)
      BY <1>2, <2>1, PlainRequests DEF DeleteProject
    <2>3. /\ projects' \in [Projects -> Orgs \cup {NoOrg, Gone}] /\ grants' \subseteq grants
          /\ UNCHANGED <<users, orgs, members, memberIDs, free, removed>>
      BY <1>0, <1>2 DEF DeleteProject, DeleteProjectRow, TablesOK
    <2>4. QED
      BY <1>0, <2>2, <2>3, PlainMove DEF TablesOK
  <1>3. QED
    BY <1>1, <1>2 DEF ProjectRequest

\* orgbus.AddMember with what follows it
LEMMA AddMemberOK ==
  ASSUME MemberInv, NEW s \in Requests, NEW o \in Orgs, NEW u \in Users,
         NEW role \in MembershipRoles, NEW then \in Continuations,
         AddMember(s, o, u, role, then), UNCHANGED invitationVars
  PROVE  MemberInv'
  <1>0. TablesOK /\ UNCHANGED <<invites, defaultRole>> /\ invites \in [Invites -> InviteRows]
        /\ UNCHANGED <<users, orgs, projects, grants, free, removed>>
    BY DEF MemberInv, TablesOK, invitationVars, AddMember
  <1>1. CASE CanInsertMember(o, u)
    <2>1. memberIDs' = memberIDs + 1 /\ members' = InsertMember(o, u, role)
          /\ Audited(s, UserJoined(memberIDs + 1), then)
      BY <1>1 DEF AddMember
    <2>2. TablesOK' /\ Evolves
      BY <1>0, <1>1, <2>1, InsertsMember
    <2>3. PICK id : id = memberIDs + 1
      OBVIOUS
    <2>4. UserJoined(id) \in AuditRecords
      BY <1>0, <2>3 DEF UserJoined, Record, AuditRecords, TablesOK
    <2>5. GoesOnPlainly(s)
      BY <2>1, <2>3, <2>4, PlainRequests
    <2>6. QED
      BY <1>0, <2>2, <2>5, PlainStep
  <1>2. CASE ~CanInsertMember(o, u)
    <2>1. members' = members /\ UNCHANGED memberIDs /\ (Step(s, then) \/ Step(s, Idle))
      BY <1>2 DEF AddMember, InsertMember
    <2>2. Idle \in Continuations
      BY DEF Continuations
    <2>3. GoesOnPlainly(s)
      BY <2>1, <2>2, PlainRequests
    <2>4. QED
      BY <1>0, <2>1, <2>3, PlainMove DEF TablesOK
  <1>3. QED
    BY <1>1, <1>2

LEMMA JoinOK == ASSUME MemberInv, NEW s \in Requests, Join(s) PROVE MemberInv'
  <1>q. PICK q : q = req[s]
    OBVIOUS
  <1>1. q \in RequestRows /\ q.op = "join" /\ TablesOK
    BY <1>q DEF MemberInv, RequestOK, Join
  <1>2. q.invite \in Invites /\ q.inv \in InviteRows /\ q.inv.state = "pending"
    BY <1>1, RequestFieldsToo
  <1>3. PICK then : then = [op |-> "grant", invite |-> q.invite, user |-> q.inv.email,
                            left |-> q.inv.projects]
    OBVIOUS
  <1>4. AddMember(s, q.inv.org, q.inv.email, q.inv.role, then) /\ UNCHANGED invitationVars
    BY <1>q, <1>3 DEF Join
  <1>5. /\ q.inv.org \in Orgs /\ q.inv.email \in Users
        /\ q.inv.role \in MembershipRoles /\ q.inv.projects \in SUBSET Projects
    BY <1>2 DEF InviteRows, AnyInvites
  <1>6. then \in Continuations
    BY <1>2, <1>3, <1>5 DEF Continuations, GrantRequests
  <1>7. QED
    BY <1>4, <1>5, <1>6, AddMemberOK

LEMMA GrantOK == ASSUME MemberInv, NEW s \in Requests, Grant(s) PROVE MemberInv'
  <1>q. PICK q : q = req[s]
    OBVIOUS
  <1>0. /\ TablesOK /\ q \in RequestRows /\ q.op = "grant"
        /\ UNCHANGED <<users, orgs, members, memberIDs, projects, free, removed, invites, defaultRole>>
    BY <1>q DEF MemberInv, RequestOK, Grant, invitationVars
  <1>1. q \in GrantRequests /\ q.user \in Users /\ q.left \in SUBSET Projects
    <2>1. q \in GrantRequests
      BY <1>0, RequestFieldsToo
    <2>2. QED
      BY <2>1 DEF GrantRequests
  <1>2. PICK p \in q.left :
          /\ grants' = GrantProjectAccess(q.user, p)
          /\ IF CanGrant(q.user, p) THEN Audited(s, ProjectGranted(p), [q EXCEPT !.left = q.left \ {p}])
             ELSE Finish(s)
    BY <1>q DEF Grant
  <1>3. PICK then : then = [q EXCEPT !.left = q.left \ {p}]
    OBVIOUS
  <1>4. p \in Projects /\ ProjectGranted(p) \in AuditRecords /\ then \in Continuations
    BY <1>1, <1>3 DEF ProjectGranted, Record, AuditRecords, Continuations, GrantRequests
  <1>5. GoesOnPlainly(s)
    BY <1>2, <1>3, <1>4, PlainRequests
  <1>6. grants' \subseteq Users \X Projects
    BY <1>0, <1>1, <1>2, <1>4 DEF GrantProjectAccess, TablesOK
  <1>7. QED
    BY <1>0, <1>5, <1>6, PlainMove DEF TablesOK

\* The rest of an invitation's requests
LEMMA InviteRequestOK ==
  ASSUME MemberInv, NEW s \in Requests, InviteRequest(s) PROVE MemberInv'
  <1>0. TablesOK /\ \A i \in Invites : invites[i] \in InviteRows
    BY DEF MemberInv, TablesOK
  <1>1. ASSUME NEW by \in users, NEW o \in Orgs, NEW i \in Invites, NEW e \in Users,
               NEW r \in AskedRoles, NEW ps \in SUBSET Projects,
               CreateInvitation(s, by, o, i, e, r, ps)
        PROVE  MemberInv'
    <2>1. InviteRow(o, e, r, ps, by) \in InviteRows
      BY <1>0, <1>1, TenancyAssumption DEF InviteRow, InviteRows, AnyInvites, TablesOK
    <2>2. invites' \in [Invites -> InviteRows]
      BY <1>0, <1>1, <2>1 DEF CreateInvitation, InsertInvitation, TablesOK
    <2>3. UserInvited(i) \in AuditRecords /\ Idle \in Continuations
      BY DEF UserInvited, Record, AuditRecords, Continuations
    <2>4. GoesOnPlainly(s)
      BY <1>1, <2>3, PlainRequests DEF CreateInvitation
    <2>5. UNCHANGED <<users, orgs, members, memberIDs, projects, grants, free, removed, defaultRole>>
      BY <1>1 DEF CreateInvitation
    <2>6. QED
      BY <1>0, <2>2, <2>4, <2>5, PlainMove DEF TablesOK
  <1>2. ASSUME NEW i \in Invites, AcceptInvitation(s, i) PROVE MemberInv'
    <2>1. PICK r : r = [op |-> "join", invite |-> i, inv |-> invites[i]]
      OBVIOUS
    <2>2. r \in RequestRows /\ r.op = "join"
      BY <1>0, <1>2, <2>1 DEF RequestRows, AcceptInvitation, Pending
    <2>3. req' = [req EXCEPT ![s] = r]
      BY <1>2, <2>1 DEF AcceptInvitation, Start
    <2>4. GoesOnPlainly(s)
      BY <2>2, <2>3 DEF GoesOnPlainly, Plain
    <2>5. UNCHANGED <<users, orgs, members, memberIDs, projects, grants, free, removed, invites, defaultRole>>
      BY <1>2 DEF AcceptInvitation, invitationVars
    <2>6. QED
      BY <1>0, <2>4, <2>5, PlainMove DEF TablesOK
  <1>3. ASSUME NEW u \in users, NEW i \in Invites, RevokeInvitation(s, u, i) PROVE MemberInv'
    <2>1. PICK r : r = [op |-> "revoke", invite |-> i]
      OBVIOUS
    <2>2. r \in RequestRows /\ r.op \in Plain
      BY <2>1 DEF RequestRows, Plain
    <2>3. req' = [req EXCEPT ![s] = r]
      BY <1>3, <2>1 DEF RevokeInvitation, Start
    <2>4. GoesOnPlainly(s)
      BY <2>2, <2>3 DEF GoesOnPlainly
    <2>5. UNCHANGED <<users, orgs, members, memberIDs, projects, grants, free, removed, invites, defaultRole>>
      BY <1>3 DEF RevokeInvitation, invitationVars
    <2>6. QED
      BY <1>0, <2>4, <2>5, PlainMove DEF TablesOK
  <1>4. CASE MarkAccepted(s)
    <2>1. invites' \in [Invites -> InviteRows]
      <3>1. PICK i : i = req[s].invite
        OBVIOUS
      <3>2. ASSUME NEW j \in Invites, invites[j].state = "pending"
            PROVE  [invites[j] EXCEPT !.state = "accepted"] \in InviteRows
        BY <1>0, <3>2 DEF InviteRows, AnyInvites
      <3>3. invites' = IF Pending(i) THEN [invites EXCEPT ![i].state = "accepted"] ELSE invites
        BY <1>4, <3>1 DEF MarkAccepted, SetAccepted
      <3>4. QED
        BY <1>0, <3>2, <3>3 DEF Pending, TablesOK
    <2>2. GoesOnPlainly(s)
      BY <1>4, PlainRequests DEF MarkAccepted
    <2>3. UNCHANGED <<users, orgs, members, memberIDs, projects, grants, free, removed, defaultRole>>
      BY <1>4 DEF MarkAccepted
    <2>4. QED
      BY <1>0, <2>1, <2>2, <2>3, PlainMove DEF TablesOK
  <1>5. CASE DeleteInvitation(s)
    <2>q. PICK i : i = req[s].invite
      OBVIOUS
    <2>0. req[s] \in RequestRows /\ req[s].op = "revoke"
      BY <1>5 DEF MemberInv, RequestOK, DeleteInvitation
    <2>1. i \in Invites
      BY <2>q, <2>0, RequestFieldsToo
    <2>2. invites' \in [Invites -> InviteRows]
      BY <1>0, <1>5, <2>q, <2>1 DEF DeleteInvitation, DropInvitation, TablesOK, InviteRows, AnyInvites
    <2>3. InviteRevoked(i) \in AuditRecords /\ Idle \in Continuations
      BY <2>1 DEF InviteRevoked, Record, AuditRecords, Continuations
    <2>4. GoesOnPlainly(s)
      BY <1>5, <2>q, <2>3, PlainRequests DEF DeleteInvitation
    <2>5. UNCHANGED <<users, orgs, members, memberIDs, projects, grants, free, removed, defaultRole>>
      BY <1>5 DEF DeleteInvitation
    <2>6. QED
      BY <1>0, <2>2, <2>4, <2>5, PlainMove DEF TablesOK
  <1>6. QED
    BY <1>1, <1>2, <1>3, <1>4, <1>5, JoinOK, GrantOK DEF InviteRequest

LEMMA ProvisionOK == ASSUME MemberInv, NEW s \in Requests, Provision(s) PROVE MemberInv'
  <1>q. PICK o, u, role : o = req[s].org /\ u = req[s].user /\ role = DefaultRole(o)
    OBVIOUS
  <1>0. req[s] \in RequestRows /\ req[s].op = "provision" /\ TablesOK
    BY DEF MemberInv, RequestOK, Provision
  <1>1. o \in Orgs /\ u \in Users
    BY <1>q, <1>0, RequestFields
  <1>2. role \in MembershipRoles
    BY <1>q, <1>0, <1>1 DEF DefaultRole, TablesOK
  <1>3. AddMember(s, o, u, role, Idle) /\ UNCHANGED invitationVars
    BY <1>q DEF Provision
  <1>4. Idle \in Continuations
    BY DEF Continuations
  <1>5. QED
    BY <1>1, <1>2, <1>3, <1>4, AddMemberOK

LEMMA EndMembershipOK == ASSUME MemberInv, NEW s \in Requests, EndMembership(s) PROVE MemberInv'
  <1>q. PICK n, id : n = req[s].member /\ id = n.id
    OBVIOUS
  <1>0. /\ TablesOK /\ RequestOK(req[s]) /\ req[s] \in RequestRows /\ req[s].op = "deprovision"
        /\ UNCHANGED <<users, orgs, memberIDs, projects, grants, free, invites, defaultRole>>
    BY DEF MemberInv, RequestOK, EndMembership, RemoveMember, invitationVars
  <1>1. n \in MemberRows /\ CopyOK(n)
    BY <1>q, <1>0, RequestFields DEF RequestOK
  <1>2. removed' = removed \cup {<<n.user, n.org>>} /\ members' = DeleteMember(id)
        /\ (Finish(s) \/ Audited(s, UserRemoved(id), Idle))
    BY <1>q DEF EndMembership, RemoveMember
  <1>3. \A m \in members : m.id = id => <<m.user, m.org>> \in removed'
    BY <1>q, <1>1, <1>2 DEF CopyOK
  <1>4. invites' \in [Invites -> InviteRows] /\ removed \subseteq removed'
    BY <1>0, <1>2 DEF TablesOK
  <1>5. TablesOK' /\ Evolves
    BY <1>0, <1>2, <1>3, <1>4, DeletesMember
  <1>6. id \in Nat
    BY <1>q, <1>1 DEF MemberRows
  <1>7. QED
    BY <1>0, <1>2, <1>5, <1>6, RowRecorded, PlainStep

LEMMA ScimRequestOK == ASSUME MemberInv, NEW s \in Requests, ScimRequest(s) PROVE MemberInv'
  <1>0. TablesOK /\ members \subseteq MemberRows
    BY DEF MemberInv, TablesOK
  <1>1. ASSUME NEW token, NEW u \in Users, ProvisionUser(s, token, u) PROVE MemberInv'
    <2>1. PICK o \in Orgs : Start(s, [op |-> "create_account", org |-> o, user |-> u,
                                      known |-> u \in users])
      BY <1>1 DEF ProvisionUser, OrgFromToken, QueryByHash
    <2>2. PICK known \in BOOLEAN : known = (u \in users)
      BY (u \in users) \in BOOLEAN
    <2>3. PICK r : r = [op |-> "create_account", org |-> o, user |-> u, known |-> known]
      OBVIOUS
    <2>4. r \in RequestRows /\ r.op \in Plain
      BY <2>3 DEF RequestRows, Plain
    <2>5. GoesOnPlainly(s)
      BY <2>1, <2>2, <2>3, <2>4 DEF Start, GoesOnPlainly
    <2>6. UNCHANGED <<users, orgs, members, memberIDs, projects, grants, free, removed, invites, defaultRole>>
      BY <1>1 DEF ProvisionUser, invitationVars
    <2>7. QED
      BY <1>0, <2>5, <2>6, PlainMove DEF TablesOK
  <1>2. ASSUME NEW token, NEW u \in Users, Reactivate(s, token, u) PROVE MemberInv'
    <2>1. PICK o \in Orgs : Start(s, [op |-> "provision", org |-> o, user |-> u])
      BY <1>2 DEF Reactivate, OrgFromToken, QueryByHash
    <2>2. PICK r : r = [op |-> "provision", org |-> o, user |-> u]
      OBVIOUS
    <2>3. r \in RequestRows /\ r.op \in Plain
      BY <2>2 DEF RequestRows, Plain
    <2>4. GoesOnPlainly(s)
      BY <2>1, <2>2, <2>3 DEF Start, GoesOnPlainly
    <2>5. UNCHANGED <<users, orgs, members, memberIDs, projects, grants, free, removed, invites, defaultRole>>
      BY <1>2 DEF Reactivate, invitationVars
    <2>6. QED
      BY <1>0, <2>4, <2>5, PlainMove DEF TablesOK
  <1>3. ASSUME NEW token, NEW u \in Users, Deprovision(s, token, u) PROVE MemberInv'
    <2>1. PICK m \in members : Start(s, [op |-> "deprovision", member |-> m])
      BY <1>3 DEF Deprovision
    <2>2. PICK r : r = [op |-> "deprovision", member |-> m]
      OBVIOUS
    <2>3. CopyOK(m)
      BY <1>0 DEF TablesOK, CopyOK
    <2>4. RequestOK(r) /\ r.op # "insert_org"
      BY <1>0, <2>2, <2>3 DEF RequestRows, RequestOK
    <2>5. req' = [req EXCEPT ![s] = r]
      BY <2>1, <2>2 DEF Start
    <2>6. UNCHANGED <<users, orgs, members, memberIDs, projects, grants, free, removed, invites, defaultRole>>
      BY <1>3 DEF Deprovision, invitationVars
    <2>7. QED
      BY <1>0, <2>4, <2>5, <2>6, Looks DEF TablesOK
  <1>4. CASE CreateLocalUser(s)
    <2>q. PICK q : q = req[s]
      OBVIOUS
    <2>0. q \in RequestRows /\ q.op = "create_account"
      BY <1>4, <2>q DEF MemberInv, RequestOK, CreateLocalUser
    <2>1. q.org \in Orgs /\ q.user \in Users
      BY <2>0, RequestFields
    <2>2. PICK r : r = [op |-> "provision", org |-> q.org, user |-> q.user]
      OBVIOUS
    <2>3. r \in RequestRows /\ r.op \in Plain
      BY <2>1, <2>2 DEF RequestRows, Plain
    <2>4. Step(s, r) \/ Finish(s)
      BY <1>4, <2>q, <2>2 DEF CreateLocalUser
    <2>5. GoesOnPlainly(s)
      BY <2>3, <2>4, PlainRequests DEF GoesOnPlainly, Step
    <2>6. /\ users' \subseteq Users
          /\ UNCHANGED <<orgs, members, memberIDs, projects, grants, free, removed, invites, defaultRole>>
      BY <1>0, <1>4, <2>q, <2>1 DEF CreateLocalUser, TablesOK, invitationVars
    <2>7. TablesOK' /\ Evolves
      BY <1>0, <2>6, SameMembers DEF TablesOK
    <2>8. QED
      BY <2>5, <2>6, <2>7, PlainStep
  <1>5. QED
    BY <1>1, <1>2, <1>3, <1>4, ProvisionOK, EndMembershipOK DEF ScimRequest, SetActive, DeleteScimUser

LEMMA MemberNextOK ==
  MemberInv /\ [InvitationsNext]_<<tenancyVars, invitationVars>> => MemberInv'
  <1> SUFFICES ASSUME MemberInv, [InvitationsNext]_<<tenancyVars, invitationVars>> PROVE MemberInv'
    OBVIOUS
  <1>0. TablesOK
    BY DEF MemberInv
  <1>1. ASSUME UNCHANGED <<orgs, members, memberIDs, projects, grants, free, req, removed>>,
               users' \subseteq Users, invites' \in [Invites -> InviteRows],
               defaultRole' \in [Orgs -> MembershipRoles]
        PROVE  MemberInv'
    <2>1. TablesOK' /\ Evolves
      BY <1>0, <1>1, SameMembers DEF TablesOK
    <2>2. QED
      BY <1>1, <2>1, StaysPut
  <1>2. CASE UNCHANGED <<tenancyVars, invitationVars>>
    BY <1>0, <1>1, <1>2 DEF tenancyVars, invitationVars, TablesOK
  <1>3. ASSUME NEW i \in Invites, Expire(i) PROVE MemberInv'
    <2>1. invites' = [invites EXCEPT ![i].expired = TRUE] /\ UNCHANGED <<tenancyVars, defaultRole>>
      BY <1>3 DEF Expire
    <2>2. [invites[i] EXCEPT !.expired = TRUE] \in InviteRows
      BY <1>0 DEF TablesOK, InviteRows, AnyInvites
    <2>3. invites' \in [Invites -> InviteRows]
      BY <1>0, <2>1, <2>2 DEF TablesOK
    <2>4. QED
      BY <1>0, <1>1, <2>1, <2>3 DEF tenancyVars, TablesOK
  <1>4. ASSUME NEW u, NEW o \in Orgs, IssueSCIMToken(u, o) \/ RevokeSCIMToken(u, o) PROVE MemberInv'
    BY <1>0, <1>1, <1>4 DEF IssueSCIMToken, RevokeSCIMToken, tenancyVars, TablesOK
  <1>5. ASSUME NEW u, NEW o \in Orgs, NEW role \in AskedRoles, SetDefaultRole(u, o, role)
        PROVE  MemberInv'
    <2>1. role \in MembershipRoles
      BY TenancyAssumption
    <2>2. QED
      BY <1>0, <1>1, <1>5, <2>1 DEF SetDefaultRole, tenancyVars, TablesOK
  <1>6. ASSUME NEW u \in Users, Register(u) PROVE MemberInv'
    BY <1>0, <1>1, <1>6 DEF Register, invitationVars, TablesOK
  <1>7. ASSUME NEW u \in Users, DeleteUser(u) PROVE MemberInv'
    <2>1. DropUser(u) /\ UNCHANGED invitationVars /\ UNCHANGED <<req, free>>
      BY <1>7 DEF DeleteUser, DropUser
    <2>2. TablesOK' /\ Evolves /\ \A o \in Orgs : orgs'[o].state = orgs[o].state
      BY <1>0, <2>1, DropsUser
    <2>3. QED
      BY <2>1, <2>2, StaysPut
  <1>8. QED
    BY <1>2, <1>3, <1>4, <1>5, <1>6, <1>7, OrgRequestOK, ProjectRequestOK, InviteRequestOK,
       ScimRequestOK DEF InvitationsNext

\* The owner of an organization, once its creator is a member, stays an administrator of it
\* until the identity provider ends that membership: whatever role changes, removals,
\* invitations, provisioning and deletions of accounts interleave (guardMemberChange reads
\* the row, then the organization, and the change follows by the id of the row).
THEOREM OwnersAdminister == InvitationsSpec => []OwnerStaysAdmin
  <1>1. MemberInv => OwnerStaysAdmin
    BY DEF MemberInv, OwnerStaysAdmin, OwnerAdministers
  <1>2. QED
    BY <1>1, MemberInitOK, MemberNextOK, PTL DEF InvitationsSpec

(***************************************************************************)
(* Invitations and what they grant.                                        *)
(***************************************************************************)

\* The grant of project p to account u is written, and nothing that is still there lost it.
Granted(u, p) ==
    /\ projects[p] # NoOrg
    /\ u \in users \/ <<u, NoOrg>> \in removed
    /\ u \in users /\ Exists(p) => <<u, p>> \in grants

\* A request that writes the grants of an invitation has written those it has not left.
GrantsSoFar(g) ==
    /\ invites[g.invite].state # "new" /\ g.user = invites[g.invite].email
    /\ \A p \in invites[g.invite].projects \ g.left : Granted(g.user, p)

\* The row a request joins from is the row of its invitation.
JoinsFrom(r) ==
    /\ invites[r.invite].state # "new"
    /\ r.inv.email = invites[r.invite].email /\ r.inv.projects = invites[r.invite].projects

GrantsOK(r) ==
    /\ r.op = "join" => JoinsFrom(r)
    /\ r.op = "grant" => GrantsSoFar(r)
    /\ r.op = "audit" /\ r.then.op = "grant" => GrantsSoFar(r.then)

\* The inductive invariant.
GrantInv ==
    /\ MemberInv
    /\ \A s \in Requests : GrantsOK(req[s])
    /\ \A i \in Invites : invites[i].state = "accepted" =>
          \A p \in invites[i].projects : Granted(invites[i].email, p)

\* What every step leaves of grants and invitations.
GrantsEvolve == \A u \in Users, p \in Projects : Granted(u, p) => Granted(u, p)'

InvitesEvolve == \A i \in Invites : invites[i].state # "new" =>
    /\ invites'[i].state # "new" /\ invites'[i].email = invites[i].email
    /\ invites'[i].projects = invites[i].projects

LEMMA GrantInitOK == InvitationsInit => GrantInv
  <1> SUFFICES ASSUME InvitationsInit PROVE GrantInv
    OBVIOUS
  <1>1. \A s \in Requests : req[s] = Idle
    BY DEF InvitationsInit, TenancyInit
  <1>2. GrantsOK(Idle)
    BY DEF GrantsOK, Idle
  <1>3. \A i \in Invites : invites[i].state = "new"
    BY DEF InvitationsInit, NoInvite
  <1>4. QED
    BY <1>1, <1>2, <1>3, MemberInitOK DEF GrantInv

\* Grants last while the account and the project do: an account deleted is another account
\* when it comes back, and the id of a project is used once.
LEMMA GrantsLast ==
  ASSUME removed \subseteq removed',
         \A u \in users : u \in users' \/ <<u, NoOrg>> \in removed',
         \A u \in users' : u \in users \/ <<u, NoOrg>> \notin removed,
         \A p \in Projects : projects[p] # NoOrg =>
            projects'[p] # NoOrg /\ (Exists(p)' => Exists(p)),
         \A u \in users', p \in Projects : <<u, p>> \in grants /\ Exists(p)' => <<u, p>> \in grants'
  PROVE  GrantsEvolve
  BY DEF GrantsEvolve, Granted

LEMMA GrantsCarried ==
  ASSUME TablesOK, GrantsEvolve, InvitesEvolve, NEW r \in RequestRows, GrantsOK(r)
  PROVE  GrantsOK(r)'
  <1>0. \A i \in Invites : invites[i] \in InviteRows
    BY DEF TablesOK
  <1>1. ASSUME NEW g \in GrantRequests, GrantsSoFar(g) PROVE GrantsSoFar(g)'
    <2>1. g.invite \in Invites /\ g.user \in Users
      BY DEF GrantRequests
    <2>2. invites[g.invite].projects \subseteq Projects
      BY <1>0, <2>1 DEF InviteRows, AnyInvites
    <2>3. \A p \in invites[g.invite].projects \ g.left : Granted(g.user, p)'
      BY <1>1, <2>1, <2>2 DEF GrantsSoFar, GrantsEvolve
    <2>4. QED
      BY <1>1, <2>1, <2>3 DEF GrantsSoFar, InvitesEvolve
  <1>2. ASSUME r.op = "join" PROVE JoinsFrom(r)'
    <2>1. r.invite \in Invites /\ JoinsFrom(r)
      BY <1>2, RequestFieldsToo DEF GrantsOK
    <2>2. QED
      BY <2>1 DEF JoinsFrom, InvitesEvolve
  <1>3. r.op = "grant" => r \in GrantRequests
    BY RequestFieldsToo
  <1>4. r.op = "audit" /\ r.then.op = "grant" => r.then \in GrantRequests
    <2>1. r.op = "audit" => r.then \in Continuations
      BY RequestFieldsToo
    <2>2. QED
      BY <2>1 DEF Continuations, Idle
  <1>5. QED
    BY <1>1, <1>2, <1>3, <1>4 DEF GrantsOK

LEMMA GrantsStepped ==
  ASSUME GrantInv, MemberInv', GrantsEvolve, InvitesEvolve, NEW s \in Requests, NEW r,
         req' = [req EXCEPT ![s] = r], GrantsOK(r)',
         \A i \in Invites : invites'[i].state = "accepted" /\ invites[i].state # "accepted" =>
            \A p \in invites'[i].projects : Granted(invites[i].email, p)'
  PROVE  GrantInv'
  <1>0. /\ TablesOK /\ \A t \in Requests : req[t] \in RequestRows /\ GrantsOK(req[t])
        /\ \A i \in Invites : invites[i] \in InviteRows
    BY DEF GrantInv, MemberInv, RequestOK, TablesOK
  <1>1. req'[s] = r /\ \A t \in Requests \ {s} : req'[t] = req[t]
    BY DEF GrantInv, MemberInv
  <1>2. ASSUME NEW t \in Requests, NEW q, q = req'[t] PROVE GrantsOK(q)'
    <2>1. CASE t = s
      BY <1>1, <1>2, <2>1
    <2>2. CASE t # s
      BY <1>0, <1>1, <1>2, <2>2, GrantsCarried
    <2>3. QED
      BY <2>1, <2>2
  <1>3. ASSUME NEW t \in Requests PROVE GrantsOK(req[t])'
    <2>1. PICK q : q = req'[t]
      OBVIOUS
    <2>2. GrantsOK(q)'
      BY <1>2, <2>1
    <2>3. QED
      BY <2>1, <2>2 DEF GrantsOK, JoinsFrom, GrantsSoFar
  <1>4. ASSUME NEW i \in Invites, invites'[i].state = "accepted", NEW p \in invites'[i].projects
        PROVE  Granted(invites[i].email, p)'
    <2>1. CASE invites[i].state = "accepted"
      <3>1. /\ invites[i].email \in Users /\ invites[i].projects \subseteq Projects
            /\ invites'[i].email = invites[i].email /\ invites'[i].projects = invites[i].projects
        BY <1>0, <2>1 DEF InviteRows, AnyInvites, InvitesEvolve
      <3>2. PICK e : e = invites[i].email
        OBVIOUS
      <3>3. Granted(e, p)
        BY <1>4, <2>1, <3>1, <3>2 DEF GrantInv
      <3>4. Granted(e, p)'
        BY <1>4, <3>1, <3>2, <3>3 DEF GrantsEvolve
      <3>5. QED
        BY <3>1, <3>2, <3>4 DEF Granted, Exists
    <2>2. QED
      BY <1>4, <2>1
  <1>5. QED
    BY <1>3, <1>4 DEF GrantInv

\* Requests that write no grants of an invitation.
GoesOnFreely(s) == \E r :
    /\ req' = [req EXCEPT ![s] = r]
    /\ r.op \notin {"join", "grant"} /\ (r.op = "audit" => r.then.op # "grant")

LEMMA FreeRequests ==
  ASSUME NEW s \in Requests
  PROVE  /\ Finish(s) => GoesOnFreely(s)
         /\ \A rec : Audited(s, rec, Idle) => GoesOnFreely(s)
         /\ \A r : r.op \notin {"join", "grant", "audit"} /\ (Start(s, r) \/ Step(s, r)) =>
               GoesOnFreely(s)
  <1>1. \A r : r.op \notin {"join", "grant", "audit"} /\ (Start(s, r) \/ Step(s, r)) =>
            GoesOnFreely(s)
    BY DEF Start, Step, GoesOnFreely
  <1>2. Finish(s) => GoesOnFreely(s)
    BY <1>1 DEF Finish, Idle
  <1>3. ASSUME NEW rec, Audited(s, rec, Idle) PROVE GoesOnFreely(s)
    <2>1. PICK r : r = [op |-> "audit", rec |-> rec, then |-> Idle]
      OBVIOUS
    <2>2. req' = [req EXCEPT ![s] = r] /\ r.op = "audit" /\ r.then.op = "idle"
      BY <1>3, <2>1 DEF Audited, Step, Idle
    <2>3. QED
      BY <2>2 DEF GoesOnFreely
  <1>4. QED
    BY <1>1, <1>2, <1>3

LEMMA FreeStep ==
  ASSUME GrantInv, MemberInv', GrantsEvolve, InvitesEvolve, NEW s \in Requests, GoesOnFreely(s),
         \A i \in Invites : invites'[i].state = "accepted" => invites[i].state = "accepted"
  PROVE  GrantInv'
  <1>1. PICK r : /\ req' = [req EXCEPT ![s] = r]
                 /\ r.op \notin {"join", "grant"} /\ (r.op = "audit" => r.then.op # "grant")
    BY DEF GoesOnFreely
  <1>2. GrantsOK(r)'
    BY <1>1 DEF GrantsOK
  <1>3. QED
    BY <1>1, <1>2, GrantsStepped

\* Every request of orgapp but the record of a change
LEMMA OrgRequestsFree ==
  ASSUME TablesOK, NEW s \in Requests, req[s] \in RequestRows, OrgRequest(s)
  PROVE  Audit(s) \/ GoesOnFreely(s)
  <1>1. ASSUME NEW u, NEW o, CreateOrg(s, u, o) \/ LoadOrg(s, u, o) PROVE GoesOnFreely(s)
    BY <1>1, FreeRequests DEF CreateOrg, LoadOrg
  <1>2. ASSUME NEW u, NEW o, NEW force, ConfirmDelete(s, u, o, force) PROVE GoesOnFreely(s)
    BY <1>2, FreeRequests DEF ConfirmDelete
  <1>3. CASE InsertOrg(s)
    <2>1. PICK r : r = [req[s] EXCEPT !.op = "seed_admin"]
      OBVIOUS
    <2>2. r.op = "seed_admin"
      BY <1>3, <2>1 DEF RequestRows, Continuations, GrantRequests, Idle, InsertOrg
    <2>3. Step(s, r) \/ Finish(s)
      BY <1>3, <2>1 DEF InsertOrg
    <2>4. QED
      BY <2>2, <2>3, FreeRequests
  <1>4. CASE SeedAdmin(s)
    <2>1. PICK r : r = [req[s] EXCEPT !.op = "seed_plan"]
      OBVIOUS
    <2>2. r.op = "seed_plan"
      BY <1>4, <2>1 DEF RequestRows, Continuations, GrantRequests, Idle, SeedAdmin
    <2>3. Step(s, r) \/ Finish(s)
      BY <1>4, <2>1 DEF SeedAdmin
    <2>4. QED
      BY <2>2, <2>3, FreeRequests
  <1>5. CASE SeedPlan(s) \/ DeleteOrg(s)
    BY <1>5, FreeRequests DEF SeedPlan, DeleteOrg
  <1>6. ASSUME NEW change, UpdateOrg(s, change) PROVE GoesOnFreely(s)
    BY <1>6, FreeRequests DEF UpdateOrg
  <1>7. ASSUME NEW u, NEW m, NEW op, NEW role, LoadOrgMember(s, u, m, op, role)
        PROVE  GoesOnFreely(s)
    BY <1>7, FreeRequests DEF LoadOrgMember
  <1>8. CASE GuardMemberChange(s)
    <2>1. PICK r : r = [op |-> req[s].then, id |-> req[s].member.id, role |-> req[s].role]
      OBVIOUS
    <2>2. req[s].then \in {"update_role", "remove_member"}
      BY <1>8, RequestFieldsToo DEF GuardMemberChange
    <2>3. Step(s, r) \/ Finish(s)
      BY <1>8, <2>1 DEF GuardMemberChange
    <2>4. QED
      BY <2>1, <2>2, <2>3, FreeRequests
  <1>9. CASE UpdateRole(s) \/ RemoveOrgMember(s)
    BY <1>9, FreeRequests DEF UpdateRole, RemoveOrgMember, UpdateMemberRole, RemoveMember
  <1>10. CASE Abandon(s)
    BY <1>10, FreeRequests DEF Abandon
  <1>11. QED
    BY <1>1, <1>2, <1>3, <1>4, <1>5, <1>6, <1>7, <1>8, <1>9, <1>10 DEF OrgRequest

\* Deleting an organization ends its projects; nothing else of orgapp reaches a grant.
LEMMA OrgRequestsKeepGrants ==
  ASSUME TablesOK, NEW s \in Requests, OrgRequest(s) PROVE GrantsEvolve
  <1>1. UNCHANGED <<users, removed>>
    BY DEF OrgRequest, CreateOrg, LoadOrg, ConfirmDelete, InsertOrg, SeedAdmin, SeedPlan, DeleteOrg,
           UpdateOrg, LoadOrgMember, GuardMemberChange, UpdateRole, UpdateMemberRole,
           RemoveOrgMember, RemoveMember, Audit, Abandon
  <1>2. CASE DeleteOrg(s)
    <2>o. PICK o : o = req[s].org
      OBVIOUS
    <2>1. /\ projects' = [p \in Projects |-> IF projects[p] = o THEN Gone ELSE projects[p]]
          /\ grants' = {g \in grants : projects[g[2]] # o \/ g[2] \notin Projects}
      BY <1>2, <2>o DEF DeleteOrg
    <2>2. Gone # NoOrg /\ Gone \notin Orgs
      BY TenancyAssumption DEF Gone, NoOrg
    <2>3. \A p \in Projects : projects[p] # NoOrg => projects'[p] # NoOrg /\ (Exists(p)' => Exists(p))
      BY <2>1, <2>2 DEF Exists
    <2>4. \A u, p : <<u, p>> \in grants /\ p \in Projects /\ Exists(p)' => <<u, p>> \in grants'
      BY <2>1, <2>2 DEF Exists
    <2>5. QED
      BY <1>1, <2>3, <2>4, GrantsLast
  <1>3. CASE UNCHANGED <<projects, grants>>
    <2>1. \A p \in Projects : Exists(p)' = Exists(p) /\ projects'[p] = projects[p]
      BY <1>3 DEF Exists
    <2>2. QED
      BY <1>1, <1>3, <2>1, GrantsLast
  <1>4. QED
    BY <1>2, <1>3 DEF OrgRequest, CreateOrg, LoadOrg, ConfirmDelete, InsertOrg, SeedAdmin, SeedPlan,
           UpdateOrg, LoadOrgMember, GuardMemberChange, UpdateRole, UpdateMemberRole,
           RemoveOrgMember, RemoveMember, Audit, Abandon

LEMMA CascadeKeepsInvites ==
  ASSUME TablesOK, CascadeOrg
  PROVE  /\ InvitesEvolve
         /\ \A i \in Invites : invites'[i].state = "accepted" => invites[i].state = "accepted"
  <1>1. ASSUME NEW i \in Invites
        PROVE  invites'[i] = invites[i] \/ invites'[i] = [invites[i] EXCEPT !.state = "deleted"]
    BY DEF CascadeOrg
  <1>2. \A i \in Invites : invites[i] \in AnyInvites
    BY DEF TablesOK, InviteRows
  <1>3. QED
    BY <1>1, <1>2 DEF InvitesEvolve, AnyInvites

LEMMA OrgRequestKeepsGrantInv ==
  ASSUME GrantInv, MemberInv', NEW s \in Requests, OrgRequest(s), CascadeOrg PROVE GrantInv'
  <1>0. TablesOK /\ req[s] \in RequestRows /\ GrantsOK(req[s])
    BY DEF GrantInv, MemberInv, RequestOK
  <1>1. /\ GrantsEvolve /\ InvitesEvolve
        /\ \A i \in Invites : invites'[i].state = "accepted" => invites[i].state = "accepted"
    BY <1>0, OrgRequestsKeepGrants, CascadeKeepsInvites
  <1>2. CASE GoesOnFreely(s)
    BY <1>1, <1>2, FreeStep
  <1>3. CASE Audit(s)
    <2>1. PICK q, r : q = req[s] /\ r = q.then
      OBVIOUS
    <2>2. q.op = "audit" /\ req' = [req EXCEPT ![s] = r]
      BY <1>3, <2>1 DEF Audit, Step
    <2>3. q \in RequestRows /\ GrantsOK(q)
      BY <1>0, <2>1
    <2>4. GrantsOK(q)'
      BY <1>0, <1>1, <2>3, GrantsCarried
    <2>5. r \in Continuations
      BY <2>1, <2>2, <2>3, RequestFieldsToo
    <2>6. r.op \in {"idle", "grant"}
      BY <2>5 DEF Continuations, GrantRequests, Idle
    <2>7. GrantsOK(r)'
      BY <2>1, <2>2, <2>4, <2>6 DEF GrantsOK
    <2>8. QED
      BY <1>1, <2>2, <2>7, GrantsStepped
  <1>4. QED
    BY <1>0, <1>2, <1>3, OrgRequestsFree

LEMMA ProjectRequestKeepsGrantInv ==
  ASSUME GrantInv, MemberInv', NEW s \in Requests, ProjectRequest(s), UNCHANGED invitationVars
  PROVE  GrantInv'
  <1>0. TablesOK /\ invites' = invites
    BY DEF GrantInv, MemberInv, invitationVars
  <1>1. InvitesEvolve
    BY <1>0 DEF InvitesEvolve
  <1>2. ASSUME NEW u, NEW o \in Orgs, NEW p \in Projects, CreateProject(s, u, o, p)
        PROVE  GrantInv'
    <2>1. /\ GoesOnFreely(s) /\ projects[p] = NoOrg /\ projects' = [projects EXCEPT ![p] = o]
          /\ UNCHANGED <<users, grants, removed>>
      BY <1>2, FreeRequests DEF CreateProject, InsertProject
    <2>2. \A q \in Projects : projects[q] # NoOrg => projects'[q] = projects[q]
      BY <1>0, <2>1 DEF TablesOK
    <2>3. \A q \in Projects : projects[q] # NoOrg => projects'[q] # NoOrg /\ (Exists(q)' => Exists(q))
      BY <2>2 DEF Exists
    <2>4. GrantsEvolve
      BY <2>1, <2>3, GrantsLast
    <2>5. QED
      BY <1>0, <1>1, <2>1, <2>4, FreeStep
  <1>3. ASSUME NEW u, NEW o \in Orgs, NEW p \in Projects, DeleteProject(s, u, o, p)
        PROVE  GrantInv'
    <2>1. /\ GoesOnFreely(s) /\ projects' = [projects EXCEPT ![p] = Gone]
          /\ grants' = {g \in grants : g[2] # p} /\ UNCHANGED <<users, removed>>
      BY <1>3, FreeRequests DEF DeleteProject, DeleteProjectRow
    <2>2. Gone # NoOrg /\ Gone \notin Orgs
      BY TenancyAssumption DEF Gone, NoOrg
    <2>3. projects'[p] = Gone /\ \A q \in Projects : q # p => projects'[q] = projects[q]
      BY <1>0, <2>1 DEF TablesOK
    <2>4. \A q \in Projects : projects[q] # NoOrg => projects'[q] # NoOrg /\ (Exists(q)' => Exists(q))
      BY <2>2, <2>3 DEF Exists
    <2>5. \A v, q : <<v, q>> \in grants /\ Exists(q)' => <<v, q>> \in grants'
      BY <2>1, <2>2, <2>3 DEF Exists
    <2>6. GrantsEvolve
      BY <2>1, <2>4, <2>5, GrantsLast
    <2>7. QED
      BY <1>0, <1>1, <2>1, <2>6, FreeStep
  <1>4. QED
    BY <1>2, <1>3 DEF ProjectRequest

\* Steps that leave accounts, projects and grants alone
LEMMA NoGrantsTouched ==
  ASSUME UNCHANGED <<users, projects, grants, removed>> PROVE GrantsEvolve
  BY GrantsLast DEF Exists

LEMMA JoinKeepsGrantInv ==
  ASSUME GrantInv, MemberInv', NEW s \in Requests, Join(s) PROVE GrantInv'
  <1>q. PICK q, then : q = req[s] /\ then = [op |-> "grant", invite |-> q.invite,
                                            user |-> q.inv.email, left |-> q.inv.projects]
    OBVIOUS
  <1>0. /\ q \in RequestRows /\ q.op = "join" /\ GrantsOK(q) /\ invites' = invites
        /\ AddMember(s, q.inv.org, q.inv.email, q.inv.role, then)
    BY <1>q DEF GrantInv, MemberInv, RequestOK, Join, invitationVars
  <1>1. GrantsEvolve /\ InvitesEvolve
    BY <1>0, NoGrantsTouched DEF AddMember, InvitesEvolve
  <1>2. JoinsFrom(q)
    BY <1>0 DEF GrantsOK
  <1>3. GrantsSoFar(then)'
    BY <1>0, <1>2, <1>q DEF GrantsSoFar, JoinsFrom
  <1>4. \/ \E rec : Audited(s, rec, then)
        \/ Step(s, then)
        \/ Finish(s)
    BY <1>0 DEF AddMember, Finish
  <1>5. ASSUME NEW rec, Audited(s, rec, then) PROVE GrantInv'
    <2>1. PICK r : r = [op |-> "audit", rec |-> rec, then |-> then]
      OBVIOUS
    <2>2. GrantsOK(r)' /\ req' = [req EXCEPT ![s] = r]
      BY <1>3, <1>5, <2>1 DEF GrantsOK, Audited, Step
    <2>3. QED
      BY <1>0, <1>1, <2>2, GrantsStepped
  <1>6. CASE Step(s, then)
    <2>1. GrantsOK(then)' /\ req' = [req EXCEPT ![s] = then]
      BY <1>3, <1>6, <1>q DEF GrantsOK, Step
    <2>2. QED
      BY <1>0, <1>1, <2>1, GrantsStepped
  <1>7. CASE Finish(s)
    BY <1>0, <1>1, <1>7, FreeRequests, FreeStep
  <1>8. QED
    BY <1>4, <1>5, <1>6, <1>7

LEMMA GrantKeepsGrantInv ==
  ASSUME GrantInv, MemberInv', NEW s \in Requests, Grant(s) PROVE GrantInv'
  <1>q. PICK q : q = req[s]
    OBVIOUS
  <1>0. /\ TablesOK /\ q \in RequestRows /\ q.op = "grant" /\ GrantsOK(q) /\ invites' = invites
        /\ UNCHANGED <<users, projects, removed>>
    BY <1>q DEF GrantInv, MemberInv, RequestOK, Grant, invitationVars
  <1>1. /\ q \in GrantRequests /\ q.user \in Users /\ q.left \in SUBSET Projects /\ q.invite \in Invites
        /\ GrantsSoFar(q)
    <2>1. q \in GrantRequests
      BY <1>0, RequestFieldsToo
    <2>2. QED
      BY <1>0, <2>1 DEF GrantRequests, GrantsOK
  <1>2. PICK p \in q.left :
          /\ grants' = GrantProjectAccess(q.user, p)
          /\ IF CanGrant(q.user, p) THEN Audited(s, ProjectGranted(p), [q EXCEPT !.left = q.left \ {p}])
             ELSE Finish(s)
    BY <1>q DEF Grant
  <1>3. GrantsEvolve /\ InvitesEvolve
    <2>1. grants \subseteq grants'
      BY <1>2 DEF GrantProjectAccess
    <2>2. QED
      BY <1>0, <2>1, GrantsLast DEF Exists, InvitesEvolve
  <1>4. CASE CanGrant(q.user, p)
    <2>1. PICK then : then = [q EXCEPT !.left = q.left \ {p}]
      OBVIOUS
    <2>2. PICK r : r = [op |-> "audit", rec |-> ProjectGranted(p), then |-> then]
      OBVIOUS
    <2>3. /\ then.op = "grant" /\ then.invite = q.invite /\ then.user = q.user
          /\ then.left = q.left \ {p} /\ then \in GrantRequests
      BY <1>1, <2>1 DEF GrantRequests
    <2>4. p \in Projects /\ Granted(q.user, p)'
      <3>1. p \in Projects /\ q.user \in users /\ projects[p] \in Orgs /\ <<q.user, p>> \in grants'
        BY <1>1, <1>2, <1>4 DEF CanGrant, Exists, GrantProjectAccess
      <3>2. projects[p] # NoOrg
        BY <3>1, TenancyAssumption
      <3>3. QED
        BY <1>0, <3>1, <3>2 DEF Granted
    <2>5. GrantsSoFar(q)'
      <3>1. GrantsOK(q)'
        BY <1>0, <1>3, GrantsCarried
      <3>2. QED
        BY <1>0, <3>1 DEF GrantsOK
    <2>6. GrantsSoFar(then)'
      BY <2>3, <2>4, <2>5 DEF GrantsSoFar
    <2>7. GrantsOK(r)' /\ req' = [req EXCEPT ![s] = r]
      BY <1>2, <1>4, <2>1, <2>2, <2>6 DEF GrantsOK, Audited, Step
    <2>8. QED
      BY <1>0, <1>3, <2>7, GrantsStepped
  <1>5. CASE ~CanGrant(q.user, p)
    BY <1>0, <1>2, <1>3, <1>5, FreeRequests, FreeStep
  <1>6. QED
    BY <1>4, <1>5

\* The invitation is marked when no project is left to grant.
LEMMA MarkAcceptedKeepsGrantInv ==
  ASSUME GrantInv, MemberInv', NEW s \in Requests, MarkAccepted(s) PROVE GrantInv'
  <1>q. PICK q, i : q = req[s] /\ i = q.invite
    OBVIOUS
  <1>0. /\ TablesOK /\ q \in RequestRows /\ q.op = "grant" /\ GrantsOK(q) /\ q.left = {}
        /\ UNCHANGED <<users, projects, grants, removed>> /\ Finish(s)
        /\ invites' = IF Pending(i) THEN [invites EXCEPT ![i].state = "accepted"] ELSE invites
    BY <1>q DEF GrantInv, MemberInv, RequestOK, MarkAccepted, AllGranted, SetAccepted
  <1>1. q \in GrantRequests /\ GrantsSoFar(q) /\ i \in Invites
    <2>1. q \in GrantRequests
      BY <1>0, RequestFieldsToo
    <2>2. QED
      BY <1>0, <1>q, <2>1 DEF GrantRequests, GrantsOK
  <1>2. \A j \in Invites : invites[j] \in AnyInvites
    BY <1>0 DEF TablesOK, InviteRows
  <1>3. \A j \in Invites : /\ invites'[j].email = invites[j].email
                           /\ invites'[j].projects = invites[j].projects
                           /\ invites'[j].state = invites[j].state \/ (j = i /\ invites'[j].state = "accepted" /\ invites[j].state = "pending")
    BY <1>0, <1>1, <1>2 DEF TablesOK, AnyInvites, Pending
  <1>4. GrantsEvolve /\ InvitesEvolve
    BY <1>0, <1>3, NoGrantsTouched DEF InvitesEvolve
  <1>5. GrantsOK(Idle)' /\ req' = [req EXCEPT ![s] = Idle]
    BY <1>0 DEF GrantsOK, Idle, Finish, Step
  <1>6. ASSUME NEW j \in Invites, invites'[j].state = "accepted", invites[j].state # "accepted",
               NEW p \in invites'[j].projects
        PROVE  Granted(invites[j].email, p)'
    <2>1. j = i /\ p \in invites[i].projects /\ invites'[i].email = invites[i].email
      BY <1>3, <1>6
    <2>2. PICK e : e = invites[i].email
      OBVIOUS
    <2>3. Granted(e, p)
      BY <1>0, <1>1, <1>q, <2>1, <2>2 DEF GrantsSoFar
    <2>4. Granted(e, p)'
      BY <1>0, <2>3 DEF Granted, Exists
    <2>5. QED
      BY <2>1, <2>2, <2>4 DEF Granted, Exists
  <1>7. PICK r : r = Idle /\ GrantsOK(r)' /\ req' = [req EXCEPT ![s] = r]
    BY <1>5
  <1>8. QED
    BY <1>4, <1>6, <1>7, GrantsStepped

LEMMA InviteRequestKeepsGrantInv ==
  ASSUME GrantInv, MemberInv', NEW s \in Requests, InviteRequest(s) PROVE GrantInv'
  <1>0. TablesOK /\ req[s] \in RequestRows /\ \A i \in Invites : invites[i] \in AnyInvites
    BY DEF GrantInv, MemberInv, RequestOK, TablesOK, InviteRows
  <1>1. ASSUME NEW by, NEW o, NEW i \in Invites, NEW e, NEW r, NEW ps,
               CreateInvitation(s, by, o, i, e, r, ps)
        PROVE  GrantInv'
    <2>1. /\ UNCHANGED <<users, projects, grants, removed>> /\ GoesOnFreely(s)
          /\ invites[i].state = "new" /\ invites' = [invites EXCEPT ![i] = InviteRow(o, e, r, ps, by)]
      BY <1>1, FreeRequests DEF CreateInvitation, InsertInvitation
    <2>2. invites'[i].state = "pending" /\ \A j \in Invites : j # i => invites'[j] = invites[j]
      BY <1>0, <2>1 DEF TablesOK, InviteRow
    <2>3. GrantsEvolve /\ InvitesEvolve
      BY <2>1, <2>2, NoGrantsTouched DEF InvitesEvolve
    <2>4. \A j \in Invites : invites'[j].state = "accepted" => invites[j].state = "accepted"
      BY <2>2
    <2>5. QED
      BY <2>1, <2>3, <2>4, FreeStep
  <1>2. ASSUME NEW i \in Invites, AcceptInvitation(s, i) PROVE GrantInv'
    <2>1. PICK r : r = [op |-> "join", invite |-> i, inv |-> invites[i]]
      OBVIOUS
    <2>2. /\ UNCHANGED <<users, projects, grants, removed, invites>> /\ req' = [req EXCEPT ![s] = r]
          /\ invites[i].state = "pending"
      BY <1>2, <2>1 DEF AcceptInvitation, Start, Pending, invitationVars
    <2>3. GrantsOK(r)'
      BY <2>1, <2>2 DEF GrantsOK, JoinsFrom
    <2>4. GrantsEvolve /\ InvitesEvolve
      BY <2>2, NoGrantsTouched DEF InvitesEvolve
    <2>5. QED
      BY <2>2, <2>3, <2>4, GrantsStepped
  <1>3. ASSUME NEW u, NEW i \in Invites, RevokeInvitation(s, u, i) PROVE GrantInv'
    <2>1. UNCHANGED <<users, projects, grants, removed, invites>> /\ GoesOnFreely(s)
      BY <1>3, FreeRequests DEF RevokeInvitation, invitationVars
    <2>2. GrantsEvolve /\ InvitesEvolve
      BY <2>1, NoGrantsTouched DEF InvitesEvolve
    <2>3. QED
      BY <2>1, <2>2, FreeStep
  <1>4. CASE DeleteInvitation(s)
    <2>q. PICK i : i = req[s].invite
      OBVIOUS
    <2>1. /\ UNCHANGED <<users, projects, grants, removed>> /\ GoesOnFreely(s)
          /\ invites' = [invites EXCEPT ![i].state = "deleted"]
      BY <1>4, <2>q, FreeRequests DEF DeleteInvitation, DropInvitation
    <2>2. \A j \in Invites : /\ invites'[j].email = invites[j].email
                             /\ invites'[j].projects = invites[j].projects
                             /\ invites'[j].state \in {invites[j].state, "deleted"}
      BY <1>0, <2>1 DEF TablesOK, AnyInvites
    <2>3. GrantsEvolve /\ InvitesEvolve
      BY <2>1, <2>2, NoGrantsTouched DEF InvitesEvolve
    <2>4. \A j \in Invites : invites'[j].state = "accepted" => invites[j].state = "accepted"
      BY <2>2
    <2>5. QED
      BY <2>1, <2>3, <2>4, FreeStep
  <1>5. QED
    BY <1>1, <1>2, <1>3, <1>4, JoinKeepsGrantInv, GrantKeepsGrantInv, MarkAcceptedKeepsGrantInv
       DEF InviteRequest

LEMMA ScimRequestKeepsGrantInv ==
  ASSUME GrantInv, MemberInv', NEW s \in Requests, ScimRequest(s) PROVE GrantInv'
  <1>1. /\ invites' = invites /\ InvitesEvolve
        /\ UNCHANGED <<projects, grants>> /\ removed \subseteq removed' /\ users \subseteq users'
        /\ users' = users \/ (removed' = removed /\ \A u \in users' : u \in users \/ <<u, NoOrg>> \notin removed)
    BY DEF ScimRequest, ProvisionUser, SetActive, Reactivate, DeleteScimUser, Deprovision,
           CreateLocalUser, Provision, AddMember, EndMembership, RemoveMember, invitationVars,
           InvitesEvolve
  <1>2. \A u \in users' : u \in users \/ <<u, NoOrg>> \notin removed
    BY <1>1
  <1>3. GrantsEvolve
    BY <1>1, <1>2, GrantsLast DEF Exists
  <1>4. GoesOnFreely(s)
    <2>1. ASSUME NEW token, NEW u, ProvisionUser(s, token, u) PROVE GoesOnFreely(s)
      <3>1. PICK o : Start(s, [op |-> "create_account", org |-> o, user |-> u, known |-> u \in users])
        BY <2>1 DEF ProvisionUser
      <3>2. PICK r : r = [op |-> "create_account", org |-> o, user |-> u, known |-> u \in users]
        OBVIOUS
      <3>3. r.op = "create_account"
        BY <3>2
      <3>4. QED
        BY <3>1, <3>2, <3>3, FreeRequests
    <2>2. ASSUME NEW token, NEW u, Reactivate(s, token, u) \/ Deprovision(s, token, u)
          PROVE  GoesOnFreely(s)
      BY <2>2, FreeRequests DEF Reactivate, Deprovision
    <2>3. CASE CreateLocalUser(s)
      BY <2>3, FreeRequests DEF CreateLocalUser
    <2>4. CASE Provision(s)
      <3>1. Step(s, Idle) \/ \E rec : Audited(s, rec, Idle)
        BY <2>4 DEF Provision, AddMember
      <3>2. QED
        BY <3>1, FreeRequests DEF Finish
    <2>5. CASE EndMembership(s)
      BY <2>5, FreeRequests DEF EndMembership, RemoveMember
    <2>6. QED
      BY <2>1, <2>2, <2>3, <2>4, <2>5 DEF ScimRequest, SetActive, DeleteScimUser
  <1>5. QED
    BY <1>1, <1>3, <1>4, FreeStep

\* A step outside the requests
LEMMA GrantsStayPut ==
  ASSUME GrantInv, MemberInv', GrantsEvolve, InvitesEvolve, req' = req,
         \A i \in Invites : invites'[i].state = "accepted" => invites[i].state = "accepted"
  PROVE  GrantInv'
  <1>0. /\ TablesOK /\ \A t \in Requests : req[t] \in RequestRows /\ GrantsOK(req[t])
        /\ \A i \in Invites : invites[i] \in InviteRows
    BY DEF GrantInv, MemberInv, RequestOK, TablesOK
  <1>1. ASSUME NEW t \in Requests PROVE GrantsOK(req[t])'
    <2>1. PICK q : q = req[t]
      OBVIOUS
    <2>2. GrantsOK(q)'
      BY <1>0, <2>1, GrantsCarried
    <2>3. QED
      BY <2>1, <2>2 DEF GrantsOK, JoinsFrom, GrantsSoFar
  <1>2. ASSUME NEW i \in Invites, invites'[i].state = "accepted", NEW p \in invites'[i].projects
        PROVE  Granted(invites[i].email, p)'
    <2>1. invites[i].state = "accepted"
      BY <1>2
    <2>2. /\ invites[i].email \in Users /\ invites[i].projects \subseteq Projects
          /\ invites'[i].email = invites[i].email /\ invites'[i].projects = invites[i].projects
      BY <1>0, <2>1 DEF InviteRows, AnyInvites, InvitesEvolve
    <2>3. PICK e : e = invites[i].email
      OBVIOUS
    <2>4. Granted(e, p)
      BY <1>2, <2>1, <2>2, <2>3 DEF GrantInv
    <2>5. Granted(e, p)'
      BY <1>2, <2>2, <2>3, <2>4 DEF GrantsEvolve
    <2>6. QED
      BY <2>2, <2>3, <2>5 DEF Granted, Exists
  <1>3. QED
    BY <1>1, <1>2 DEF GrantInv

LEMMA GrantNextOK ==
  GrantInv /\ [InvitationsNext]_<<tenancyVars, invitationVars>> => GrantInv'
  <1> SUFFICES ASSUME GrantInv, [InvitationsNext]_<<tenancyVars, invitationVars>> PROVE GrantInv'
    OBVIOUS
  <1>0. TablesOK /\ MemberInv' /\ \A i \in Invites : invites[i] \in AnyInvites
    BY MemberNextOK DEF GrantInv, MemberInv, TablesOK, InviteRows
  <1>1. ASSUME UNCHANGED <<users, projects, grants, removed, req, invites>> PROVE GrantInv'
    BY <1>0, <1>1, NoGrantsTouched, GrantsStayPut DEF InvitesEvolve
  <1>2. CASE UNCHANGED <<tenancyVars, invitationVars>>
    BY <1>1, <1>2 DEF tenancyVars, invitationVars
  <1>3. ASSUME NEW i \in Invites, Expire(i) PROVE GrantInv'
    <2>1. invites' = [invites EXCEPT ![i].expired = TRUE]
          /\ UNCHANGED <<users, projects, grants, removed, req>>
      BY <1>3 DEF Expire, tenancyVars
    <2>2. \A j \in Invites : /\ invites'[j].email = invites[j].email
                             /\ invites'[j].projects = invites[j].projects
                             /\ invites'[j].state = invites[j].state
      BY <1>0, <2>1 DEF TablesOK, AnyInvites
    <2>3. QED
      BY <1>0, <2>1, <2>2, NoGrantsTouched, GrantsStayPut DEF InvitesEvolve
  <1>4. ASSUME NEW u, NEW o, IssueSCIMToken(u, o) \/ RevokeSCIMToken(u, o) PROVE GrantInv'
    BY <1>1, <1>4 DEF IssueSCIMToken, RevokeSCIMToken, tenancyVars
  <1>5. ASSUME NEW u, NEW o, NEW role, SetDefaultRole(u, o, role) PROVE GrantInv'
    BY <1>1, <1>5 DEF SetDefaultRole, tenancyVars
  <1>6. ASSUME NEW u, Register(u) PROVE GrantInv'
    <2>1. /\ users' = users \cup {u} /\ <<u, NoOrg>> \notin removed
          /\ UNCHANGED <<projects, grants, removed, req, invites>>
      BY <1>6 DEF Register, invitationVars
    <2>2. GrantsEvolve /\ InvitesEvolve
      BY <2>1, GrantsLast DEF Exists, InvitesEvolve
    <2>3. QED
      BY <1>0, <2>1, <2>2, GrantsStayPut
  <1>7. ASSUME NEW u, DeleteUser(u) PROVE GrantInv'
    <2>1. /\ users' = users \ {u} /\ removed' = removed \cup {<<u, NoOrg>>}
          /\ grants' = {g \in grants : g[1] # u} /\ UNCHANGED <<projects, req, invites>>
      BY <1>7 DEF DeleteUser, DropUser, invitationVars
    <2>2. GrantsEvolve /\ InvitesEvolve
      BY <2>1, GrantsLast DEF Exists, InvitesEvolve
    <2>3. QED
      BY <1>0, <2>1, <2>2, GrantsStayPut
  <1>8. QED
    BY <1>0, <1>2, <1>3, <1>4, <1>5, <1>6, <1>7, OrgRequestKeepsGrantInv,
       ProjectRequestKeepsGrantInv, InviteRequestKeepsGrantInv, ScimRequestKeepsGrantInv
       DEF InvitationsNext

\* An invitation is marked accepted after the last of its grants, and no interleaving of
\* requests, revocations, deletions and provisioning makes that untrue: what it granted is
\* there as long as the account and the project are (invitationbus.Accept).
THEOREM AcceptedInvitationsAreComplete == InvitationsSpec => []AcceptedIsComplete
  <1>1. GrantInv => AcceptedIsComplete
    BY DEF GrantInv, AcceptedIsComplete, Granted
  <1>2. QED
    BY <1>1, GrantInitOK, GrantNextOK, PTL DEF InvitationsSpec

\* The list of an organization's projects, the query of one project and the two middlewares
\* never disagree about who sees a project, in any state of the tables.
THEOREM QueriesAgreeOnVisibility == InvitationsSpec => []VisibilityAgrees
  <1>1. VisibilityAgrees
    <2> SUFFICES ASSUME NEW u \in users, NEW o \in Orgs, NEW p \in Projects, projects[p] = o
                 PROVE  /\ HasAccess(u, p) <=> p \in QueryVisibleByOrg(o, u)
                        /\ HasAccess(u, p) <=> p \in QueryAccessible(o, u)
                        /\ HasAccess(u, p) <=> AuthorizeProjectAccess(u, p)
                        /\ AuthorizeProjectManage(u, p, TRUE) <=> AuthorizeProjectAccess(u, p)
                        /\ HasAccess(u, p) <=> p \in ListProjects(o, u, FALSE)
                        /\ HasAccess(u, p) => o \in QueryMine(u) \/ <<u, p>> \in grants
      BY DEF VisibilityAgrees
    <2>1. Exists(p)
      BY DEF Exists
    <2>2. "ORG_ADMIN" \in CallerOrgRole(u, p) => AdminOfProject(u, p)
      BY DEF CallerOrgRole, QueryByUserID, AdminOfProject
    <2>3. HasAccess(u, p) <=> AdminOfProject(u, p) \/ <<u, p>> \in grants
      BY <2>1 DEF HasAccess
    <2>4. AuthorizeProjectAccess(u, p) <=> HasAccess(u, p)
      BY <2>1, <2>2, <2>3 DEF AuthorizeProjectAccess
    <2>5. AuthorizeProjectManage(u, p, TRUE) <=> AuthorizeProjectAccess(u, p)
      BY <2>1 DEF AuthorizeProjectManage, AuthorizeProjectAccess
    <2>6. AdminOfProject(u, p) => o \in QueryMine(u)
      BY DEF AdminOfProject, QueryMine, QueryByUserID
    <2>7. QED
      BY <2>3, <2>4, <2>5, <2>6 DEF QueryVisibleByOrg, QueryAccessible, ListProjects
  <1>2. QED
    BY <1>1, PTL

-----------------------------------------------------------------------------
(* AuditExport: the cursor never passes what it has not delivered.         *)

\* What a batch in hand is good for: every record up to its last key is delivered
\* or in the batch, and once posted the batch is delivered.
ReadCovers ==
    pc # "idle" =>
        \A r \in Records : (state[r] = "stored" /\ ~After(r, last))
                              => (r \in batch \/ r \in delivered \/ r \in late)
PostedBatch == pc = "advance" => batch \subseteq delivered

ExportInv == TypeOK /\ PassedMeansDelivered /\ ReadCovers /\ PostedBatch

\* The initial state satisfies the inductive invariant.
LEMMA InitExport == Init => ExportInv
  BY ConstantsAssumption
  DEF Init, ExportInv, TypeOK, PassedMeansDelivered, ReadCovers, PostedBatch, Key

\* A record and the key it has: nothing is after its own key, and the order on
\* keys is total.
LEMMA KeyOrder ==
    ASSUME TypeOK, NEW r \in Records, NEW b \in Records
    PROVE  /\ KeyOf(b) \in Key
           /\ ~After(b, KeyOf(b))
           /\ After(r, KeyOf(b)) \/ r = b \/ After(b, KeyOf(r))
           /\ ~(After(r, KeyOf(b)) /\ After(b, KeyOf(r)))
  BY ConstantsAssumption DEF TypeOK, KeyOf, After, Key

\* "After" is transitive through a record's key.
LEMMA KeyTransitive ==
    ASSUME TypeOK, NEW a \in Records, NEW b \in Records, NEW c \in Key,
           After(a, KeyOf(b)), After(b, c)
    PROVE  After(a, c)
  BY ConstantsAssumption DEF TypeOK, KeyOf, After, Key

\* A record behind the last key of a batch that was just read was pending and is
\* in the batch, or is behind the cursor already.
LEMMA ReadBatchCovers ==
    ASSUME TypeOK, NEW B \in SUBSET Records, NEW l \in Records, IsFirst(B),
           l \in B, \A b \in B \ {l} : After(l, KeyOf(b)),
           NEW r \in Records, state[r] = "stored", ~After(r, KeyOf(l))
    PROVE  r \in B \/ ~After(r, cursor)
<1>1. SUFFICES ASSUME After(r, cursor), r \notin B PROVE FALSE
  OBVIOUS
<1>2. r \in Unread \ B
  BY <1>1 DEF Unread, Stored
<1>3. After(r, KeyOf(l))
  BY <1>2 DEF IsFirst
<1>4. QED
  BY <1>3

\* Every step of the exporter, the requests, retention and the clock preserves
\* the inductive invariant.
LEMMA StepIInv == ExportInv /\ [Next]_vars => ExportInv'
<1> SUFFICES ASSUME ExportInv, [Next]_vars PROVE ExportInv'
  OBVIOUS
<1> USE ConstantsAssumption DEF ExportInv
<1>1. CASE UNCHANGED vars
  BY <1>1 DEF vars, TypeOK, PassedMeansDelivered, ReadCovers, PostedBatch, After, Key
<1>2. ASSUME NEW r \in Records, Stamp(r) PROVE ExportInv'
  <2>1. TypeOK'
    BY <1>2 DEF Stamp, TypeOK, Key
  <2>2. \A x \in Records : x # r => state'[x] = state[x] /\ ts'[x] = ts[x]
    BY <1>2 DEF Stamp, TypeOK
  <2>3. state'[r] = "stamped"
    BY <1>2 DEF Stamp, TypeOK
  <2>4. PassedMeansDelivered' /\ ReadCovers' /\ PostedBatch'
    BY <1>2, <2>2, <2>3 DEF Stamp, PassedMeansDelivered, ReadCovers, PostedBatch, After
  <2>5. QED
    BY <2>1, <2>4
<1>3. ASSUME NEW r \in Records, Store(r) PROVE ExportInv'
  <2>1. TypeOK'
    BY <1>3 DEF Store, TypeOK, Key
  <2>2. \A x \in Records : x # r => state'[x] = state[x]
    BY <1>3 DEF Store, TypeOK
  <2>3. late \subseteq late' /\ (Behind(r) => r \in late')
    BY <1>3 DEF Store
  <2>4. PassedMeansDelivered'
    BY <1>3, <2>2, <2>3 DEF Store, PassedMeansDelivered, After, Behind
  <2>5. ReadCovers'
    BY <1>3, <2>2, <2>3 DEF Store, ReadCovers, After, Behind
  <2>6. PostedBatch'
    BY <1>3 DEF Store, PostedBatch
  <2>7. QED
    BY <2>1, <2>4, <2>5, <2>6
<1>4. ASSUME NEW r \in Records, PurgeAudit(r) PROVE ExportInv'
  <2>1. TypeOK'
    BY <1>4 DEF PurgeAudit, TypeOK, Key
  <2>2. \A x \in Records : state'[x] = "stored" => state[x] = "stored"
    BY <1>4 DEF PurgeAudit, TypeOK
  <2>3. PassedMeansDelivered' /\ ReadCovers' /\ PostedBatch'
    BY <1>4, <2>2 DEF PurgeAudit, PassedMeansDelivered, ReadCovers, PostedBatch, After
  <2>4. QED
    BY <2>1, <2>3
<1>5. CASE ReadBatch
  <2>1. PICK B \in SUBSET Records, l \in Records :
           /\ IsFirst(B)
           /\ l \in B /\ \A b \in B \ {l} : After(l, KeyOf(b))
           /\ batch' = B /\ last' = KeyOf(l)
    BY <1>5 DEF ReadBatch
  <2>2. TypeOK'
    BY <1>5, <2>1, KeyOrder DEF ReadBatch, TypeOK
  <2>3. PassedMeansDelivered' /\ PostedBatch'
    BY <1>5 DEF ReadBatch, PassedMeansDelivered, PostedBatch, After
  <2>4. ReadCovers'
    <3>1. SUFFICES ASSUME NEW r \in Records, state[r] = "stored", ~After(r, KeyOf(l))
                   PROVE  r \in B \/ r \in delivered \/ r \in late
      BY <1>5, <2>1 DEF ReadBatch, ReadCovers, After
    <3>2. r \in B \/ ~After(r, cursor)
      BY <2>1, <3>1, ReadBatchCovers
    <3>3. QED
      BY <3>1, <3>2 DEF PassedMeansDelivered
  <2>5. QED
    BY <2>2, <2>3, <2>4
<1>6. CASE Deliver
  <2>1. TypeOK'
    BY <1>6 DEF Deliver, TypeOK, Key
  <2>2. PassedMeansDelivered' /\ ReadCovers' /\ PostedBatch'
    BY <1>6 DEF Deliver, PassedMeansDelivered, ReadCovers, PostedBatch, After
  <2>3. QED
    BY <2>1, <2>2
<1>7. CASE Advance
  <2>1. TypeOK'
    BY <1>7 DEF Advance, TypeOK, Key
  <2>2. PassedMeansDelivered' /\ ReadCovers' /\ PostedBatch'
    BY <1>7 DEF Advance, PassedMeansDelivered, ReadCovers, PostedBatch, After
  <2>3. QED
    BY <2>1, <2>2
<1>8. CASE RunFails
  <2>a. posts' \in [Records -> Nat]
    <3>1. CASE posts' = [r \in Records |-> posts[r] + IF r \in batch THEN 1 ELSE 0]
      BY <3>1 DEF TypeOK
    <3>2. CASE UNCHANGED posts
      BY <3>2 DEF TypeOK
    <3>3. QED
      BY <1>8, <3>1, <3>2 DEF RunFails
  <2>b. delivered' \subseteq Records
    BY <1>8 DEF RunFails, TypeOK
  <2>1. TypeOK'
    BY <1>8, <2>a, <2>b DEF RunFails, TypeOK, Key
  <2>2. PassedMeansDelivered' /\ ReadCovers' /\ PostedBatch'
    BY <1>8 DEF RunFails, PassedMeansDelivered, ReadCovers, PostedBatch, After
  <2>3. QED
    BY <2>1, <2>2
<1>9. CASE Tick
  BY <1>9 DEF Tick, TypeOK, PassedMeansDelivered, ReadCovers, PostedBatch, After, Key
<1>10. QED
  BY <1>1, <1>2, <1>3, <1>4, <1>5, <1>6, <1>7, <1>8, <1>9 DEF Next

\* Whatever commits out of order, fails, crashes or is purged, the cursor only
\* passes records the destination has accepted or that were committed behind it.
THEOREM ExportCoversCursor == Spec => [](TypeOK /\ PassedMeansDelivered)
<1>1. Init => ExportInv
  BY InitExport
<1>2. ExportInv /\ [Next]_vars => ExportInv'
  BY StepIInv
<1>3. ExportInv => TypeOK /\ PassedMeansDelivered
  BY DEF ExportInv
<1>4. QED
  BY <1>1, <1>2, <1>3, PTL DEF Spec
=============================================================================

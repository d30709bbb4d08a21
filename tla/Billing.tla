------------------------------ MODULE Billing ------------------------------
(***************************************************************************)
(* Subscriptions and the plan limits they set (app/domain/billingapp,      *)
(* the subscription half of orgbus and orgdb, and the retention override   *)
(* of a project in projectapp).                                            *)
(*                                                                         *)
(* Stripe is the other party: it keeps its own subscriptions and sends     *)
(* events, which arrive late, in any order and more than once.  The        *)
(* webhook answers success whatever its handler did, so nothing is sent    *)
(* again because of a failure.                                             *)
(***************************************************************************)
EXTENDS Naturals, FiniteSets

CONSTANTS
    Payers,        \* organizations
    StripeSubs,    \* ids of Stripe subscriptions
    FreeDays,      \* retention of the free plan, in days
    ProDays,       \* retention of the paid plan
    MaxUnderWay    \* bound on events under way

NoSub == "no_subscription"

ASSUME BillingAssumption == FreeDays \in Nat /\ ProDays \in Nat /\ FreeDays < ProDays
                            /\ MaxUnderWay \in Nat /\ NoSub \notin StripeSubs \cup Payers

VARIABLES
    sub,         \* subscriptions: the row of each organization
    stripeSubs,  \* Stripe: [org, state, cancelling, metadata]
    events,      \* Stripe events that may (still, or again) be delivered
    cancels,     \* the cancel request of each organization, between two steps
    override     \* the retention override of a project of each organization, 0 when none

billingVars == <<sub, stripeSubs, events, cancels, override>>

\* Subscription.  The customer id stays once it is known.
SubRow(plan, status, link, customer, cancelling) ==
    [plan |-> plan, status |-> status, link |-> link, customer |-> customer,
     cancelling |-> cancelling]

NoRequest == [step |-> "none"]

BillingInit ==
    /\ sub = [o \in Payers |-> SubRow("free", "active", NoSub, FALSE, FALSE)]
    /\ stripeSubs = [x \in StripeSubs |->
          [org |-> NoSub, state |-> "none", cancelling |-> FALSE, metadata |-> FALSE]]
    /\ events = {}
    /\ cancels = [o \in Payers |-> NoRequest]
    /\ override = [o \in Payers |-> 0]

\* The plans table, as far as retention goes
QueryPlanBySlug(plan) == IF plan = "free" THEN FreeDays ELSE ProDays

QuerySubscription(o) == sub[o]
----------------------------------------------------------------------------
(* Stripe, as the handlers use it. *)

Event(type, x) == [type |-> type, sub |-> x]

\* What an event about the state of a subscription carries is read when it was sent.
Updated(x, status, cancelling) ==
    [type |-> "updated", sub |-> x, status |-> status, cancelling |-> cancelling]

\* A hosted checkout is paid.
StripePays(x) ==
    /\ stripeSubs[x].state = "open"
    /\ stripeSubs' = [stripeSubs EXCEPT ![x].state = "active"]
    /\ events' = events \cup {Event("completed", x)}
    /\ UNCHANGED <<sub, cancels, override>>

StripePaymentFails(x) ==
    /\ stripeSubs[x].state = "active"
    /\ stripeSubs' = [stripeSubs EXCEPT ![x].state = "past_due"]
    /\ events' = events \cup {Event("payment_failed", x), Updated(x, "past_due", stripeSubs[x].cancelling)}
    /\ UNCHANGED <<sub, cancels, override>>

StripeInvoicePaid(x) ==
    /\ stripeSubs[x].state = "past_due"
    /\ stripeSubs' = [stripeSubs EXCEPT ![x].state = "active"]
    /\ events' = events \cup {Event("paid", x)}
    /\ UNCHANGED <<sub, cancels, override>>

\* The period ends after a cancellation, or the payments stop for good.
StripeEnds(x) ==
    /\ stripeSubs[x].state = "past_due" \/ (stripeSubs[x].state = "active" /\ stripeSubs[x].cancelling)
    /\ stripeSubs' = [stripeSubs EXCEPT ![x].state = "ended"]
    /\ events' = events \cup {Event("deleted", x)}
    /\ UNCHANGED <<sub, cancels, override>>

\* A session opened with Stripe's own tools may name the organization in its
\* metadata; the sessions of checkout do not.
StripeOpens(o, x) ==
    /\ stripeSubs[x].state = "none"
    /\ stripeSubs' = [stripeSubs EXCEPT ![x] =
          [org |-> o, state |-> "open", cancelling |-> FALSE, metadata |-> TRUE]]
    /\ UNCHANGED <<sub, events, cancels, override>>
----------------------------------------------------------------------------
(* Requests. *)

\* ErrAlreadySubscribed
AlreadySubscribed(row) == row.plan # "free" /\ row.status = "active" /\ ~row.cancelling

\* The organization goes into the metadata of the subscription and the client
\* reference of the session, not into the metadata of the session.
Checkout(o, x) ==
    /\ ~AlreadySubscribed(QuerySubscription(o)) /\ stripeSubs[x].state = "none"
    /\ stripeSubs' = [stripeSubs EXCEPT ![x] =
          [org |-> o, state |-> "open", cancelling |-> FALSE, metadata |-> FALSE]]
    /\ UNCHANGED <<sub, events, cancels, override>>

\* The customer portal, where a cancellation may be made and taken back
Portal(o, x) ==
    /\ QuerySubscription(o).customer
    /\ stripeSubs[x].org = o /\ stripeSubs[x].state = "active"
    /\ stripeSubs' = [stripeSubs EXCEPT ![x].cancelling = ~stripeSubs[x].cancelling]
    /\ events' = events \cup {Updated(x, "active", ~stripeSubs[x].cancelling)}
    /\ UNCHANGED <<sub, cancels, override>>

LoadCancel(o) ==
    /\ cancels[o] = NoRequest
    /\ LET row == QuerySubscription(o)
       IN  row.plan # "free" /\ ~row.cancelling /\ row.link # NoSub
    /\ cancels' = [cancels EXCEPT ![o] = [step |-> "stripe", row |-> QuerySubscription(o)]]
    /\ UNCHANGED <<sub, stripeSubs, events, override>>

\* A subscription that ended is refused, and the request fails.
CancelAtStripe(o) ==
    /\ cancels[o].step = "stripe"
    /\ LET x == cancels[o].row.link
       IN  IF stripeSubs[x].state \in {"active", "past_due"}
           THEN /\ stripeSubs' = [stripeSubs EXCEPT ![x].cancelling = TRUE]
                /\ events' = events \cup {Updated(x, stripeSubs[x].state, TRUE)}
                /\ cancels' = [cancels EXCEPT ![o].step = "write"]
           ELSE cancels' = [cancels EXCEPT ![o] = NoRequest] /\ UNCHANGED <<stripeSubs, events>>
    /\ UNCHANGED <<sub, override>>

\* The whole row, from the copy read first
UpsertSubscription(o, row) == sub' = [sub EXCEPT ![o] = row]

WriteCancel(o) ==
    /\ cancels[o].step = "write"
    /\ UpsertSubscription(o, [cancels[o].row EXCEPT !.cancelling = TRUE])
    /\ cancels' = [cancels EXCEPT ![o] = NoRequest]
    /\ UNCHANGED <<stripeSubs, events, override>>
----------------------------------------------------------------------------
(* The webhook. *)

\* A bug: an update that names no plan is written all the same, and clears the link.
UpdateAnyPlan(x, plan, status, cancelling) ==
    sub' = [o \in Payers |->
        IF sub[o].link # x THEN sub[o]
        ELSE SubRow(IF plan = "" THEN sub[o].plan ELSE plan, status, NoSub, sub[o].customer, cancelling)]

\* The plan is a reference that must exist, and an update without one is refused by
\* the database.  The link is cleared with every update that goes through.
UpdateSubscriptionByStripeID(x, plan, status, cancelling) ==
    sub' = [o \in Payers |->
        IF sub[o].link # x \/ plan = "" THEN sub[o]
        ELSE SubRow(plan, status, NoSub, sub[o].customer, cancelling)]

HandleCheckoutCompleted(x) ==
    LET o == stripeSubs[x].org
    IN  IF stripeSubs[x].metadata
        THEN UpsertSubscription(o, SubRow("pro", "active", x, TRUE, FALSE))
        ELSE UNCHANGED sub

NormalizeStripeStatus(status) ==
    IF status \in {"active", "trialing", "past_due", "canceled"} THEN status ELSE "active"

HandleSubscriptionUpdated(e) ==
    UpdateSubscriptionByStripeID(e.sub, "", NormalizeStripeStatus(e.status), e.cancelling)

HandleSubscriptionDeleted(x) == UpdateSubscriptionByStripeID(x, "free", "cancelled", FALSE)

HandleInvoicePaymentFailed(x) == UpdateSubscriptionByStripeID(x, "", "past_due", FALSE)

HandleInvoicePaid(x) == UpdateSubscriptionByStripeID(x, "", "active", FALSE)

\* An event is delivered, for the last time or not.
Webhook(e) ==
    /\ \/ e.type = "completed" /\ HandleCheckoutCompleted(e.sub)
       \/ e.type = "updated" /\ HandleSubscriptionUpdated(e)
       \/ e.type = "deleted" /\ HandleSubscriptionDeleted(e.sub)
       \/ e.type = "payment_failed" /\ HandleInvoicePaymentFailed(e.sub)
       \/ e.type = "paid" /\ HandleInvoicePaid(e.sub)
    /\ events' \in {events, events \ {e}}
    /\ UNCHANGED <<stripeSubs, cancels, override>>
----------------------------------------------------------------------------
(* The retention override of a project. *)

PlanRetentionLimit(o) == QueryPlanBySlug(QuerySubscription(o).plan)

\* projectapp.update, as far as retention goes; 0 takes the override away
SetRetention(o, days) ==
    /\ days <= PlanRetentionLimit(o) /\ override[o] # days
    /\ override' = [override EXCEPT ![o] = days]
    /\ UNCHANGED <<sub, stripeSubs, events, cancels>>
----------------------------------------------------------------------------
Stripe == \E x \in StripeSubs :
    \/ StripePays(x) \/ StripePaymentFails(x) \/ StripeInvoicePaid(x) \/ StripeEnds(x)
    \/ \E o \in Payers : StripeOpens(o, x)

BillingRequest(o) ==
    \/ \E x \in StripeSubs : Checkout(o, x) \/ Portal(o, x)
    \/ LoadCancel(o) \/ CancelAtStripe(o) \/ WriteCancel(o)
    \/ \E days \in {0, FreeDays, ProDays} : SetRetention(o, days)

BillingNext ==
    /\ Stripe \/ (\E o \in Payers : BillingRequest(o)) \/ (\E e \in events : Webhook(e))
    /\ Cardinality(events') <= MaxUnderWay

BillingSpec == BillingInit /\ [][BillingNext]_billingVars
----------------------------------------------------------------------------
(* Properties. *)

\* cancel answers "subscription has no stripe ID" with an internal error: no order
\* or repetition of events, and no cancellation that writes an old copy back, leads
\* a paid organization there.
PaidKeepsLink == \A o \in Payers :
    sub[o].plan = "pro" => sub[o].link # NoSub /\ sub[o].customer /\ stripeSubs[sub[o].link].org = o
----------------------------------------------------------------------------
(* What comments say and the code does not do (README, section 4). *)

AllDelivered(o) == cancels[o] = NoRequest /\ \A e \in events : stripeSubs[e.sub].org # o

\* "UpdateSubscriptionByStripeID updates a subscription row identified by its Stripe
\* subscription ID": an update that names no plan changes nothing.
PastDueRecorded == \A o \in Payers :
    AllDelivered(o) /\ sub[o].plan = "pro" /\ stripeSubs[sub[o].link].state = "past_due"
        => sub[o].status = "past_due"

\* checkout: the sessions it opens never make an organization a paid one.
CheckoutUpgrades == \A o \in Payers, x \in StripeSubs :
    AllDelivered(o) /\ stripeSubs[x].org = o /\ stripeSubs[x].state = "active" => sub[o].plan = "pro"

\* An organization that Stripe no longer bills is on the free plan: a cancellation
\* writes its old copy after the deletion, or the two events arrive swapped.
EndedIsFree == \A o \in Payers :
    AllDelivered(o) /\ (\A x \in StripeSubs : stripeSubs[x].org = o => stripeSubs[x].state \in {"ended", "open"})
        => sub[o].plan = "free"

\* projectapp.update: "Retention may not exceed what the org's plan allows"; an
\* override stays when the plan shrinks.
RetentionWithinPlan == \A o \in Payers : override[o] <= PlanRetentionLimit(o)
============================================================================

--------------------------- MODULE StreamTickets ---------------------------
(***************************************************************************)
(* Stream tickets (app/domain/logapp/streamticket.go) and the              *)
(* authentication half of the WebSocket handshake (logapp.go, stream): who *)
(* may open a live tail. What happens after the upgrade is LiveTail.       *)
(*                                                                         *)
(* A request is one HTTP request: it is served once, in the steps the      *)
(* handler takes between two points where another request can run. The     *)
(* store's mutex makes issue and consume one step each; the clock is read  *)
(* before the mutex is taken, so a step may use an older time.             *)
(***************************************************************************)
EXTENDS Integers

CONSTANTS
    Requests,
    Users,
    Admins,     \* super admins: not subject to the per-project check
    OrgAdmins,  \* admins of the organization the projects belong to
    Projects,
    Tickets,    \* the random strings issue can return
    NoTicket,   \* the request carries no ticket
    TTL,        \* streamTicketTTL
    MaxClock    \* bound on the clock

ASSUME ConstantsAssumption ==
    /\ Admins \subseteq Users /\ OrgAdmins \subseteq Users
    /\ Users # {} /\ Projects # {}
    /\ NoTicket \notin Tickets
    /\ TTL \in Nat /\ MaxClock \in Nat

VARIABLES
    clock,
    access,    \* <<user, project>> pairs projectBus.HasAccess answers yes for
    checked,   \* history: pairs some access check has answered yes for
    store,     \* keys of ticketStore.m
    entry,     \* the entry stored under each ticket issued; kept as history once deleted
    req        \* the requests

vars == <<clock, access, checked, store, entry, req>>

minted == DOMAIN entry

Entry   == [user: Users, project: Projects, expires: Int]
Pcs     == {"idle", "authorized", "stamped", "issued", "redeeming", "authenticated",
            "open", "refused"}
Request == [pc: Pcs, user: Users, project: Projects, ticket: Tickets \cup {NoTicket}, now: Int]

Init ==
    /\ clock = 0
    /\ access \in SUBSET (Users \X Projects)
    /\ checked = {}
    /\ store = {}
    /\ entry = [t \in {} |-> 0]
    /\ req = [r \in Requests |-> [pc |-> "idle", user |-> CHOOSE u \in Users : TRUE,
                                  project |-> CHOOSE p \in Projects : TRUE,
                                  ticket |-> NoTicket, now |-> 0]]

\* The token path's check, and the one of requireProjectAccess, which also lets
\* the organization's admins through.
HasAccess(u, p) == u \in Admins \/ <<u, p>> \in access
MayRead(u, p)   == HasAccess(u, p) \/ u \in OrgAdmins

Step(r, pc) == req' = [req EXCEPT ![r] = [req[r] EXCEPT !.pc = pc]]
----------------------------------------------------------------------------
(* POST /projects/{project_id}/logs/stream-ticket *)

\* Authenticate and AuthorizeProjectAccess let the request through.
AuthorizeProjectAccess(r, u, p) ==
    /\ req[r].pc = "idle" /\ MayRead(u, p)
    /\ checked' = checked \cup {<<u, p>>}
    /\ req' = [req EXCEPT ![r] = [pc |-> "authorized", user |-> u, project |-> p,
                                  ticket |-> NoTicket, now |-> 0]]
    /\ UNCHANGED <<clock, access, store, entry>>

\* streamTicket reads the clock for issue
StreamTicket(r) ==
    /\ req[r].pc = "authorized"
    /\ req' = [req EXCEPT ![r] = [req[r] EXCEPT !.pc = "stamped", !.now = clock]]
    /\ UNCHANGED <<clock, access, checked, store, entry>>

Swept(now) == {t \in store : now > entry[t].expires}

Expiry(now) == now + TTL

Issue(r, t) ==
    /\ req[r].pc = "stamped" /\ t \notin minted
    /\ store' = (store \ Swept(req[r].now)) \cup {t}
    /\ entry' = [x \in minted \cup {t} |->
                    IF x = t THEN [user |-> req[r].user, project |-> req[r].project,
                                   expires |-> Expiry(req[r].now)]
                             ELSE entry[x]]
    /\ Step(r, "issued")
    /\ UNCHANGED <<clock, access, checked>>
----------------------------------------------------------------------------
(* GET /projects/{project_id}/logs/stream *)

\* The handshake carries a ticket, any ticket, and stream reads the clock for consume.
ConnectTicket(r, t, p) ==
    /\ req[r].pc = "idle"
    /\ req' = [req EXCEPT ![r] = [pc |-> "redeeming", user |-> req[r].user, project |-> p,
                                  ticket |-> t, now |-> clock]]
    /\ UNCHANGED <<clock, access, checked, store, entry>>

Redeemable(r) ==
    LET t == req[r].ticket
    IN  /\ t \in store
        /\ ~(req[r].now > entry[t].expires)
        /\ entry[t].project = req[r].project

\* A bug: the ticket is deleted only when it is expired or for another project.
ConsumeKeeps(r) ==
    /\ req[r].pc = "redeeming"
    /\ store' = IF Redeemable(r) THEN store ELSE store \ {req[r].ticket}
    /\ req' = [req EXCEPT ![r] = IF Redeemable(r)
                                 THEN [req[r] EXCEPT !.pc = "open", !.user = entry[req[r].ticket].user]
                                 ELSE [req[r] EXCEPT !.pc = "refused"]]
    /\ UNCHANGED <<clock, access, checked, entry>>

\* The ticket goes whether or not it matches.
Consume(r) ==
    /\ req[r].pc = "redeeming"
    /\ store' = store \ {req[r].ticket}
    /\ req' = [req EXCEPT ![r] = IF Redeemable(r)
                                 THEN [req[r] EXCEPT !.pc = "open", !.user = entry[req[r].ticket].user]
                                 ELSE [req[r] EXCEPT !.pc = "refused"]]
    /\ UNCHANGED <<clock, access, checked, entry>>

\* Deprecated: ?token= names the user; the per-project check follows.
ConnectToken(r, u, p) ==
    /\ req[r].pc = "idle"
    /\ req' = [req EXCEPT ![r] = [pc |-> "authenticated", user |-> u, project |-> p,
                                  ticket |-> NoTicket, now |-> 0]]
    /\ UNCHANGED <<clock, access, checked, store, entry>>

CheckAccess(r) ==
    LET u == req[r].user
        p == req[r].project
    IN  /\ req[r].pc = "authenticated"
        /\ IF HasAccess(u, p)
           THEN checked' = checked \cup {<<u, p>>} /\ Step(r, "open")
           ELSE checked' = checked /\ Step(r, "refused")
        /\ UNCHANGED <<clock, access, store, entry>>

\* No project id, no credentials, a bad token, or an error of the access check.
Refuse(r) ==
    /\ req[r].pc \in {"idle", "authenticated"}
    /\ Step(r, "refused")
    /\ UNCHANGED <<clock, access, checked, store, entry>>
----------------------------------------------------------------------------
\* Access is granted or revoked.
ChangeAccess(u, p) ==
    /\ access' = IF <<u, p>> \in access THEN access \ {<<u, p>>} ELSE access \cup {<<u, p>>}
    /\ UNCHANGED <<clock, checked, store, entry, req>>

Tick ==
    /\ clock < MaxClock
    /\ clock' = clock + 1
    /\ UNCHANGED <<access, checked, store, entry, req>>

Serve(r) ==
    \/ \E u \in Users, p \in Projects : AuthorizeProjectAccess(r, u, p) \/ ConnectToken(r, u, p)
    \/ \E t \in Tickets, p \in Projects : ConnectTicket(r, t, p)
    \/ \E t \in Tickets : Issue(r, t)
    \/ StreamTicket(r) \/ Consume(r) \/ CheckAccess(r) \/ Refuse(r)

Next ==
    \/ \E r \in Requests : Serve(r)
    \/ \E u \in Users, p \in Projects : ChangeAccess(u, p)
    \/ Tick

Spec == Init /\ [][Next]_vars
----------------------------------------------------------------------------
(* Properties. *)

\* Every variable has its type, only minted tickets are stored, and none outlives
\* the TTL counted from now.
TypeOK ==
    /\ clock \in Nat
    /\ access \subseteq Users \X Projects
    /\ checked \subseteq Users \X Projects
    /\ minted \subseteq Tickets
    /\ store \subseteq minted
    /\ entry \in [minted -> Entry]
    /\ \A t \in store : entry[t].expires <= clock + TTL
    /\ req \in [Requests -> Request]

OpenedBy(r, t) == req[r].pc = "open" /\ req[r].ticket = t

\* "it can never be reused": a ticket opens at most one stream, however many
\* handshakes carry it at once.
SingleUse ==
    \A t \in Tickets, r1, r2 \in Requests : OpenedBy(r1, t) /\ OpenedBy(r2, t) => r1 = r2

\* "The ticket already encodes an authorized (user, project) pair": a stream is
\* open only on a project its user was found to have access to, and one that a
\* ticket opened is the ticket's own user's, on its project, asked for before it
\* expired.
StreamsAuthorized ==
    \A r \in Requests : req[r].pc = "open" =>
        /\ <<req[r].user, req[r].project>> \in checked
        /\ req[r].ticket \in Tickets =>
             /\ req[r].ticket \in minted
             /\ req[r].user = entry[req[r].ticket].user
             /\ req[r].project = entry[req[r].ticket].project
             /\ req[r].now <= entry[req[r].ticket].expires

\* The sweep of issue removes only what consume would refuse: until it expires, a
\* ticket nobody has presented is in the store, although the sweepers' clocks
\* are read before the mutex is taken.
LiveTicketsKept ==
    \A t \in minted : (clock <= entry[t].expires) =>
        \/ t \in store
        \/ \E r \in Requests : req[r].ticket = t /\ req[r].pc \in {"open", "refused"}
============================================================================

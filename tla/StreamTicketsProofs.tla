------------------------ MODULE StreamTicketsProofs ------------------------
(***************************************************************************)
(* What readers are shown, for any number of requests, users, projects,    *)
(* tickets, records and rows: a stream ticket opens at most one stream,    *)
(* its own; a saved view, a permalink or an annotation reaches whom it may *)
(* reach; a live tail below its queue limit misses no batch; paging        *)
(* through a table that changes leaves no row out; the figures computed    *)
(* from it account for every row they read.                                *)
(***************************************************************************)
EXTENDS StreamTickets, SavedRecords, LiveTail, LogQueries, LogAnalytics, SumLemmas, SequenceTheorems, TLAPS

\* What TypeOK says apart from the lifetime of the stored tickets.
Types ==
    /\ clock \in Nat
    /\ access \subseteq Users \X Projects
    /\ checked \subseteq Users \X Projects
    /\ minted \subseteq Tickets
    /\ store \subseteq minted
    /\ entry \in [minted -> Entry]
    /\ req \in [Requests -> Request]

\* Times already read are not ahead of the clock.
StampsOK ==
    /\ \A r \in Requests : req[r].now <= clock
    /\ \A t \in minted : entry[t].expires <= clock + TTL

\* A request carries a ticket only on its way to redeeming it.
Carried ==
    \A r \in Requests :
        req[r].ticket # NoTicket => req[r].pc \in {"redeeming", "open", "refused"}

\* A ticket that opened a stream is out of the store.
Spent == \A r \in Requests : req[r].pc = "open" => req[r].ticket \notin store

\* Whoever is about to get a ticket, and whoever got one, passed the access check.
Vouched ==
    /\ \A r \in Requests : req[r].pc \in {"authorized", "stamped"} =>
            <<req[r].user, req[r].project>> \in checked
    /\ \A t \in minted : <<entry[t].user, entry[t].project>> \in checked

\* The inductive invariant.
IInv == Types /\ StampsOK /\ Carried /\ Spent /\ Vouched /\ SingleUse /\ StreamsAuthorized
----------------------------------------------------------------------------
\* newTicketStore and idle requests satisfy the invariant.
LEMMA InitIInv == Init => IInv
BY ConstantsAssumption
   DEF Init, IInv, Types, StampsOK, Carried, Spent, Vouched, SingleUse, StreamsAuthorized,
       OpenedBy, minted, Request, Pcs

\* Every step of a request, of the clock or of the grants preserves it.
LEMMA NextIInv == IInv /\ [Next]_vars => IInv'
<1> SUFFICES ASSUME IInv, [Next]_vars PROVE IInv'
  OBVIOUS
<1> USE ConstantsAssumption DEF IInv
<1>1. ASSUME NEW r \in Requests, NEW u \in Users, NEW p \in Projects,
             AuthorizeProjectAccess(r, u, p)
      PROVE  IInv'
  BY <1>1 DEF AuthorizeProjectAccess, Types, StampsOK, Carried, Spent, Vouched, SingleUse,
     StreamsAuthorized, OpenedBy, minted, Request, Pcs, Entry
<1>2. ASSUME NEW r \in Requests, NEW u \in Users, NEW p \in Projects, ConnectToken(r, u, p)
      PROVE  IInv'
  BY <1>2 DEF ConnectToken, Types, StampsOK, Carried, Spent, Vouched, SingleUse,
     StreamsAuthorized, OpenedBy, minted, Request, Pcs, Entry
<1>3. ASSUME NEW r \in Requests, NEW t \in Tickets, NEW p \in Projects, ConnectTicket(r, t, p)
      PROVE  IInv'
  BY <1>3 DEF ConnectTicket, Types, StampsOK, Carried, Spent, Vouched, SingleUse,
     StreamsAuthorized, OpenedBy, minted, Request, Pcs, Entry
<1>4. ASSUME NEW r \in Requests, NEW t \in Tickets, Issue(r, t)
      PROVE  IInv'
  <2>1. Types'
    BY <1>4 DEF Issue, Step, Swept, Expiry, Types, minted, Request, Pcs, Entry
  <2>2. \A x \in Requests : x # r => req'[x] = req[x]
    BY <1>4 DEF Issue, Step, Swept, Expiry, Types
  <2>3. StampsOK'
    BY <1>4, <2>1, <2>2 DEF Issue, Step, Swept, Expiry, Types, StampsOK, minted, Request, Entry
  <2>4. Carried'
    BY <1>4, <2>1, <2>2 DEF Issue, Step, Swept, Expiry, Types, Carried, Request
  <2>5. Spent'
    BY <1>4, <2>1, <2>2 DEF Issue, Step, Swept, Expiry, Types, Carried, Spent, StreamsAuthorized, minted, Request
  <2>6. Vouched'
    BY <1>4, <2>1, <2>2 DEF Issue, Step, Swept, Expiry, Types, Vouched, minted, Request, Entry
  <2>7. SingleUse'
    BY <1>4, <2>1, <2>2 DEF Issue, Step, Swept, Expiry, Types, Carried, Spent, SingleUse, OpenedBy, minted, Request
  <2>8. StreamsAuthorized'
    BY <1>4, <2>1, <2>2 DEF Issue, Step, Swept, Expiry, Types, Carried, Vouched, StreamsAuthorized, minted, Request, Entry
  <2> QED
    BY <2>1, <2>3, <2>4, <2>5, <2>6, <2>7, <2>8
<1>5. ASSUME NEW r \in Requests, StreamTicket(r)
      PROVE  IInv'
  <2>1. Types'
    <3>1. req[r] \in Request /\ clock \in Int
      BY DEF Types
    <3>2. [req[r] EXCEPT !.pc = "stamped", !.now = clock] \in Request
      BY <3>1 DEF Request, Pcs
    <3> QED
      BY <1>5, <3>2 DEF StreamTicket, Types, minted
  <2>2. \A x \in Requests : x # r => req'[x] = req[x]
    BY <1>5 DEF StreamTicket, Types
  <2>3. StampsOK'
    BY <1>5, <2>1, <2>2 DEF StreamTicket, Types, StampsOK, minted, Request, Entry
  <2>4. Carried'
    BY <1>5, <2>1, <2>2 DEF StreamTicket, Types, Carried, Request
  <2>5. Spent'
    BY <1>5, <2>1, <2>2 DEF StreamTicket, Types, Carried, Spent, StreamsAuthorized, minted, Request
  <2>6. Vouched'
    BY <1>5, <2>1, <2>2 DEF StreamTicket, Types, Vouched, minted, Request, Entry
  <2>7. SingleUse'
    BY <1>5, <2>1, <2>2 DEF StreamTicket, Types, Carried, Spent, SingleUse, OpenedBy, minted, Request
  <2>8. StreamsAuthorized'
    BY <1>5, <2>1, <2>2 DEF StreamTicket, Types, Carried, Vouched, StreamsAuthorized, minted, Request, Entry
  <2> QED
    BY <2>1, <2>3, <2>4, <2>5, <2>6, <2>7, <2>8
<1>6. ASSUME NEW r \in Requests, Consume(r)
      PROVE  IInv'
  <2>1. Types'
    BY <1>6 DEF Consume, Redeemable, Types, minted, Request, Pcs, Entry
  <2>2. \A x \in Requests : x # r => req'[x] = req[x]
    BY <1>6 DEF Consume, Redeemable, Types
  <2>3. StampsOK'
    BY <1>6, <2>1, <2>2 DEF Consume, Redeemable, Types, StampsOK, minted, Request, Entry
  <2>4. Carried'
    BY <1>6, <2>1, <2>2 DEF Consume, Redeemable, Types, Carried, Request
  <2>5. Spent'
    BY <1>6, <2>1, <2>2 DEF Consume, Redeemable, Types, Carried, Spent, StreamsAuthorized, minted, Request
  <2>6. Vouched'
    BY <1>6, <2>1, <2>2 DEF Consume, Redeemable, Types, Vouched, minted, Request, Entry
  <2>7. SingleUse'
    BY <1>6, <2>1, <2>2 DEF Consume, Redeemable, Types, Carried, Spent, SingleUse, OpenedBy, minted, Request
  <2>8. StreamsAuthorized'
    BY <1>6, <2>1, <2>2 DEF Consume, Redeemable, Types, Carried, Vouched, StreamsAuthorized, minted, Request, Entry
  <2> QED
    BY <2>1, <2>3, <2>4, <2>5, <2>6, <2>7, <2>8
<1>7. ASSUME NEW r \in Requests, CheckAccess(r)
      PROVE  IInv'
  <2>1. Types'
    <3>1. req[r] \in Request /\ req[r].user \in Users /\ req[r].project \in Projects
      BY DEF Types, Request
    <3>2. \A pc \in Pcs : [req[r] EXCEPT !.pc = pc] \in Request
      BY <3>1 DEF Request
    <3>3. req' \in [Requests -> Request]
      BY <1>7, <3>2 DEF CheckAccess, Step, Types, Pcs
    <3>4. checked' \subseteq Users \X Projects
      BY <1>7, <3>1 DEF CheckAccess, Types
    <3> QED
      BY <1>7, <3>3, <3>4 DEF CheckAccess, Types, minted
  <2>2. \A x \in Requests : x # r => req'[x] = req[x]
    BY <1>7 DEF CheckAccess, Step, HasAccess, Types
  <2>3. StampsOK'
    BY <1>7, <2>1, <2>2 DEF CheckAccess, Step, HasAccess, Types, StampsOK, minted, Request, Entry
  <2>4. Carried'
    BY <1>7, <2>1, <2>2 DEF CheckAccess, Step, HasAccess, Types, Carried, Request
  <2>5. Spent'
    BY <1>7, <2>1, <2>2 DEF CheckAccess, Step, HasAccess, Types, Carried, Spent, StreamsAuthorized, minted, Request
  <2>6. Vouched'
    BY <1>7, <2>1, <2>2 DEF CheckAccess, Step, HasAccess, Types, Vouched, minted, Request, Entry
  <2>7. SingleUse'
    BY <1>7, <2>1, <2>2 DEF CheckAccess, Step, HasAccess, Types, Carried, Spent, SingleUse, OpenedBy, minted, Request
  <2>8. StreamsAuthorized'
    BY <1>7, <2>1, <2>2 DEF CheckAccess, Step, HasAccess, Types, Carried, Vouched, StreamsAuthorized, minted, Request, Entry
  <2> QED
    BY <2>1, <2>3, <2>4, <2>5, <2>6, <2>7, <2>8
<1>8. ASSUME NEW r \in Requests, Refuse(r)
      PROVE  IInv'
  BY <1>8 DEF Refuse, Step, Types, StampsOK, Carried, Spent, Vouched, SingleUse,
     StreamsAuthorized, OpenedBy, minted, Request, Pcs, Entry
<1>9. ASSUME NEW u \in Users, NEW p \in Projects, ChangeAccess(u, p)
      PROVE  IInv'
  BY <1>9 DEF ChangeAccess, Types, StampsOK, Carried, Spent, Vouched, SingleUse,
     StreamsAuthorized, OpenedBy, minted
<1>10. CASE Tick
  BY <1>10 DEF Tick, Types, StampsOK, Carried, Spent, Vouched, SingleUse,
     StreamsAuthorized, OpenedBy, minted, Request, Entry
<1>11. CASE UNCHANGED vars
  BY <1>11 DEF vars, Types, StampsOK, Carried, Spent, Vouched, SingleUse,
     StreamsAuthorized, OpenedBy, minted
<1> QED
  BY <1>1, <1>2, <1>3, <1>4, <1>5, <1>6, <1>7, <1>8, <1>9, <1>10, <1>11 DEF Next, Serve
----------------------------------------------------------------------------
\* A request that has been answered is not served again.
Answered(r) == req[r].pc \in {"open", "refused"}

\* Answered requests stay as they are.
LEMMA AnsweredStays ==
  ASSUME Types, [Next]_vars, NEW x \in Requests, Answered(x)
  PROVE  req'[x] = req[x]
<1>1. CASE UNCHANGED vars
  BY <1>1 DEF vars
<1>2. ASSUME NEW r \in Requests, Serve(r) PROVE req'[x] = req[x]
  BY <1>2 DEF Serve, AuthorizeProjectAccess, ConnectToken, ConnectTicket, Issue, StreamTicket,
     Consume, CheckAccess, Refuse, Step, Answered, Types
<1>3. CASE Tick \/ \E u \in Users, p \in Projects : ChangeAccess(u, p)
  BY <1>3 DEF Tick, ChangeAccess
<1> QED
  BY <1>1, <1>2, <1>3 DEF Next

\* The sweep runs with a time at most the clock's, so it spares what is alive.
LEMMA NextKept == IInv /\ LiveTicketsKept /\ [Next]_vars => LiveTicketsKept'
<1> SUFFICES ASSUME IInv, LiveTicketsKept, [Next]_vars,
                    NEW t \in minted', (clock <= entry[t].expires)'
             PROVE  \/ t \in store'
                    \/ \E r \in Requests : req'[r].ticket = t /\ Answered(r)'
  BY DEF LiveTicketsKept, Answered
<1> USE ConstantsAssumption
<1>0. Types /\ StampsOK
  BY DEF IInv
<1>1. CASE t \in minted /\ entry'[t] = entry[t] /\ clock <= entry[t].expires /\ store \ {t} = store
  <2>1. PICK r \in Requests : req[r].ticket = t /\ Answered(r)
    BY <1>1 DEF LiveTicketsKept, Answered
  <2>2. req'[r] = req[r]
    BY <2>1, <1>0, AnsweredStays
  <2> QED
    BY <2>1, <2>2 DEF Answered
<1>2. ASSUME NEW r \in Requests, NEW i \in Tickets, Issue(r, i) PROVE t \in store' \/ t \notin store
  BY <1>0, <1>2 DEF Issue, Swept, Types, StampsOK, minted, Request, Entry
<1>3. ASSUME NEW r \in Requests, Consume(r), t \in store, t \notin store'
      PROVE  req'[r].ticket = t /\ Answered(r)'
  BY <1>0, <1>3 DEF Consume, Types, Answered, Request
<1>4. ASSUME t \in store, t \notin store'
      PROVE  \E r \in Requests : req'[r].ticket = t /\ Answered(r)'
  BY <1>2, <1>3, <1>4 DEF Next, Serve, vars, AuthorizeProjectAccess, ConnectToken, ConnectTicket,
     StreamTicket, CheckAccess, Refuse, Tick, ChangeAccess
<1>5. t \in store' \/ (t \in minted /\ entry'[t] = entry[t])
  BY <1>0 DEF Next, Serve, vars, AuthorizeProjectAccess, ConnectToken, ConnectTicket, Issue,
     StreamTicket, Consume, CheckAccess, Refuse, Tick, ChangeAccess, minted, Types
<1>6. clock <= clock' /\ clock' \in Nat
  <2>1. CASE clock' = clock
    BY <1>0, <2>1 DEF Types
  <2>2. CASE Tick
    BY <1>0, <2>2 DEF Tick, Types
  <2>3. clock' = clock \/ Tick
    BY DEF Next, Serve, vars, AuthorizeProjectAccess, ConnectToken, ConnectTicket, Issue,
       StreamTicket, Consume, CheckAccess, Refuse, ChangeAccess
  <2> QED
    BY <2>1, <2>2, <2>3
<1>7. (t \in minted /\ entry'[t] = entry[t]) => clock <= entry[t].expires
  BY <1>0, <1>6 DEF Types, Entry, minted
<1> QED
  BY <1>1, <1>4, <1>5, <1>7

\* consume removes the ticket under the lock before anything is decided, so a
\* ticket opens at most one stream, and every open stream is one its user was
\* authorized for, by its own unexpired ticket or by the token path's check. A
\* ticket nobody has presented stays redeemable until it expires.
THEOREM TicketsSingleUse == Spec => [](TypeOK /\ SingleUse /\ StreamsAuthorized /\ LiveTicketsKept)
<1>1. IInv => TypeOK /\ SingleUse /\ StreamsAuthorized
  BY DEF IInv, Types, StampsOK, TypeOK
<1>2. Init => LiveTicketsKept
  BY DEF Init, LiveTicketsKept, minted
<1> QED
  BY InitIInv, NextIInv, NextKept, <1>1, <1>2, PTL DEF Spec

-----------------------------------------------------------------------------
(* SavedRecords: what views, dashboards, permalinks and annotations show.    *)

\* What a caller may read, given his role, the access granted and the projects there are.
Readable(p, admin, pairs, st) == {x \in st : admin \/ <<p, x>> \in pairs}

RowShape(row) == row = [kind |-> row.kind, by |-> row.by, pin |-> row.pin, vis |-> row.vis]

\* A row of the four tables: a link or a note is the organization's, a dashboard is
\* pinned to nothing, a pin is to a project that stands.
RowOK(id, row, st, ws) ==
    /\ RowShape(row)
    /\ row.kind \in Kinds \cup {"free", "gone"}
    /\ row.vis \in {"private", "org"}
    /\ row.pin \in st \cup {NoPin}
    /\ row.kind \in Kinds /\ row.vis = "org" => id \in ws
    /\ row.kind \in {"link", "note"} => row.vis = "org"
    /\ row.kind = "dashboard" => row.pin = NoPin

VisitShape(c) ==
    c = [pc |-> c.pc, kind |-> c.kind, who |-> c.who, admin |-> c.admin, sees |-> c.sees,
         rows |-> c.rows, could |-> c.could, ruled |-> c.ruled]

\* A row a request holds was one its caller could see, and may change.
HeldOK(c, copy, ws) ==
    /\ RowShape(copy.row)
    /\ copy.row.kind = c.kind
    /\ copy.row.by = c.who \/ copy.id \in ws
    /\ \/ copy.row.pin \in c.could \cup {NoPin}
       \/ c.kind = "link" /\ copy.row.by = c.who
    /\ copy.row.by = c.who \/ c.ruled
    /\ c.kind = "dashboard" => copy.row.pin = NoPin
    /\ c.kind \in {"link", "note"} => copy.row.vis = "org"
    /\ copy.row.vis \in {"private", "org"}

\* What a request found out about its caller was so at some moment of it.
VisitOK(c, admins, pairs, st, ws) ==
    \/ c = IdleVisit
    \/ /\ VisitShape(c)
       /\ c.pc \in {"role", "projects", "known", "update", "delete"} /\ c.kind \in Kinds
       /\ Readable(c.who, Rules(c.who, admins), pairs, st) \subseteq c.could
       /\ Rules(c.who, admins) => c.ruled
       /\ c.admin => c.ruled /\ st \subseteq c.could
       /\ c.sees \subseteq c.could
       /\ c.pc \in {"update", "delete"} => \A copy \in c.rows : HeldOK(c, copy, ws)
       /\ c.ruled \in BOOLEAN /\ c.admin \in BOOLEAN

\* What an answer shows is its caller's own, or was shared, and so on.
Shown(c, copy, wrote, ws) ==
    /\ copy.row.by = c.who \/ copy.id \in ws
    /\ \/ copy.row.pin \in c.could \cup {NoPin}
       \/ wrote /\ copy.row.kind = "link" /\ copy.row.by = c.who
    /\ wrote => copy.row.by = c.who \/ c.ruled

SavedInv ==
    /\ saved = [id \in Records |-> saved[id]]
    /\ \A id \in Records : RowOK(id, saved[id], standing, wasShared)
    /\ visit = [v \in Visits |-> visit[v]]
    /\ \A v \in Visits : VisitOK(visit[v], orgAdmins, readers, standing, wasShared)
    /\ \A copy \in answer.copies : Shown(answer.to, copy, answer.wrote, wasShared)

LEMMA HeldLater ==
  ASSUME NEW c, NEW copy, NEW ws, NEW ws2, ws \subseteq ws2, HeldOK(c, copy, ws)
  PROVE  HeldOK(c, copy, ws2)
  BY DEF HeldOK

LEMMA VisitLater ==
  ASSUME NEW c, NEW admins, NEW pairs, NEW st, NEW st2, NEW ws, NEW ws2, st2 \subseteq st, ws \subseteq ws2,
         VisitOK(c, admins, pairs, st, ws)
  PROVE  VisitOK(c, admins, pairs, st2, ws2)
  <1>1. CASE c # IdleVisit
    <2>1. Readable(c.who, Rules(c.who, admins), pairs, st2) \subseteq Readable(c.who, Rules(c.who, admins), pairs, st)
      BY DEF Readable
    <2>2. \A copy \in c.rows : HeldOK(c, copy, ws) => HeldOK(c, copy, ws2)
      BY HeldLater
    <2>3. QED
      BY <1>1, <2>1, <2>2 DEF VisitOK
  <1>2. QED
    BY <1>1 DEF VisitOK

LEMMA RowLater ==
  ASSUME NEW id, NEW row, NEW st, NEW ws, NEW ws2, ws \subseteq ws2, RowOK(id, row, st, ws)
  PROVE  RowOK(id, row, st, ws2)
  BY DEF RowOK

\* A request goes on, and the tables may have changed.
LEMMA VisitMoves ==
  ASSUME SavedInv, UNCHANGED <<orgAdmins, readers, standing>>, wasShared \subseteq wasShared',
         saved' = [id \in Records |-> saved'[id]],
         \A id \in Records : RowOK(id, saved'[id], standing, wasShared'),
         \A copy \in answer'.copies : Shown(answer'.to, copy, answer'.wrote, wasShared'),
         NEW v \in Visits, NEW c, visit' = [visit EXCEPT ![v] = c],
         VisitOK(c, orgAdmins, readers, standing, wasShared')
  PROVE  SavedInv'
  <1>1. PICK ws, posts : ws = wasShared' /\ posts = visit'
    OBVIOUS
  <1>2. posts = [k \in Visits |-> posts[k]] /\ \A k \in Visits : posts[k] = IF k = v THEN c ELSE visit[k]
    BY <1>1 DEF SavedInv
  <1>3. \A k \in Visits : VisitOK(visit[k], orgAdmins, readers, standing, wasShared)
    BY DEF SavedInv
  <1>4. \A k \in Visits : VisitOK(visit[k], orgAdmins, readers, standing, ws)
    BY <1>1, <1>3, VisitLater
  <1>5. \A k \in Visits : VisitOK(posts[k], orgAdmins, readers, standing, ws)
    BY <1>1, <1>2, <1>4
  <1>6. QED
    BY <1>1, <1>2, <1>5 DEF SavedInv

\* A step of a request that writes nothing.
LEMMA QuietMove ==
  ASSUME SavedInv, UNCHANGED <<saved, orgVars, wasShared>>,
         \A copy \in answer'.copies : Shown(answer'.to, copy, answer'.wrote, wasShared),
         NEW v \in Visits, NEW c, visit' = [visit EXCEPT ![v] = c],
         VisitOK(c, orgAdmins, readers, standing, wasShared)
  PROVE  SavedInv'
  <1>1. \A id \in Records : RowOK(id, saved[id], standing, wasShared)
    BY DEF SavedInv
  <1>2. saved = [id \in Records |-> saved[id]]
    BY DEF SavedInv
  <1>3. QED
    BY <1>1, <1>2, VisitMoves DEF orgVars

LEMMA SilentShows ==
  ASSUME answer' = Silent, NEW ws
  PROVE  \A copy \in answer'.copies : Shown(answer'.to, copy, answer'.wrote, ws)
  BY DEF Silent

LEMMA WitnessFields ==
  ASSUME NEW c, VisitShape(c), c.pc # "idle", NEW admins, NEW pairs
  PROVE  \E w : /\ w = Witness(c, admins, pairs)
                /\ VisitShape(w) /\ w.pc = c.pc /\ w.kind = c.kind /\ w.who = c.who /\ w.admin = c.admin
                /\ w.sees = c.sees /\ w.rows = c.rows
                /\ w.could = c.could \cup Readable(c.who, Rules(c.who, admins), pairs, standing)
                /\ (w.ruled <=> (c.ruled \/ Rules(c.who, admins))) /\ w.ruled \in BOOLEAN
  <1>1. PICK could : could = c.could \cup Readable(c.who, Rules(c.who, admins), pairs, standing)
    OBVIOUS
  <1>2. PICK ruled \in BOOLEAN : ruled = (c.ruled \/ Rules(c.who, admins))
    BY (c.ruled \/ Rules(c.who, admins)) \in BOOLEAN
  <1>3. Witness(c, admins, pairs) = [c EXCEPT !.could = could, !.ruled = ruled]
    BY <1>1, <1>2 DEF Witness, VisibleProjects, Readable
  <1>4. PICK d : d = [c EXCEPT !.could = could]
    OBVIOUS
  <1>5. PICK w : w = [d EXCEPT !.ruled = ruled]
    OBVIOUS
  <1>6. w = Witness(c, admins, pairs)
    BY <1>3, <1>4, <1>5, Zenon
  <1>7. VisitShape(d) /\ d.pc = c.pc /\ d.kind = c.kind /\ d.who = c.who /\ d.admin = c.admin
        /\ d.sees = c.sees /\ d.rows = c.rows /\ d.could = could
    BY <1>4 DEF VisitShape
  <1>8. VisitShape(w) /\ w.pc = c.pc /\ w.kind = c.kind /\ w.who = c.who /\ w.admin = c.admin
        /\ w.sees = c.sees /\ w.rows = c.rows /\ w.could = could /\ w.ruled = ruled
    BY <1>5, <1>7 DEF VisitShape
  <1>9. QED
    BY <1>1, <1>2, <1>6, <1>8

\* A change of roles or access is something its requests might have seen.
LEMMA WitnessOK ==
  ASSUME NEW c, NEW admins, NEW pairs, NEW admins2, NEW pairs2, NEW ws,
         VisitOK(c, admins, pairs, standing, ws)
  PROVE  VisitOK(Witness(c, admins2, pairs2), admins2, pairs2, standing, ws)
  <1>1. CASE c = IdleVisit
    BY <1>1 DEF Witness, IdleVisit, VisitOK
  <1>2. CASE c # IdleVisit
    <2>1. VisitShape(c) /\ c.pc # "idle"
      BY <1>2 DEF VisitOK
    <2>2. PICK w : /\ w = Witness(c, admins2, pairs2)
                   /\ VisitShape(w) /\ w.pc = c.pc /\ w.kind = c.kind /\ w.who = c.who /\ w.admin = c.admin
                   /\ w.sees = c.sees /\ w.rows = c.rows
                   /\ w.could = c.could \cup Readable(c.who, Rules(c.who, admins2), pairs2, standing)
                   /\ (w.ruled <=> (c.ruled \/ Rules(c.who, admins2))) /\ w.ruled \in BOOLEAN
      BY <2>1, WitnessFields
    <2>3. \A copy : HeldOK(c, copy, ws) => HeldOK(w, copy, ws)
      BY <2>2 DEF HeldOK
    <2>4. VisitOK(w, admins2, pairs2, standing, ws)
      <3>1. /\ c.pc \in {"role", "projects", "known", "update", "delete"} /\ c.kind \in Kinds
            /\ c.admin => c.ruled /\ standing \subseteq c.could
            /\ c.sees \subseteq c.could
            /\ c.pc \in {"update", "delete"} => \A copy \in c.rows : HeldOK(c, copy, ws)
            /\ c.admin \in BOOLEAN
        BY <1>2 DEF VisitOK
      <3>2. Readable(w.who, Rules(w.who, admins2), pairs2, standing) \subseteq w.could
            /\ (Rules(w.who, admins2) => w.ruled) /\ c.could \subseteq w.could /\ (c.ruled => w.ruled)
        BY <2>2
      <3>3. w.pc \in {"update", "delete"} => \A copy \in w.rows : HeldOK(w, copy, ws)
        BY <2>2, <2>3, <3>1
      <3>4. w.pc \in {"role", "projects", "known", "update", "delete"} /\ w.kind \in Kinds
            /\ w.admin \in BOOLEAN /\ w.ruled \in BOOLEAN /\ VisitShape(w)
        BY <2>2, <3>1
      <3>5. w.sees \subseteq w.could
        BY <2>2, <3>1
      <3>6. w.admin => w.ruled /\ standing \subseteq w.could
        BY <2>2, <3>1, <3>2
      <3>7. QED
        BY <3>2, <3>3, <3>4, <3>5, <3>6, Zenon DEF VisitOK
    <2>5. QED
      BY <2>2, <2>4
  <1>3. QED
    BY <1>1, <1>2

LEMMA ArriveOK ==
  ASSUME SavedInv, NEW v \in Visits, NEW p \in People, NEW kind \in Kinds, Arrive(v, p, kind)
  PROVE  SavedInv'
  <1>1. PICK c : c = [pc |-> "role", kind |-> kind, who |-> p, admin |-> FALSE,
                      sees |-> {}, rows |-> {}, could |-> {}, ruled |-> FALSE]
    OBVIOUS
  <1>2. [IdleVisit EXCEPT !.pc = "role", !.kind = kind, !.who = p] = c
    <2>1. PICK d : d = [IdleVisit EXCEPT !.pc = "role"]
      OBVIOUS
    <2>2. PICK e : e = [d EXCEPT !.kind = kind]
      OBVIOUS
    <2>3. PICK f : f = [e EXCEPT !.who = p]
      OBVIOUS
    <2>4. [IdleVisit EXCEPT !.pc = "role", !.kind = kind, !.who = p] = f
      BY <2>1, <2>2, <2>3, Zenon
    <2>5. PICK q : q = (CHOOSE x \in People : TRUE)
      OBVIOUS
    <2>6. d = [pc |-> "role", kind |-> "view", who |-> q, admin |-> FALSE,
               sees |-> {}, rows |-> {}, could |-> {}, ruled |-> FALSE]
      BY <2>1, <2>5 DEF IdleVisit
    <2>7. e = [pc |-> "role", kind |-> kind, who |-> q, admin |-> FALSE,
               sees |-> {}, rows |-> {}, could |-> {}, ruled |-> FALSE]
      BY <2>2, <2>6
    <2>8. f = [pc |-> "role", kind |-> kind, who |-> p, admin |-> FALSE,
               sees |-> {}, rows |-> {}, could |-> {}, ruled |-> FALSE]
      BY <2>3, <2>7
    <2>9. QED
      BY <1>1, <2>4, <2>8, Zenon
  <1>3. VisitShape(c) /\ c.pc # "idle"
    BY <1>1 DEF VisitShape
  <1>4. PICK w : /\ w = Witness(c, orgAdmins, readers)
                 /\ VisitShape(w) /\ w.pc = c.pc /\ w.kind = c.kind /\ w.who = c.who /\ w.admin = c.admin
                 /\ w.sees = c.sees /\ w.rows = c.rows
                 /\ w.could = c.could \cup Readable(c.who, Rules(c.who, orgAdmins), readers, standing)
                 /\ (w.ruled <=> (c.ruled \/ Rules(c.who, orgAdmins))) /\ w.ruled \in BOOLEAN
    BY <1>3, WitnessFields
  <1>5. VisitOK(w, orgAdmins, readers, standing, wasShared)
    BY <1>1, <1>4 DEF VisitOK
  <1>6. visit' = [visit EXCEPT ![v] = w]
    BY <1>2, <1>4 DEF Arrive
  <1>7. \A copy \in answer'.copies : Shown(answer'.to, copy, answer'.wrote, wasShared)
    BY SilentShows DEF Arrive
  <1>8. QED
    BY <1>5, <1>6, <1>7, QuietMove DEF Arrive

LEMMA ReadRoleOK ==
  ASSUME SavedInv, NEW v \in Visits, ReadRole(v)
  PROVE  SavedInv'
  <1>1. PICK c : c = visit[v] /\ c.pc = "role"
    BY DEF ReadRole
  <1>2. VisitOK(c, orgAdmins, readers, standing, wasShared)
    BY <1>1 DEF SavedInv
  <1>3. c # IdleVisit
    BY <1>1 DEF IdleVisit
  <1>4. PICK b \in BOOLEAN : b = Rules(c.who, orgAdmins)
    BY Rules(c.who, orgAdmins) \in BOOLEAN DEF Rules
  <1>5. PICK d : d = [c EXCEPT !.pc = "projects"]
    OBVIOUS
  <1>6. PICK w : w = [d EXCEPT !.admin = b]
    OBVIOUS
  <1>7. visit' = [visit EXCEPT ![v] = w]
    BY <1>1, <1>4, <1>5, <1>6 DEF ReadRole
  <1>8. VisitShape(d) /\ d.pc = "projects" /\ d.kind = c.kind /\ d.who = c.who
        /\ d.sees = c.sees /\ d.could = c.could /\ d.ruled = c.ruled
    BY <1>2, <1>3, <1>5 DEF VisitOK, VisitShape
  <1>9. VisitShape(w) /\ w.pc = "projects" /\ w.kind = c.kind /\ w.who = c.who /\ w.admin = b
        /\ w.sees = c.sees /\ w.could = c.could /\ w.ruled = c.ruled
    BY <1>6, <1>8 DEF VisitShape
  <1>10. Rules(c.who, orgAdmins) => standing \subseteq c.could /\ c.ruled
    BY <1>2, <1>3 DEF VisitOK, Readable
  <1>11. VisitOK(w, orgAdmins, readers, standing, wasShared)
    BY <1>2, <1>3, <1>4, <1>9, <1>10 DEF VisitOK
  <1>12. \A copy \in answer'.copies : Shown(answer'.to, copy, answer'.wrote, wasShared)
    BY SilentShows DEF ReadRole
  <1>13. QED
    BY <1>7, <1>11, <1>12, QuietMove DEF ReadRole

LEMMA ViewerOK ==
  ASSUME SavedInv, NEW v \in Visits, Viewer(v)
  PROVE  SavedInv'
  <1>1. PICK c : c = visit[v] /\ c.pc = "projects"
    BY DEF Viewer
  <1>2. VisitOK(c, orgAdmins, readers, standing, wasShared)
    BY <1>1 DEF SavedInv
  <1>3. c # IdleVisit
    BY <1>1 DEF IdleVisit
  <1>4. PICK sees : sees = Readable(c.who, c.admin, readers, standing)
    OBVIOUS
  <1>5. PICK d : d = [c EXCEPT !.pc = "known"]
    OBVIOUS
  <1>6. PICK w : w = [d EXCEPT !.sees = sees]
    OBVIOUS
  <1>7. visit' = [visit EXCEPT ![v] = w]
    BY <1>1, <1>4, <1>5, <1>6 DEF Viewer, VisibleProjects, Readable
  <1>8. VisitShape(d) /\ d.pc = "known" /\ d.kind = c.kind /\ d.who = c.who /\ d.admin = c.admin
        /\ d.could = c.could /\ d.ruled = c.ruled
    BY <1>2, <1>3, <1>5 DEF VisitOK, VisitShape
  <1>9. VisitShape(w) /\ w.pc = "known" /\ w.kind = c.kind /\ w.who = c.who /\ w.admin = c.admin
        /\ w.sees = sees /\ w.could = c.could /\ w.ruled = c.ruled
    BY <1>6, <1>8 DEF VisitShape
  <1>10. sees \subseteq c.could
    BY <1>2, <1>3, <1>4 DEF VisitOK, Readable
  <1>11. VisitOK(w, orgAdmins, readers, standing, wasShared)
    BY <1>2, <1>3, <1>9, <1>10 DEF VisitOK
  <1>12. \A copy \in answer'.copies : Shown(answer'.to, copy, answer'.wrote, wasShared)
    BY SilentShows DEF Viewer
  <1>13. QED
    BY <1>7, <1>11, <1>12, QuietMove DEF Viewer

LEMMA DeclineOK ==
  ASSUME SavedInv, NEW v \in Visits, Decline(v)
  PROVE  SavedInv'
  <1>1. VisitOK(IdleVisit, orgAdmins, readers, standing, wasShared)
    BY DEF VisitOK
  <1>2. \A copy \in answer'.copies : Shown(answer'.to, copy, answer'.wrote, wasShared)
    BY SilentShows DEF Decline
  <1>3. visit' = [visit EXCEPT ![v] = IdleVisit]
    BY DEF Decline
  <1>4. QED
    BY <1>1, <1>2, <1>3, QuietMove DEF Decline

\* A request that knows its caller.
Knows(c) ==
    /\ VisitShape(c) /\ c.kind \in Kinds
    /\ (c.admin => c.ruled) /\ (c.admin => standing \subseteq c.could) /\ c.sees \subseteq c.could
    /\ c.admin \in BOOLEAN

LEMMA KnownOK ==
  ASSUME SavedInv, NEW v \in Visits, visit[v].pc \in {"known", "update", "delete"}
  PROVE  Knows(visit[v])
  <1>1. VisitOK(visit[v], orgAdmins, readers, standing, wasShared) /\ visit[v] # IdleVisit
    BY DEF SavedInv, IdleVisit
  <1>2. QED
    BY <1>1 DEF VisitOK, Knows

\* A request answers, and is over.
LEMMA RespondOK ==
  ASSUME SavedInv, UNCHANGED <<orgAdmins, readers, standing>>, wasShared \subseteq wasShared',
         saved' = [id \in Records |-> saved'[id]],
         \A id \in Records : RowOK(id, saved'[id], standing, wasShared'),
         NEW v \in Visits, NEW copies, NEW wrote, Respond(v, copies, wrote),
         \A copy \in copies : Shown(visit[v], copy, wrote, wasShared')
  PROVE  SavedInv'
  <1>1. VisitOK(IdleVisit, orgAdmins, readers, standing, wasShared')
    BY DEF VisitOK
  <1>2. visit' = [visit EXCEPT ![v] = IdleVisit]
    BY DEF Respond
  <1>3. answer'.to = visit[v] /\ answer'.copies = copies /\ answer'.wrote = wrote
    BY DEF Respond
  <1>4. \A copy \in answer'.copies : Shown(answer'.to, copy, answer'.wrote, wasShared')
    BY <1>3
  <1>5. QED
    BY <1>1, <1>2, <1>4, VisitMoves

\* Rows a request may be shown.
Readables(c, kind) ==
    {id \in Rows(kind) : /\ saved[id].vis = "private" => saved[id].by = c.who
                         /\ saved[id].pin \in c.could \cup {NoPin}}

LEMMA AnswerOK ==
  ASSUME SavedInv, NEW v \in Visits, NEW kind \in Kinds, NEW ids, ids \subseteq Readables(visit[v], kind),
         Answer(v, {Copy(id) : id \in ids})
  PROVE  SavedInv'
  <1>1. Respond(v, {Copy(id) : id \in ids}, FALSE) /\ UNCHANGED <<saved, orgVars, wasShared>>
    BY DEF Answer
  <1>2. ASSUME NEW id \in ids
        PROVE  Shown(visit[v], Copy(id), FALSE, wasShared)
    <2>1. id \in Records /\ saved[id].kind = kind /\ (saved[id].vis = "private" => saved[id].by = visit[v].who)
          /\ saved[id].pin \in visit[v].could \cup {NoPin}
      BY DEF Readables, Rows
    <2>2. RowOK(id, saved[id], standing, wasShared)
      BY <2>1 DEF SavedInv
    <2>3. saved[id].by = visit[v].who \/ id \in wasShared
      BY <2>1, <2>2 DEF RowOK
    <2>4. Copy(id).id = id /\ Copy(id).row = saved[id]
      BY DEF Copy
    <2>5. QED
      BY <2>1, <2>3, <2>4 DEF Shown
  <1>3. \A copy \in {Copy(id) : id \in ids} : Shown(visit[v], copy, FALSE, wasShared')
    BY <1>1, <1>2
  <1>4. saved' = [id \in Records |-> saved'[id]] /\ \A id \in Records : RowOK(id, saved'[id], standing, wasShared')
    BY <1>1 DEF SavedInv
  <1>5. UNCHANGED <<orgAdmins, readers, standing>> /\ wasShared \subseteq wasShared'
    BY <1>1 DEF orgVars
  <1>6. PICK copies : copies = {Copy(id) : id \in ids}
    OBVIOUS
  <1>7. QED
    BY <1>1, <1>3, <1>4, <1>5, <1>6, RespondOK

\* The access rules show nobody more.
LEMMA RulesOK ==
  ASSUME SavedInv, NEW c, Knows(c), NEW id \in Records
  PROVE  /\ saved[id].kind = "view" /\ CanSeeView(c, saved[id]) => id \in Readables(c, "view")
         /\ saved[id].kind = "dashboard" /\ CanSeeDashboard(c, saved[id]) => id \in Readables(c, "dashboard")
         /\ saved[id].kind = "link" /\ CanSeePermalink(c, saved[id]) => id \in Readables(c, "link")
         /\ saved[id].kind = "note" /\ CanSeeNote(c, saved[id]) => id \in Readables(c, "note")
  <1>1. RowOK(id, saved[id], standing, wasShared)
    BY DEF SavedInv
  <1>2. c.sees \subseteq c.could
    BY DEF Knows
  <1>3. QED
    BY <1>1, <1>2 DEF RowOK, Readables, Rows, CanSeeView, CanSeeDashboard, CanSeePermalink, CanSeeNote, Sees, Kinds

LEMMA QueriesOK ==
  ASSUME SavedInv, NEW v \in Visits,
         QueryViews(v) \/ QueryDashboards(v) \/ QueryPermalinks(v) \/ QueryNotes(v)
  PROVE  SavedInv'
  <1>1. Knows(visit[v])
    BY KnownOK DEF QueryViews, QueryDashboards, QueryPermalinks, QueryNotes, Asks
  <1>2. CASE QueryViews(v)
    <2>1. PICK ids : ids = VisibleViews(visit[v])
      OBVIOUS
    <2>2. ids \subseteq Readables(visit[v], "view")
      BY <1>1, <2>1, RulesOK DEF VisibleViews, SelectViewsByOrg, Rows
    <2>3. Answer(v, {Copy(id) : id \in ids})
      BY <1>2, <2>1 DEF QueryViews
    <2>4. QED
      BY <2>2, <2>3, AnswerOK DEF Kinds
  <1>3. CASE QueryDashboards(v)
    <2>1. PICK ids : ids = VisibleDashboards(visit[v])
      OBVIOUS
    <2>2. ids \subseteq Readables(visit[v], "dashboard")
      BY <1>1, <2>1, RulesOK DEF VisibleDashboards, SelectDashboardsByOrg, Rows
    <2>3. Answer(v, {Copy(id) : id \in ids})
      BY <1>3, <2>1 DEF QueryDashboards
    <2>4. QED
      BY <2>2, <2>3, AnswerOK DEF Kinds
  <1>4. CASE QueryPermalinks(v)
    <2>1. PICK ids : ids = VisiblePermalinks(visit[v])
      OBVIOUS
    <2>2. ids \subseteq Readables(visit[v], "link")
      BY <1>1, <2>1, RulesOK DEF VisiblePermalinks, SelectPermalinksByOrg, Rows
    <2>3. Answer(v, {Copy(id) : id \in ids})
      BY <1>4, <2>1 DEF QueryPermalinks
    <2>4. QED
      BY <2>2, <2>3, AnswerOK DEF Kinds
  <1>5. CASE QueryNotes(v)
    <2>1. PICK ps \in NoteFilters(visit[v]) : Answer(v, {Copy(id) : id \in SelectNotes(ps)})
      BY <1>5 DEF QueryNotes
    <2>2. PICK ids : ids = SelectNotes(ps)
      OBVIOUS
    <2>3. ps \subseteq visit[v].sees
      BY DEF NoteFilters
    <2>4. ids \subseteq Readables(visit[v], "note")
      BY <1>1, <2>2, <2>3, RulesOK DEF SelectNotes, Rows, CanSeeNote
    <2>5. Answer(v, {Copy(id) : id \in ids})
      BY <2>1, <2>2
    <2>6. QED
      BY <2>4, <2>5, AnswerOK DEF Kinds
  <1>6. QED
    BY <1>2, <1>3, <1>4, <1>5

LEMMA QueryByIDShows ==
  ASSUME SavedInv, NEW v \in Visits, NEW id \in Records,
         QueryViewByID(v, id) \/ QueryDashboardByID(v, id) \/ QueryPermalink(v, id)
  PROVE  SavedInv'
  <1>1. Knows(visit[v])
    BY KnownOK DEF QueryViewByID, QueryDashboardByID, QueryPermalink, Asks
  <1>2. PICK ids : ids = {id}
    OBVIOUS
  <1>3. {Copy(id)} = {Copy(i) : i \in ids} /\ Answer(v, {Copy(id)})
    BY <1>2 DEF QueryViewByID, QueryDashboardByID, QueryPermalink
  <1>4. Answer(v, {Copy(i) : i \in ids})
    BY <1>3
  <1>5. PICK kind \in Kinds : id \in Readables(visit[v], kind)
    BY <1>1, RulesOK DEF QueryViewByID, QueryDashboardByID, QueryPermalink, Kinds,
       SelectViewByID, SelectDashboardByID, SelectPermalinkBySlug, Rows
  <1>6. ids \subseteq Readables(visit[v], kind)
    BY <1>2, <1>5
  <1>7. QED
    BY <1>4, <1>6, AnswerOK

\* The rows a handler loads, whoever may modify them.
LEMMA LoadOK ==
  ASSUME SavedInv, NEW v \in Visits, NEW id \in Records, NEW next \in {"update", "delete"}, Load(v, id, next),
         Knows(visit[v]), saved[id].kind = visit[v].kind,
         CanModifyNote(visit[v], saved[id]), visit[v].pc = "known",
         id \in Readables(visit[v], visit[v].kind) \/ visit[v].kind = "link"
  PROVE  SavedInv'
  <1>1. PICK c : c = visit[v]
    OBVIOUS
  <1>2. VisitOK(c, orgAdmins, readers, standing, wasShared) /\ c # IdleVisit
    BY <1>1 DEF SavedInv, IdleVisit
  <1>3. PICK copy : copy = Copy(id)
    OBVIOUS
  <1>4. copy.id = id /\ copy.row = saved[id]
    BY <1>3 DEF Copy
  <1>5. PICK d : d = [c EXCEPT !.pc = next]
    OBVIOUS
  <1>6. PICK w : w = [d EXCEPT !.rows = {copy}]
    OBVIOUS
  <1>7. visit' = [visit EXCEPT ![v] = w]
    BY <1>1, <1>3, <1>5, <1>6 DEF Load
  <1>8. VisitShape(d) /\ d.pc = next /\ d.kind = c.kind /\ d.who = c.who /\ d.admin = c.admin
        /\ d.sees = c.sees /\ d.could = c.could /\ d.ruled = c.ruled
    BY <1>2, <1>5 DEF VisitOK, VisitShape
  <1>9. VisitShape(w) /\ w.pc = next /\ w.kind = c.kind /\ w.who = c.who /\ w.admin = c.admin
        /\ w.sees = c.sees /\ w.could = c.could /\ w.ruled = c.ruled /\ w.rows = {copy}
    BY <1>6, <1>8 DEF VisitShape
  <1>10. RowOK(id, saved[id], standing, wasShared)
    BY DEF SavedInv
  <1>11. saved[id].by = c.who \/ c.ruled
    BY <1>1 DEF CanModifyNote, Knows
  <1>12. saved[id].by = c.who \/ id \in wasShared
    BY <1>1, <1>10 DEF RowOK, Readables, Rows, Knows
  <1>13. \/ saved[id].pin \in c.could \cup {NoPin}
         \/ c.kind = "link" /\ saved[id].by = c.who
    <2>1. CASE id \in Readables(c, c.kind)
      BY <2>1 DEF Readables
    <2>2. CASE c.kind = "link" /\ c.admin
      BY <1>1, <1>10, <2>2 DEF RowOK, Knows
    <2>3. QED
      BY <1>1, <2>1, <2>2 DEF CanModifyNote
  <1>14. HeldOK(w, copy, wasShared)
    BY <1>1, <1>4, <1>9, <1>10, <1>11, <1>12, <1>13 DEF HeldOK, RowOK
  <1>15. VisitOK(w, orgAdmins, readers, standing, wasShared)
    BY <1>2, <1>9, <1>14 DEF VisitOK
  <1>16. \A h \in answer'.copies : Shown(answer'.to, h, answer'.wrote, wasShared)
    BY SilentShows DEF Load
  <1>17. QED
    BY <1>7, <1>15, <1>16, QuietMove DEF Load

LEMMA LoadsOK ==
  ASSUME SavedInv, NEW v \in Visits, NEW id \in Records, NEW next \in {"update", "delete"},
         LoadView(v, id, next) \/ LoadDashboard(v, id, next) \/ LoadNote(v, id, next) \/ LoadPermalink(v, id)
  PROVE  SavedInv'
  <1>1. visit[v].pc = "known"
    BY DEF LoadView, LoadDashboard, LoadNote, LoadPermalink, Asks
  <1>2. Knows(visit[v])
    BY <1>1, KnownOK
  <1>3. saved[id].kind = visit[v].kind /\ (id \in Readables(visit[v], visit[v].kind) \/ visit[v].kind = "link")
    BY <1>2, RulesOK DEF LoadView, LoadDashboard, LoadNote, LoadPermalink, Asks, SelectViewByID, SelectDashboardByID,
       SelectNoteByID, SelectPermalinkBySlug, Rows
  <1>4. CanModifyNote(visit[v], saved[id])
    BY DEF LoadView, LoadDashboard, LoadNote, LoadPermalink, CanModify, CanModifyNote
  <1>5. PICK n \in {"update", "delete"} : Load(v, id, n)
    BY DEF LoadView, LoadDashboard, LoadNote, LoadPermalink
  <1>6. QED
    BY <1>1, <1>2, <1>3, <1>4, <1>5, LoadOK

\* A new row is its caller's own, and pinned to what he sees.
LEMMA CreateOK ==
  ASSUME SavedInv, NEW v \in Visits, NEW id \in Records, NEW row, Insert(id, row), Finish(v, id, row),
         Knows(visit[v]), RowShape(row), row.kind \in Kinds, row.by = visit[v].who, row.pin \in visit[v].sees \cup {NoPin},
         row.vis \in {"private", "org"}, row.kind \in {"link", "note"} => row.vis = "org",
         row.kind = "dashboard" => row.pin = NoPin
  PROVE  SavedInv'
  <1>1. PICK ws : ws = wasShared' /\ wasShared \subseteq ws /\ (row.vis = "org" => id \in ws)
    BY DEF Insert
  <1>2. saved' = [saved EXCEPT ![id] = row] /\ row.pin \in standing \cup {NoPin} /\ UNCHANGED <<orgAdmins, readers, standing>>
    BY DEF Insert, Referenced, orgVars
  <1>3. saved' = [k \in Records |-> saved'[k]] /\ \A k \in Records : saved'[k] = IF k = id THEN row ELSE saved[k]
    BY <1>2 DEF SavedInv
  <1>4. RowOK(id, row, standing, ws)
    BY <1>1, <1>2 DEF RowOK
  <1>5. \A k \in Records : RowOK(k, saved[k], standing, ws)
    BY <1>1, RowLater DEF SavedInv
  <1>6. \A k \in Records : RowOK(k, saved'[k], standing, wasShared')
    BY <1>1, <1>3, <1>4, <1>5
  <1>7. PICK copy : copy = [id |-> id, row |-> row]
    OBVIOUS
  <1>8. Shown(visit[v], copy, TRUE, wasShared')
    BY <1>7 DEF Shown, Knows
  <1>9. PICK copies : copies = {copy}
    OBVIOUS
  <1>10. Respond(v, copies, TRUE) /\ \A h \in copies : Shown(visit[v], h, TRUE, wasShared')
    BY <1>7, <1>8, <1>9 DEF Finish
  <1>11. wasShared \subseteq wasShared'
    BY <1>1
  <1>12. QED
    BY <1>2, <1>3, <1>6, <1>10, <1>11, RespondOK

LEMMA CreatesOK ==
  ASSUME SavedInv, NEW v \in Visits, NEW id \in Records,
         CreateView(v, id) \/ CreateDashboard(v, id) \/ CreatePermalink(v, id) \/ CreateNote(v, id)
  PROVE  SavedInv'
  <1>1. Knows(visit[v])
    BY KnownOK DEF CreateView, CreateDashboard, CreatePermalink, CreateNote, Asks
  <1>2. PICK row : /\ row \in NewViews(visit[v]) \cup NewDashboards(visit[v]) \cup NewPermalinks(visit[v]) \cup NewNotes(visit[v])
                   /\ Insert(id, row) /\ Finish(v, id, row)
    BY DEF CreateView, CreateDashboard, CreatePermalink, CreateNote, InsertView, InsertDashboard, InsertPermalink, InsertNote
  <1>3. row.kind \in Kinds /\ row.by = visit[v].who /\ row.pin \in visit[v].sees \cup {NoPin}
        /\ row.vis \in {"private", "org"} /\ (row.kind \in {"link", "note"} => row.vis = "org")
        /\ (row.kind = "dashboard" => row.pin = NoPin)
    BY <1>2 DEF NewViews, NewDashboards, NewPermalinks, NewNotes, SavedView, Dashboard, Permalink, Annotation,
       ParsePin, LinkTarget, ParseVisibility, Kinds
  <1>4. RowShape(row)
    BY <1>2 DEF NewViews, NewDashboards, NewPermalinks, NewNotes, SavedView, Dashboard, Permalink, Annotation, RowShape
  <1>5. QED
    BY <1>1, <1>2, <1>3, <1>4, CreateOK

LEMMA HeldIsOK ==
  ASSUME SavedInv, NEW v \in Visits, visit[v].pc \in {"update", "delete"}, NEW copy \in visit[v].rows
  PROVE  HeldOK(visit[v], copy, wasShared)
  <1>1. VisitOK(visit[v], orgAdmins, readers, standing, wasShared) /\ visit[v] # IdleVisit
    BY DEF SavedInv, IdleVisit
  <1>2. QED
    BY <1>1 DEF VisitOK

\* A row written back has the fields the handler read, or such as its caller may choose.
LEMMA FinishOK ==
  ASSUME SavedInv, NEW v \in Visits, visit[v].pc \in {"update", "delete"}, NEW copy \in visit[v].rows, NEW row,
         Knows(visit[v]), RowShape(row), row.kind = copy.row.kind, row.by = copy.row.by,
         row.pin \in {copy.row.pin, NoPin} \cup visit[v].sees, row.vis \in {"private", "org"},
         row.kind = "dashboard" => row.pin = copy.row.pin,
         row.kind \in {"link", "note"} => row.vis = copy.row.vis,
         Finish(v, copy.id, row), wasShared \subseteq wasShared',
         UNCHANGED <<orgAdmins, readers, standing>>,
         saved' = [k \in Records |-> saved'[k]], \A k \in Records : RowOK(k, saved'[k], standing, wasShared')
  PROVE  SavedInv'
  <1>1. PICK c, ws : c = visit[v] /\ ws = wasShared'
    OBVIOUS
  <1>2. HeldOK(c, copy, wasShared)
    BY <1>1, HeldIsOK
  <1>3. PICK h : h = [id |-> copy.id, row |-> row]
    OBVIOUS
  <1>4. Shown(c, h, TRUE, ws)
    <2>1. row.by = c.who \/ copy.id \in ws
      BY <1>1, <1>2 DEF HeldOK
    <2>2. row.by = c.who \/ c.ruled
      BY <1>2 DEF HeldOK
    <2>3. \/ row.pin \in c.could \cup {NoPin}
          \/ row.kind = "link" /\ row.by = c.who
      BY <1>1, <1>2 DEF HeldOK, Knows
    <2>4. h.id = copy.id /\ h.row = row
      BY <1>3
    <2>5. QED
      BY <2>1, <2>2, <2>3, <2>4 DEF Shown
  <1>5. PICK copies : copies = {h}
    OBVIOUS
  <1>6. Respond(v, copies, TRUE) /\ \A x \in copies : Shown(visit[v], x, TRUE, wasShared')
    BY <1>1, <1>3, <1>4, <1>5 DEF Finish
  <1>7. QED
    BY <1>6, RespondOK

\* An update of a view or a dashboard writes its whole copy, of a row that is still there.
LEMMA OverwriteOK ==
  ASSUME SavedInv, NEW id, NEW row, Overwrite(id, row), RowShape(row), row.kind \in {"view", "dashboard"},
         row.vis \in {"private", "org"}, row.kind = "dashboard" => row.pin = NoPin
  PROVE  /\ wasShared \subseteq wasShared' /\ UNCHANGED <<orgAdmins, readers, standing>>
         /\ saved' = [k \in Records |-> saved'[k]] /\ \A k \in Records : RowOK(k, saved'[k], standing, wasShared')
  <1>1. UNCHANGED <<orgAdmins, readers, standing>>
    BY DEF Overwrite, orgVars
  <1>2. CASE UNCHANGED <<saved, wasShared>>
    BY <1>1, <1>2 DEF SavedInv
  <1>3. CASE /\ Referenced(row.pin)
             /\ saved' = [saved EXCEPT ![id] = row]
             /\ wasShared' = IF row.vis = "org" THEN wasShared \cup {id} ELSE wasShared
    <2>1. PICK ws : ws = wasShared' /\ wasShared \subseteq ws /\ (row.vis = "org" => id \in ws)
      BY <1>3
    <2>2. saved' = [k \in Records |-> saved'[k]] /\ \A k \in Records : saved'[k] = IF k = id THEN row ELSE saved[k]
      BY <1>3 DEF SavedInv
    <2>3. RowOK(id, row, standing, ws)
      BY <1>3, <2>1 DEF RowOK, Referenced, Kinds
    <2>4. \A k \in Records : RowOK(k, saved[k], standing, ws)
      BY <2>1, RowLater DEF SavedInv
    <2>5. \A k \in Records : RowOK(k, saved'[k], standing, wasShared')
      BY <2>1, <2>2, <2>3, <2>4
    <2>6. QED
      BY <1>1, <2>1, <2>2, <2>5
  <1>4. QED
    BY <1>2, <1>3 DEF Overwrite

LEMMA UpdateViewOK ==
  ASSUME SavedInv, NEW v \in Visits, UpdateView(v)
  PROVE  SavedInv'
  <1>1. visit[v].pc = "update" /\ visit[v].kind = "view" /\ Knows(visit[v])
    BY KnownOK DEF UpdateView, Held
  <1>2. PICK copy \in visit[v].rows : \E row \in ChangedViews(visit[v], copy.row) :
                Overwrite(copy.id, row) /\ Finish(v, copy.id, row)
    BY DEF UpdateView, WriteView
  <1>3. PICK old : old = copy.row
    OBVIOUS
  <1>4. PICK row \in ChangedViews(visit[v], old) : Overwrite(copy.id, row) /\ Finish(v, copy.id, row)
    BY <1>2, <1>3
  <1>5. PICK pin \in {old.pin} \cup ParsePin(visit[v]), vis \in ParseVisibility : row = SavedView(old.by, pin, vis)
    BY <1>4 DEF ChangedViews
  <1>6. HeldOK(visit[v], copy, wasShared)
    BY <1>1, HeldIsOK
  <1>7. old.kind = "view"
    BY <1>1, <1>3, <1>6 DEF HeldOK
  <1>8. RowShape(row) /\ row.kind = "view" /\ row.by = old.by /\ row.pin = pin /\ row.vis = vis
    BY <1>5 DEF RowShape, SavedView
  <1>9. /\ wasShared \subseteq wasShared' /\ UNCHANGED <<orgAdmins, readers, standing>>
         /\ saved' = [k \in Records |-> saved'[k]] /\ \A k \in Records : RowOK(k, saved'[k], standing, wasShared')
    BY <1>4, <1>5, <1>8, "private" \in {"private", "org"}, OverwriteOK DEF ParseVisibility
  <1>10. pin \in {copy.row.pin, NoPin} \cup visit[v].sees /\ vis \in {"private", "org"}
    BY <1>3, <1>5 DEF ParsePin, ParseVisibility
  <1>11. QED
    BY <1>1, <1>3, <1>4, <1>7, <1>8, <1>9, <1>10, FinishOK

LEMMA UpdateDashboardOK ==
  ASSUME SavedInv, NEW v \in Visits, UpdateDashboard(v)
  PROVE  SavedInv'
  <1>1. visit[v].pc = "update" /\ visit[v].kind = "dashboard" /\ Knows(visit[v])
    BY KnownOK DEF UpdateDashboard, Held
  <1>2. PICK copy \in visit[v].rows : \E row \in ChangedDashboards(copy.row) :
                Overwrite(copy.id, row) /\ Finish(v, copy.id, row)
    BY DEF UpdateDashboard, WriteDashboard
  <1>3. PICK old : old = copy.row
    OBVIOUS
  <1>4. PICK row \in ChangedDashboards(old) : Overwrite(copy.id, row) /\ Finish(v, copy.id, row)
    BY <1>2, <1>3
  <1>5. PICK vis \in {"private", "org"} : row = [old EXCEPT !.vis = vis]
    BY <1>4 DEF ChangedDashboards, ParseVisibility
  <1>6. HeldOK(visit[v], copy, wasShared)
    BY <1>1, HeldIsOK
  <1>7. RowShape(old) /\ old.kind = "dashboard" /\ old.pin = NoPin
    BY <1>1, <1>3, <1>6 DEF HeldOK
  <1>8. RowShape(row) /\ row.kind = "dashboard" /\ row.by = old.by /\ row.pin = NoPin /\ row.vis = vis
    BY <1>5, <1>7 DEF RowShape
  <1>9. /\ wasShared \subseteq wasShared' /\ UNCHANGED <<orgAdmins, readers, standing>>
        /\ saved' = [k \in Records |-> saved'[k]] /\ \A k \in Records : RowOK(k, saved'[k], standing, wasShared')
    BY <1>4, <1>5, <1>8, OverwriteOK
  <1>10. QED
    BY <1>1, <1>3, <1>4, <1>5, <1>7, <1>8, <1>9, FinishOK

LEMMA UnsavedFields ==
  ASSUME NEW state
  PROVE  \E g : g = Unsaved(state) /\ RowShape(g) /\ g.kind = state /\ g.pin = NoPin /\ g.vis = "org"
  <1>1. PICK p : p = (CHOOSE x \in People : TRUE)
    OBVIOUS
  <1>2. PICK g : g = [kind |-> state, by |-> p, pin |-> NoPin, vis |-> "org"]
    OBVIOUS
  <1>3. g = Unsaved(state)
    BY <1>1, <1>2 DEF Unsaved
  <1>4. RowShape(g) /\ g.kind = state /\ g.pin = NoPin /\ g.vis = "org"
    BY <1>2 DEF RowShape
  <1>5. QED
    BY <1>3, <1>4

\* A deleted row, and an annotation whose text alone is written.
LEMMA RemovesOK ==
  ASSUME SavedInv, NEW v \in Visits,
         UpdateNote(v) \/ DeleteView(v) \/ DeleteDashboard(v) \/ DeletePermalink(v) \/ DeleteNote(v)
  PROVE  SavedInv'
  <1>1. visit[v].pc \in {"update", "delete"}
    BY DEF UpdateNote, DeleteView, DeleteDashboard, DeletePermalink, DeleteNote, Held
  <1>2. Knows(visit[v])
    BY <1>1, KnownOK
  <1>3. PICK copy \in visit[v].rows : /\ Finish(v, copy.id, copy.row)
                                     /\ (RemoveRecord(copy.id) \/ UNCHANGED <<saved, orgVars, wasShared>>)
    BY DEF UpdateNote, DeleteView, DeleteDashboard, DeletePermalink, DeleteNote, RemoveView, RemoveDashboard,
       RemovePermalink, RemoveNote, WriteNote
  <1>4. PICK row : row = copy.row
    OBVIOUS
  <1>5. HeldOK(visit[v], copy, wasShared)
    BY <1>1, HeldIsOK
  <1>6. RowShape(row) /\ row.vis \in {"private", "org"}
    BY <1>4, <1>5 DEF HeldOK
  <1>7. wasShared \subseteq wasShared' /\ UNCHANGED <<wasShared, orgAdmins, readers, standing>>
    BY <1>3 DEF RemoveRecord, orgVars
  <1>8. PICK gone : gone = Unsaved("gone") /\ RowShape(gone) /\ gone.kind = "gone" /\ gone.pin = NoPin /\ gone.vis = "org"
    BY UnsavedFields
  <1>9. \A k \in Records : saved'[k] = saved[k] \/ saved'[k] = gone
    BY <1>3, <1>8 DEF RemoveRecord, SavedInv
  <1>10. \A k \in Records : RowOK(k, gone, standing, wasShared)
    BY <1>8 DEF RowOK, Kinds
  <1>11. \A k \in Records : RowOK(k, saved'[k], standing, wasShared')
    BY <1>7, <1>9, <1>10 DEF SavedInv
  <1>12. saved' = [k \in Records |-> saved'[k]]
    BY <1>3 DEF RemoveRecord, SavedInv
  <1>13. QED
    BY <1>1, <1>2, <1>3, <1>4, <1>6, <1>7, <1>11, <1>12, FinishOK

LEMMA ChangeOK ==
  ASSUME SavedInv, Change
  PROVE  SavedInv'
  <1>1. answer' = Silent
    BY DEF Change, ChangeRole, ChangeReader, DropProject
  <1>2. \A copy \in answer'.copies : Shown(answer'.to, copy, answer'.wrote, wasShared')
    BY <1>1, SilentShows
  <1>3. CASE \E p \in People : ChangeRole(p) \/ \E x \in OrgProjects : ChangeReader(p, x)
    <2>1. PICK admins, pairs : admins = orgAdmins' /\ pairs = readers'
      OBVIOUS
    <2>2. visit' = [v \in Visits |-> Witness(visit[v], admins, pairs)] /\ UNCHANGED <<saved, standing, wasShared>>
      BY <1>3, <2>1 DEF ChangeRole, ChangeReader
    <2>3. \A v \in Visits : VisitOK(visit[v], orgAdmins, readers, standing, wasShared)
      BY DEF SavedInv
    <2>4. \A v \in Visits : VisitOK(Witness(visit[v], admins, pairs), admins, pairs, standing, wasShared)
      BY <2>3, WitnessOK
    <2>5. \A v \in Visits : VisitOK(visit'[v], orgAdmins', readers', standing', wasShared')
      BY <2>1, <2>2, <2>4
    <2>6. visit' = [v \in Visits |-> visit'[v]]
      BY <2>2
    <2>7. QED
      BY <1>2, <2>2, <2>5, <2>6 DEF SavedInv
  <1>4. ASSUME NEW x \in OrgProjects, DropProject(x)
        PROVE  SavedInv'
    <2>1. PICK st : st = standing' /\ st = standing \ {x}
      BY <1>4 DEF DropProject
    <2>2. UNCHANGED <<orgAdmins, readers, visit, wasShared>>
      BY <1>4 DEF DropProject
    <2>3. \A v \in Visits : VisitOK(visit[v], orgAdmins, readers, st, wasShared)
      BY <2>1, VisitLater DEF SavedInv
    <2>4. PICK gone : gone = Unsaved("gone") /\ RowShape(gone) /\ gone.kind = "gone" /\ gone.pin = NoPin /\ gone.vis = "org"
      BY UnsavedFields
    <2>5. saved' = [id \in Records |-> IF saved[id].pin = x THEN gone ELSE saved[id]]
      BY <1>4, <2>4 DEF DropProject
    <2>6. ASSUME NEW id \in Records
          PROVE  RowOK(id, saved'[id], st, wasShared)
      <3>1. RowOK(id, saved[id], standing, wasShared)
        BY DEF SavedInv
      <3>2. CASE saved[id].pin = x
        <4>1. RowOK(id, gone, st, wasShared)
          BY <2>4 DEF RowOK, Kinds
        <4>2. QED
          BY <2>5, <3>2, <4>1
      <3>3. CASE saved[id].pin # x
        <4>1. RowOK(id, saved[id], st, wasShared)
          BY <2>1, <3>1, <3>3 DEF RowOK
        <4>2. QED
          BY <2>5, <3>3, <4>1
      <3>4. QED
        BY <3>2, <3>3
    <2>7. QED
      BY <1>2, <2>1, <2>2, <2>3, <2>5, <2>6 DEF SavedInv
  <1>5. QED
    BY <1>3, <1>4 DEF Change

LEMMA SavedNextOK == SavedInv /\ [SavedRecordsNext]_savedVars => SavedInv'
  <1> SUFFICES ASSUME SavedInv, [SavedRecordsNext]_savedVars PROVE SavedInv'
    OBVIOUS
  <1>1. ASSUME NEW v \in Visits, ViewRequest(v)
        PROVE  SavedInv'
    <2>1. CASE \E p \in People : OrgAndViewer(v, p)
      BY <2>1, ArriveOK DEF OrgAndViewer, Kinds
    <2>2. CASE QueryViews(v) \/ QueryDashboards(v) \/ QueryPermalinks(v)
      BY <2>2, QueriesOK
    <2>3. ASSUME NEW id \in Records, CreateView(v, id) \/ CreateDashboard(v, id) \/ CreatePermalink(v, id)
          PROVE  SavedInv'
      BY <2>3, CreatesOK
    <2>4. ASSUME NEW id \in Records, QueryViewByID(v, id) \/ QueryDashboardByID(v, id) \/ QueryPermalink(v, id)
          PROVE  SavedInv'
      BY <2>4, QueryByIDShows
    <2>5. ASSUME NEW id \in Records, LoadPermalink(v, id)
          PROVE  SavedInv'
      <3>1. PICK next \in {"update", "delete"} : TRUE
        OBVIOUS
      <3>2. QED
        BY <2>5, <3>1, LoadsOK
    <2>6. ASSUME NEW id \in Records, NEW next \in {"update", "delete"}, LoadView(v, id, next) \/ LoadDashboard(v, id, next)
          PROVE  SavedInv'
      BY <2>6, LoadsOK
    <2>7. CASE UpdateView(v) \/ UpdateDashboard(v)
      BY <2>7, UpdateViewOK, UpdateDashboardOK
    <2>8. CASE DeleteView(v) \/ DeleteDashboard(v) \/ DeletePermalink(v)
      BY <2>8, RemovesOK
    <2>9. QED
      BY <1>1, <2>1, <2>2, <2>3, <2>4, <2>5, <2>6, <2>7, <2>8 DEF ViewRequest
  <1>2. ASSUME NEW v \in Visits, NoteRequest(v)
        PROVE  SavedInv'
    <2>1. CASE \E p \in People : Resolve(v, p)
      BY <2>1, ArriveOK DEF Resolve, Kinds
    <2>2. CASE QueryNotes(v)
      BY <2>2, QueriesOK
    <2>3. ASSUME NEW id \in Records, CreateNote(v, id)
          PROVE  SavedInv'
      BY <2>3, CreatesOK
    <2>4. ASSUME NEW id \in Records, NEW next \in {"update", "delete"}, LoadNote(v, id, next)
          PROVE  SavedInv'
      BY <2>4, LoadsOK
    <2>5. CASE UpdateNote(v) \/ DeleteNote(v)
      BY <2>5, RemovesOK
    <2>6. QED
      BY <1>2, <2>1, <2>2, <2>3, <2>4, <2>5 DEF NoteRequest
  <1>3. CASE \E v \in Visits : ReadRole(v) \/ Viewer(v) \/ Decline(v)
    BY <1>3, ReadRoleOK, ViewerOK, DeclineOK
  <1>4. CASE UNCHANGED savedVars
    BY <1>4 DEF savedVars, orgVars, SavedInv
  <1>5. QED
    BY <1>1, <1>2, <1>3, <1>4, ChangeOK DEF SavedRecordsNext

\* However roles, access and records change while requests run, an answer shows its caller's
\* own records and those the organization shared, of projects he could read meanwhile.
THEOREM RecordsStayWithReaders == SavedRecordsSpec => []RecordsReachTheirReaders
  <1>1. SavedRecordsInit => SavedInv
    <2> SUFFICES ASSUME SavedRecordsInit PROVE SavedInv
      OBVIOUS
    <2>1. PICK free : free = Unsaved("free") /\ RowShape(free) /\ free.kind = "free" /\ free.pin = NoPin /\ free.vis = "org"
      BY UnsavedFields
    <2>2. saved = [id \in Records |-> free] /\ visit = [v \in Visits |-> IdleVisit] /\ answer = Silent
      BY <2>1 DEF SavedRecordsInit
    <2>3. \A id \in Records : RowOK(id, free, standing, wasShared)
      BY <2>1 DEF RowOK, Kinds
    <2>4. QED
      BY <2>2, <2>3 DEF SavedInv, VisitOK, Silent
  <1>2. SavedInv => RecordsReachTheirReaders
    BY DEF SavedInv, Shown, RecordsReachTheirReaders
  <1>3. QED
    BY <1>1, <1>2, SavedNextOK, PTL DEF SavedRecordsSpec
----------------------------------------------------------------------------
(* The live tail: a subscriber that keeps up misses nothing, for any number of *)
(* connections, projects and ingest requests and any buffer.                   *)

\* What the pipeline of a connection is made of.
SeqsOK ==
    /\ queue \in [Conns -> Seq(Frame)] /\ held \in [Conns -> Seq(Frame)]
    /\ written \in [Conns -> Seq(Frame)]
    /\ ingest \in [Ingesters -> [batch: 0 .. MaxBatches, todo: SUBSET TailProjects, at: TailProjects,
                                 states: SUBSET Conns]]
    /\ \A g \in Ingesters : Idle(g) \/ ingest[g].batch \in 1 .. MaxBatches
    /\ rooms \in [TailProjects -> SUBSET Conns] /\ project \in [Conns -> TailProjects]
    /\ owed \in [Conns -> SUBSET Frame]
    /\ done \in [Conns -> BOOLEAN] /\ saturated \in [Conns -> BOOLEAN]
    /\ writer \in [Conns -> {"none", "select", "writing", "returning", "exited"}]
    /\ handler = [c \in Conns |-> handler[c]]

\* The writer starts with the subscription, and holds a frame only while it writes it.
HandsEmpty ==
    \A c \in Conns : /\ writer[c] # "writing" => held[c] = <<>>
                     /\ handler[c] \in {"none", "upgraded"} => writer[c] = "none"

\* A frame a broadcast has still to give a subscriber.
Coming(c, f) == c \in ingest[f.from].states /\ FrameOf(f.from, ingest[f.from].at) = f

\* What has been written, is being written, or is queued.
Sent(w, h, q) == ToSet(w) \cup ToSet(h) \cup ToSet(q)

\* Whoever is neither stopped nor saturated gets every frame he is owed.
Reaches(c, f) == f \in Sent(written[c], held[c], queue[c]) \/ Coming(c, f)

Served(c) == done[c] \/ saturated[c] \/ \A f \in owed[c] : Reaches(c, f)

\* The inductive invariant.
TailInv == SeqsOK /\ HandsEmpty /\ \A c \in Conns : Served(c)
-----------------------------------------------------------------------------
(* Sequences as sets. *)

LEMMA SetOfConcat ==
  ASSUME NEW S, NEW a \in Seq(S), NEW b \in Seq(S)
  PROVE  ToSet(a \o b) = ToSet(a) \cup ToSet(b)
  <1>1. DOMAIN a = 1 .. Len(a) /\ DOMAIN b = 1 .. Len(b) /\ Len(a) \in Nat /\ Len(b) \in Nat
    OBVIOUS
  <1>2. a \o b \in Seq(S) /\ Len(a \o b) = Len(a) + Len(b)
    OBVIOUS
  <1>3. DOMAIN (a \o b) = 1 .. Len(a) + Len(b)
    BY <1>2
  <1>4. \A i \in 1 .. Len(a) + Len(b) : (a \o b)[i] = IF i <= Len(a) THEN a[i] ELSE b[i - Len(a)]
    BY <1>1
  <1>5. ASSUME NEW x \in ToSet(a \o b) PROVE x \in ToSet(a) \cup ToSet(b)
    <2>1. PICK i \in 1 .. Len(a) + Len(b) : x = (a \o b)[i]
      BY <1>3 DEF ToSet
    <2>2. CASE i <= Len(a)
      BY <1>1, <1>4, <2>1, <2>2 DEF ToSet
    <2>3. CASE i > Len(a)
      <3>1. i - Len(a) \in 1 .. Len(b) /\ x = b[i - Len(a)]
        BY <1>1, <1>4, <2>1, <2>3
      <3>2. QED
        BY <1>1, <3>1 DEF ToSet
    <2>4. QED
      BY <1>1, <2>2, <2>3
  <1>6. ASSUME NEW x \in ToSet(a) PROVE x \in ToSet(a \o b)
    <2>1. PICK i \in 1 .. Len(a) : x = a[i]
      BY <1>1 DEF ToSet
    <2>2. i \in 1 .. Len(a) + Len(b) /\ (a \o b)[i] = x
      BY <1>1, <1>4, <2>1
    <2>3. QED
      BY <1>3, <2>2 DEF ToSet
  <1>7. ASSUME NEW x \in ToSet(b) PROVE x \in ToSet(a \o b)
    <2>1. PICK i \in 1 .. Len(b) : x = b[i]
      BY <1>1 DEF ToSet
    <2>2. i + Len(a) \in 1 .. Len(a) + Len(b) /\ (a \o b)[i + Len(a)] = x
      BY <1>1, <1>4, <2>1
    <2>3. QED
      BY <1>3, <2>2 DEF ToSet
  <1>8. QED
    BY <1>5, <1>6, <1>7

LEMMA SetOfAppend ==
  ASSUME NEW S, NEW a \in Seq(S), NEW x \in S
  PROVE  ToSet(a) \cup {x} = ToSet(Append(a, x)) /\ Append(a, x) \in Seq(S)
  <1>1. PICK b : b = Append(a, x)
    OBVIOUS
  <1>2. b \in Seq(S) /\ Len(b) = Len(a) + 1 /\ Len(a) \in Nat
        /\ (\A i \in 1 .. Len(a) : b[i] = a[i]) /\ b[Len(a) + 1] = x
    BY <1>1, AppendProperties
  <1>3. DOMAIN a = 1 .. Len(a) /\ DOMAIN b = 1 .. Len(a) + 1
    BY <1>2
  <1>4. ToSet(b) \subseteq ToSet(a) \cup {x}
    BY <1>2, <1>3 DEF ToSet
  <1>5. ToSet(a) \cup {x} \subseteq ToSet(b)
    BY <1>2, <1>3 DEF ToSet
  <1>6. QED
    BY <1>1, <1>2, <1>4, <1>5

LEMMA SetOfTail ==
  ASSUME NEW S, NEW a \in Seq(S), a # <<>>
  PROVE  ToSet(a) \subseteq {Head(a)} \cup ToSet(Tail(a)) /\ Tail(a) \in Seq(S) /\ Head(a) \in S
  <1>1. PICK b : b = Tail(a)
    OBVIOUS
  <1>2. b \in Seq(S) /\ Head(a) \in S /\ Len(b) = Len(a) - 1 /\ Len(a) \in Nat
        /\ \A i \in 1 .. Len(b) : b[i] = a[i + 1]
    BY <1>1, HeadTailProperties
  <1>3. DOMAIN a = 1 .. Len(a) /\ DOMAIN b = 1 .. Len(b) /\ Head(a) = a[1]
    BY <1>2
  <1>4. ASSUME NEW x \in ToSet(a) PROVE x \in {Head(a)} \cup ToSet(b)
    <2>1. PICK i \in 1 .. Len(a) : x = a[i]
      BY <1>3 DEF ToSet
    <2>2. CASE i = 1
      BY <1>3, <2>1, <2>2
    <2>3. CASE i # 1
      <3>1. i - 1 \in 1 .. Len(b) /\ b[i - 1] = a[(i - 1) + 1] /\ (i - 1) + 1 = i
        BY <1>2, <2>1, <2>3
      <3>2. QED
        BY <1>3, <2>1, <3>1 DEF ToSet
    <2>4. QED
      BY <2>2, <2>3
  <1>5. QED
    BY <1>1, <1>2, <1>4

LEMMA SetOfOne ==
  ASSUME NEW x
  PROVE  ToSet(<<x>>) = {x}
  BY DEF ToSet

LEMMA SetOfNone == ToSet(<<>>) = {}
  BY DEF ToSet
-----------------------------------------------------------------------------
(* What is on its way to the peer of a connection.                           *)

LEMMA PipelineIsSent ==
  ASSUME SeqsOK, NEW c \in Conns
  PROVE  ToSet(Pipeline(c)) = Sent(written[c], held[c], queue[c])
  <1>1. written[c] \in Seq(Frame) /\ held[c] \in Seq(Frame) /\ queue[c] \in Seq(Frame)
    BY DEF SeqsOK
  <1>2. PICK wh : wh = written[c] \o held[c]
    OBVIOUS
  <1>3. wh \in Seq(Frame)
    BY <1>1, <1>2, ConcatProperties
  <1>4. ToSet(wh) = ToSet(written[c]) \cup ToSet(held[c])
    BY <1>1, <1>2, SetOfConcat
  <1>5. ToSet(wh \o queue[c]) = ToSet(wh) \cup ToSet(queue[c])
    BY <1>1, <1>3, SetOfConcat
  <1>6. QED
    BY <1>2, <1>4, <1>5 DEF Pipeline, Sent

\* A step that touches no broadcast, and loses nothing for a connection that is not stopped.
LEMMA PipesStay ==
  ASSUME TailInv, SeqsOK', HandsEmpty', UNCHANGED <<ingest, owed>>,
         \A c \in Conns : /\ done[c] => done'[c]
                          /\ saturated[c] => saturated'[c]
                          /\ ~done'[c] => Sent(written[c], held[c], queue[c]) \subseteq Sent(written'[c], held'[c], queue'[c])
  PROVE  TailInv'
  <1>1. ASSUME NEW c \in Conns PROVE Served(c)'
    <2>1. Served(c)
      BY DEF TailInv
    <2>2. ASSUME NEW f, Reaches(c, f), ~done'[c] PROVE Reaches(c, f)'
      BY <2>2 DEF Reaches, Coming, FrameOf
    <2>3. owed'[c] = owed[c]
      OBVIOUS
    <2>4. QED
      BY <2>1, <2>2, <2>3 DEF Served
  <1>2. QED
    BY <1>1 DEF TailInv

\* Nor does one that touches no pipe.
LEMMA PipesUntouched ==
  ASSUME TailInv, UNCHANGED <<connVars, ingest, owed>>, rooms' \in [TailProjects -> SUBSET Conns], UNCHANGED project,
         handler' = [c \in Conns |-> handler'[c]],
         \A c \in Conns : handler'[c] \in {"none", "upgraded"} => handler[c] \in {"none", "upgraded"}
  PROVE  TailInv'
  <1>1. SeqsOK' /\ HandsEmpty'
    BY DEF TailInv, SeqsOK, HandsEmpty, connVars, Idle
  <1>2. QED
    BY <1>1, PipesStay DEF connVars

\* The handler of a connection moves on.
LEMMA HandlerMoves ==
  ASSUME TailInv, NEW c \in Conns, NEW h, handler' = [handler EXCEPT ![c] = h]
  PROVE  /\ handler' = [k \in Conns |-> handler'[k]]
         /\ \A k \in Conns : handler'[k] = IF k = c THEN h ELSE handler[k]
  BY DEF TailInv, SeqsOK

LEMMA HandlersOK ==
  ASSUME TailInv, NEW c \in Conns, Upgrade(c) \/ Handler(c) \/ HangUp(c) \/ Stall(c)
  PROVE  TailInv'
  <1>1. CASE HangUp(c) \/ Stall(c)
    BY <1>1, PipesUntouched DEF HangUp, Stall, TailInv, SeqsOK, hubVars
  <1>2. CASE Upgrade(c)
    <2>1. /\ handler' = [k \in Conns |-> handler'[k]]
          /\ \A k \in Conns : handler'[k] \in {"none", "upgraded"} => handler[k] \in {"none", "upgraded"}
      BY <1>2, HandlerMoves DEF Upgrade
    <2>2. QED
      BY <1>2, <2>1, PipesUntouched DEF Upgrade, TailInv, SeqsOK
  <1>3. CASE Unsubscribe(c)
    <2>1. /\ handler' = [k \in Conns |-> handler'[k]]
          /\ \A k \in Conns : handler'[k] \in {"none", "upgraded"} => handler[k] \in {"none", "upgraded"}
      BY <1>3, HandlerMoves DEF Unsubscribe
    <2>2. QED
      BY <1>3, <2>1, PipesUntouched DEF Unsubscribe, TailInv, SeqsOK
  <1>4. CASE Subscribe(c)
    <2>1. writer' = [writer EXCEPT ![c] = "select"] /\ UNCHANGED <<queue, done, held, written, saturated, ingest, owed, project>>
          /\ handler' = [handler EXCEPT ![c] = "reading"] /\ handler[c] = "upgraded"
      BY <1>4 DEF Subscribe
    <2>2. rooms' \in [TailProjects -> SUBSET Conns]
      BY <1>4 DEF Subscribe, TailInv, SeqsOK
    <2>3. SeqsOK'
      BY <2>1, <2>2 DEF TailInv, SeqsOK, Idle
    <2>4. held[c] = <<>>
      BY <2>1 DEF TailInv, HandsEmpty
    <2>5. HandsEmpty'
      BY <2>1, <2>4 DEF TailInv, HandsEmpty, SeqsOK
    <2>6. QED
      BY <2>1, <2>3, <2>5, PipesStay
  <1>5. CASE Leave(c)
    <2>1. done' = [done EXCEPT ![c] = TRUE] /\ UNCHANGED <<queue, writer, held, written, saturated, ingest, owed, project, rooms>>
          /\ handler' = [handler EXCEPT ![c] = "closed"]
      BY <1>5 DEF Leave
    <2>2. SeqsOK' /\ HandsEmpty'
      BY <2>1 DEF TailInv, SeqsOK, HandsEmpty, Idle
    <2>3. QED
      BY <2>1, <2>2, PipesStay DEF TailInv, SeqsOK
  <1>6. QED
    BY <1>1, <1>2, <1>3, <1>4, <1>5 DEF Handler

\* The pipe of connection c becomes w, h and q.
LEMMA OnePipe ==
  ASSUME TailInv, NEW c \in Conns, NEW w \in Seq(Frame), NEW h \in Seq(Frame), NEW q \in Seq(Frame), NEW at,
         NEW stop \in BOOLEAN,
         written' = [written EXCEPT ![c] = w], held' = [held EXCEPT ![c] = h], queue' = [queue EXCEPT ![c] = q],
         writer' = [writer EXCEPT ![c] = at], at \in {"select", "writing", "returning", "exited"}, writer[c] # "none",
         at # "writing" => h = <<>>,
         done' = [done EXCEPT ![c] = stop], done[c] => stop,
         UNCHANGED <<handler, project, rooms, saturated, ingest, owed>>,
         stop \/ Sent(written[c], held[c], queue[c]) \subseteq Sent(w, h, q)
  PROVE  TailInv'
  <1>1. /\ written' \in [Conns -> Seq(Frame)] /\ held' \in [Conns -> Seq(Frame)] /\ queue' \in [Conns -> Seq(Frame)]
        /\ writer' \in [Conns -> {"none", "select", "writing", "returning", "exited"}] /\ done' \in [Conns -> BOOLEAN]
    BY DEF TailInv, SeqsOK
  <1>2. SeqsOK'
    BY <1>1 DEF TailInv, SeqsOK, Idle
  <1>3. \A k \in Conns : /\ written'[k] = IF k = c THEN w ELSE written[k]
                         /\ held'[k] = IF k = c THEN h ELSE held[k]
                         /\ queue'[k] = IF k = c THEN q ELSE queue[k]
                         /\ writer'[k] = IF k = c THEN at ELSE writer[k]
                         /\ done'[k] = IF k = c THEN stop ELSE done[k]
    BY DEF TailInv, SeqsOK
  <1>4. HandsEmpty'
    BY <1>3 DEF TailInv, HandsEmpty
  <1>5. \A k \in Conns : /\ done[k] => done'[k]
                         /\ saturated[k] => saturated'[k]
                         /\ ~done'[k] => Sent(written[k], held[k], queue[k]) \subseteq Sent(written'[k], held'[k], queue'[k])
    BY <1>3
  <1>6. QED
    BY <1>2, <1>4, <1>5, PipesStay

LEMMA WritersOK ==
  ASSUME TailInv, NEW c \in Conns, Writer(c)
  PROVE  TailInv'
  <1>1. /\ written = [written EXCEPT ![c] = written[c]] /\ held = [held EXCEPT ![c] = held[c]]
        /\ queue = [queue EXCEPT ![c] = queue[c]] /\ done = [done EXCEPT ![c] = done[c]]
        /\ written[c] \in Seq(Frame) /\ held[c] \in Seq(Frame) /\ queue[c] \in Seq(Frame) /\ done[c] \in BOOLEAN
    BY DEF TailInv, SeqsOK
  <1>2. <<>> \in Seq(Frame)
    OBVIOUS
  <1>3. UNCHANGED <<project, handler, rooms, saturated, ingest, owed>>
    BY DEF Writer, Take, WriteOk, WriteFails, Done, Return, hubVars
  <1>4. CASE Take(c)
    <2>1. PICK h, q : h = <<Head(queue[c])>> /\ q = Tail(queue[c])
      OBVIOUS
    <2>2. queue[c] # <<>> /\ writer[c] = "select" /\ held[c] = <<>>
      BY <1>4 DEF Take, TailInv, HandsEmpty
    <2>3. ToSet(queue[c]) \subseteq {Head(queue[c])} \cup ToSet(q) /\ q \in Seq(Frame) /\ Head(queue[c]) \in Frame
      BY <1>1, <2>1, <2>2, SetOfTail
    <2>4. h \in Seq(Frame) /\ ToSet(h) = {Head(queue[c])}
      BY <2>1, <2>3, SetOfOne
    <2>5. Sent(written[c], held[c], queue[c]) \subseteq Sent(written[c], h, q)
      BY <2>2, <2>3, <2>4, SetOfNone DEF Sent
    <2>6. /\ written' = [written EXCEPT ![c] = written[c]] /\ held' = [held EXCEPT ![c] = h]
          /\ queue' = [queue EXCEPT ![c] = q] /\ done' = [done EXCEPT ![c] = done[c]]
          /\ writer' = [writer EXCEPT ![c] = "writing"]
      BY <1>1, <1>4, <2>1 DEF Take
    <2>7. QED
      BY <1>1, <1>3, <2>2, <2>3, <2>4, <2>5, <2>6, OnePipe
  <1>5. CASE WriteOk(c)
    <2>1. PICK w : w = written[c] \o held[c]
      OBVIOUS
    <2>2. w \in Seq(Frame)
      BY <1>1, <2>1, ConcatProperties
    <2>3. ToSet(w) = ToSet(written[c]) \cup ToSet(held[c])
      BY <1>1, <2>1, SetOfConcat
    <2>4. Sent(written[c], held[c], queue[c]) \subseteq Sent(w, <<>>, queue[c])
      BY <2>3, SetOfNone DEF Sent
    <2>5. /\ written' = [written EXCEPT ![c] = w] /\ held' = [held EXCEPT ![c] = <<>>]
          /\ queue' = [queue EXCEPT ![c] = queue[c]] /\ done' = [done EXCEPT ![c] = done[c]]
          /\ writer' = [writer EXCEPT ![c] = "select"] /\ writer[c] = "writing"
      BY <1>1, <1>5, <2>1 DEF WriteOk
    <2>6. QED
      BY <1>1, <1>2, <1>3, <2>2, <2>4, <2>5, OnePipe
  <1>6. CASE WriteFails(c)
    <2>1. /\ written' = [written EXCEPT ![c] = written[c]] /\ held' = [held EXCEPT ![c] = <<>>]
          /\ queue' = [queue EXCEPT ![c] = queue[c]] /\ done' = [done EXCEPT ![c] = TRUE]
          /\ writer' = [writer EXCEPT ![c] = "returning"] /\ writer[c] = "writing"
      BY <1>1, <1>6 DEF WriteFails
    <2>2. QED
      BY <1>1, <1>2, <1>3, <2>1, OnePipe
  <1>7. CASE Done(c) \/ Return(c)
    <2>1. PICK at \in {"returning", "exited"} : writer' = [writer EXCEPT ![c] = at]
      BY <1>7 DEF Done, Return
    <2>2. /\ written' = [written EXCEPT ![c] = written[c]] /\ held' = [held EXCEPT ![c] = held[c]]
          /\ queue' = [queue EXCEPT ![c] = queue[c]] /\ done' = [done EXCEPT ![c] = done[c]]
          /\ writer[c] \in {"select", "returning"} /\ held[c] = <<>>
      BY <1>1, <1>7 DEF Done, Return, TailInv, HandsEmpty
    <2>3. Sent(written[c], held[c], queue[c]) \subseteq Sent(written[c], held[c], queue[c])
      OBVIOUS
    <2>4. QED
      BY <1>1, <1>3, <2>1, <2>2, <2>3, OnePipe
  <1>8. QED
    BY <1>4, <1>5, <1>6, <1>7 DEF Writer
-----------------------------------------------------------------------------
(* The ingest requests.                                                      *)

LEMMA BroadcastLogsOK ==
  ASSUME TailInv, NEW g \in Ingesters, NEW ps \in SUBSET TailProjects \ {{}}, BroadcastLogs(g, ps)
  PROVE  TailInv'
  <1>1. UNCHANGED <<hubVars, stalled, connVars, owed>>
    BY DEF BroadcastLogs
  <1>2. ingest[g].states = {} /\ ingest[g].batch < MaxBatches /\ ingest[g].batch \in 0 .. MaxBatches
    BY DEF BroadcastLogs, Idle, TailInv, SeqsOK
  <1>3. PICK x : x = [ingest[g] EXCEPT !.batch = ingest[g].batch + 1]
    OBVIOUS
  <1>4. PICK y : y = [x EXCEPT !.todo = ps]
    OBVIOUS
  <1>5. ingest' = [ingest EXCEPT ![g] = y]
    BY <1>3, <1>4 DEF BroadcastLogs
  <1>6. x \in [batch: 1 .. MaxBatches, todo: SUBSET TailProjects, at: TailProjects, states: SUBSET Conns] /\ x.states = {}
    <2>1. PICK n : n = ingest[g].batch + 1
      OBVIOUS
    <2>2. n \in 1 .. MaxBatches
      BY <1>2, <2>1, TailAssumption
    <2>3. ingest[g] \in [batch: 0 .. MaxBatches, todo: SUBSET TailProjects, at: TailProjects, states: SUBSET Conns]
      BY DEF TailInv, SeqsOK
    <2>4. x = [ingest[g] EXCEPT !.batch = n]
      BY <1>3, <2>1
    <2>5. QED
      BY <1>2, <2>2, <2>3, <2>4
  <1>7. y \in [batch: 1 .. MaxBatches, todo: SUBSET TailProjects, at: TailProjects, states: SUBSET Conns] /\ y.states = {}
    BY <1>4, <1>6
  <1>8. \A k \in Ingesters : ingest'[k] = IF k = g THEN y ELSE ingest[k]
    BY <1>5 DEF TailInv, SeqsOK
  <1>9. ingest' \in [Ingesters -> [batch: 0 .. MaxBatches, todo: SUBSET TailProjects, at: TailProjects, states: SUBSET Conns]]
    BY <1>5, <1>7, TailAssumption DEF TailInv, SeqsOK
  <1>10. SeqsOK'
    BY <1>1, <1>7, <1>8, <1>9 DEF TailInv, SeqsOK, Idle, hubVars, connVars
  <1>11. HandsEmpty'
    BY <1>1 DEF TailInv, HandsEmpty, hubVars, connVars
  <1>12. ASSUME NEW c \in Conns PROVE Served(c)'
    <2>1. Served(c)
      BY DEF TailInv
    <2>2. UNCHANGED <<done, saturated, owed, written, held, queue>>
      BY <1>1 DEF connVars
    <2>3. ASSUME NEW f \in owed[c], Reaches(c, f) PROVE Reaches(c, f)'
      <3>1. f.from \in Ingesters
        BY DEF TailInv, SeqsOK, Frame
      <3>2. CASE Coming(c, f)
        <4>1. f.from # g
          BY <1>2, <3>2 DEF Coming
        <4>2. ingest'[f.from] = ingest[f.from]
          BY <1>8, <3>1, <4>1
        <4>3. QED
          BY <3>2, <4>2 DEF Coming, FrameOf, Reaches
      <3>3. QED
        BY <2>2, <2>3, <3>2 DEF Reaches
    <2>4. QED
      BY <2>1, <2>2, <2>3 DEF Served
  <1>13. QED
    BY <1>10, <1>11, <1>12 DEF TailInv

LEMMA BroadcastOK ==
  ASSUME TailInv, NEW g \in Ingesters, NEW p \in TailProjects, Broadcast(g, p)
  PROVE  TailInv'
  <1>1. UNCHANGED <<hubVars, stalled, connVars>>
    BY DEF Broadcast
  <1>2. ingest[g].states = {} /\ ingest[g].todo # {} /\ ingest[g].batch \in 1 .. MaxBatches
    BY DEF Broadcast, Idle, TailInv, SeqsOK
  <1>3. PICK x : x = [ingest[g] EXCEPT !.todo = ingest[g].todo \ {p}]
    OBVIOUS
  <1>4. PICK y : y = [x EXCEPT !.at = p]
    OBVIOUS
  <1>5. PICK z : z = [y EXCEPT !.states = rooms[p]]
    OBVIOUS
  <1>6. ingest' = [ingest EXCEPT ![g] = z]
    BY <1>3, <1>4, <1>5 DEF Broadcast
  <1>7. x \in [batch: 1 .. MaxBatches, todo: SUBSET TailProjects, at: TailProjects, states: SUBSET Conns] /\ x.batch = ingest[g].batch
    BY <1>2, <1>3 DEF TailInv, SeqsOK
  <1>8. y \in [batch: 1 .. MaxBatches, todo: SUBSET TailProjects, at: TailProjects, states: SUBSET Conns]
        /\ y.batch = ingest[g].batch /\ y.at = p
    BY <1>4, <1>7
  <1>9. z \in [batch: 1 .. MaxBatches, todo: SUBSET TailProjects, at: TailProjects, states: SUBSET Conns]
        /\ z.batch = ingest[g].batch /\ z.at = p /\ z.states = rooms[p]
    BY <1>5, <1>8 DEF TailInv, SeqsOK
  <1>10. \A k \in Ingesters : ingest'[k] = IF k = g THEN z ELSE ingest[k]
    BY <1>6 DEF TailInv, SeqsOK
  <1>11. ingest' \in [Ingesters -> [batch: 0 .. MaxBatches, todo: SUBSET TailProjects, at: TailProjects, states: SUBSET Conns]]
    BY <1>6, <1>9, TailAssumption DEF TailInv, SeqsOK
  <1>12. FrameOf(g, p) \in Frame /\ FrameOf(g, p).from = g
    BY <1>2 DEF FrameOf, Frame
  <1>13. \A c \in Conns : owed'[c] = IF c \in rooms[p] THEN owed[c] \cup {FrameOf(g, p)} ELSE owed[c]
    BY DEF Broadcast
  <1>14. owed' \in [Conns -> SUBSET Frame]
    BY <1>12, <1>13 DEF Broadcast, TailInv, SeqsOK
  <1>15. SeqsOK'
    BY <1>1, <1>9, <1>10, <1>11, <1>14 DEF TailInv, SeqsOK, Idle, hubVars, connVars
  <1>16. HandsEmpty'
    BY <1>1 DEF TailInv, HandsEmpty, hubVars, connVars
  <1>19. PICK f0 : f0 = FrameOf(g, p)
    OBVIOUS
  <1>17. ASSUME NEW c \in Conns PROVE Served(c)'
    <2>1. Served(c)
      BY DEF TailInv
    <2>2. UNCHANGED <<done, saturated, written, held, queue>>
      BY <1>1 DEF connVars
    <2>3. ASSUME NEW f \in owed[c], Reaches(c, f) PROVE Reaches(c, f)'
      <3>1. f.from \in Ingesters
        BY DEF TailInv, SeqsOK, Frame
      <3>2. CASE Coming(c, f)
        <4>1. f.from # g
          BY <1>2, <3>2 DEF Coming
        <4>2. ingest'[f.from] = ingest[f.from]
          BY <1>10, <3>1, <4>1
        <4>3. QED
          BY <3>2, <4>2 DEF Coming, FrameOf, Reaches
      <3>3. QED
        BY <2>2, <2>3, <3>2 DEF Reaches
    <2>4. ASSUME c \in rooms[p] PROVE Reaches(c, f0)'
      <3>1. ingest'[f0.from] = z /\ f0 = [from |-> g, batch |-> z.batch, project |-> z.at]
        BY <1>9, <1>10, <1>12, <1>19 DEF FrameOf
      <3>2. Coming(c, f0)'
        BY <1>9, <1>12, <1>19, <2>4, <3>1 DEF Coming, FrameOf
      <3>3. QED
        BY <3>2 DEF Reaches
    <2>5. owed'[c] \subseteq owed[c] \/ (c \in rooms[p] /\ owed'[c] \subseteq owed[c] \cup {f0})
      BY <1>13, <1>19
    <2>6. ASSUME \A f \in owed[c] : Reaches(c, f) PROVE \A f \in owed'[c] : Reaches(c, f)'
      BY <2>3, <2>4, <2>5, <2>6
    <2>7. QED
      BY <2>1, <2>2, <2>6 DEF Served
  <1>18. QED
    BY <1>15, <1>16, <1>17 DEF TailInv

\* The frame of the broadcast g is at, given to subscriber c: it was coming, and
\* now it is sent, or c is stopped or saturated.
LEMMA EnqueueOK ==
  ASSUME TailInv, NEW g \in Ingesters, NEW c \in Conns, Enqueue(g, c)
  PROVE  TailInv'
  <1>1. UNCHANGED <<hubVars, stalled, done, writer, held, written, owed>> /\ c \in ingest[g].states
    BY DEF Enqueue
  <1>2. PICK x : x = [ingest[g] EXCEPT !.states = ingest[g].states \ {c}]
    OBVIOUS
  <1>3. ingest' = [ingest EXCEPT ![g] = x]
    BY <1>2 DEF Enqueue
  <1>4. ingest[g] \in [batch: 0 .. MaxBatches, todo: SUBSET TailProjects, at: TailProjects, states: SUBSET Conns]
        /\ ingest[g].batch \in 1 .. MaxBatches
    BY <1>1 DEF TailInv, SeqsOK, Idle
  <1>5. /\ x \in [batch: 0 .. MaxBatches, todo: SUBSET TailProjects, at: TailProjects, states: SUBSET Conns]
        /\ x.batch = ingest[g].batch /\ x.at = ingest[g].at /\ x.states = ingest[g].states \ {c}
    BY <1>2, <1>4
  <1>6. \A k \in Ingesters : ingest'[k] = IF k = g THEN x ELSE ingest[k]
    BY <1>3 DEF TailInv, SeqsOK
  <1>7. ingest' \in [Ingesters -> [batch: 0 .. MaxBatches, todo: SUBSET TailProjects, at: TailProjects, states: SUBSET Conns]]
    BY <1>3, <1>5 DEF TailInv, SeqsOK
  <1>8. PICK f0 : f0 = FrameOf(g, ingest[g].at)
    OBVIOUS
  <1>9. f0 \in Frame
    BY <1>4, <1>8 DEF FrameOf, Frame
  <1>10. PICK full \in BOOLEAN, q \in Seq(Frame) :
           /\ queue' = [queue EXCEPT ![c] = q] /\ saturated' = [saturated EXCEPT ![c] = full]
           /\ ToSet(queue[c]) \subseteq ToSet(q) /\ (saturated[c] => full)
           /\ done[c] \/ full \/ f0 \in ToSet(q)
    <2>1. /\ queue[c] \in Seq(Frame) /\ saturated[c] \in BOOLEAN /\ queue = [queue EXCEPT ![c] = queue[c]]
          /\ saturated = [saturated EXCEPT ![c] = saturated[c]]
      BY DEF TailInv, SeqsOK
    <2>2. CASE queue' = [queue EXCEPT ![c] = Append(queue[c], f0)] /\ UNCHANGED saturated
      <3>1. PICK q : q = Append(queue[c], f0)
        OBVIOUS
      <3>2. ToSet(queue[c]) \cup {f0} = ToSet(q) /\ q \in Seq(Frame)
        BY <1>9, <2>1, <3>1, SetOfAppend
      <3>3. QED
        BY <2>1, <2>2, <3>1, <3>2
    <2>3. CASE done[c] /\ UNCHANGED <<queue, saturated>>
      BY <2>1, <2>3
    <2>4. CASE saturated' = [saturated EXCEPT ![c] = TRUE] /\ UNCHANGED queue
      BY <2>1, <2>4
    <2>5. QED
      BY <1>8, <2>2, <2>3, <2>4 DEF Enqueue
  <1>11. \A k \in Conns : /\ queue'[k] = IF k = c THEN q ELSE queue[k]
                          /\ saturated'[k] = IF k = c THEN full ELSE saturated[k]
    BY <1>10 DEF TailInv, SeqsOK
  <1>12. queue' \in [Conns -> Seq(Frame)] /\ saturated' \in [Conns -> BOOLEAN]
    BY <1>10 DEF TailInv, SeqsOK
  <1>13. SeqsOK'
    BY <1>1, <1>4, <1>5, <1>6, <1>7, <1>12 DEF TailInv, SeqsOK, Idle, hubVars
  <1>14. HandsEmpty'
    BY <1>1 DEF TailInv, HandsEmpty, hubVars
  <1>15. ASSUME NEW k \in Conns PROVE Served(k)'
    <2>1. Served(k)
      BY DEF TailInv
    <2>2. UNCHANGED <<done, owed, written, held>> /\ (saturated[k] => saturated'[k])
      BY <1>1, <1>10, <1>11
    <2>3. Sent(written[k], held[k], queue[k]) \subseteq Sent(written'[k], held'[k], queue'[k])
      BY <1>10, <1>11, <2>2 DEF Sent
    <2>4. ASSUME NEW f \in owed[k], Reaches(k, f), ~done[k], ~saturated'[k] PROVE Reaches(k, f)'
      <3>1. f.from \in Ingesters
        BY DEF TailInv, SeqsOK, Frame
      <3>2. CASE Coming(k, f)
        <4>1. CASE f.from = g /\ k = c
          <5>1. f = f0
            BY <1>8, <3>2, <4>1 DEF Coming
          <5>2. f \in ToSet(queue'[k])
            BY <1>10, <1>11, <2>4, <4>1, <5>1
          <5>3. QED
            BY <5>2 DEF Reaches, Sent
        <4>2. CASE f.from # g \/ k # c
          <5>1. k \in ingest'[f.from].states /\ ingest'[f.from].batch = ingest[f.from].batch
                /\ ingest'[f.from].at = ingest[f.from].at
            BY <1>5, <1>6, <3>1, <3>2, <4>2 DEF Coming
          <5>2. Coming(k, f)'
            BY <3>2, <5>1 DEF Coming, FrameOf
          <5>3. QED
            BY <5>2 DEF Reaches
        <4>3. QED
          BY <4>1, <4>2
      <3>3. QED
        BY <2>3, <2>4, <3>2 DEF Reaches
    <2>5. QED
      BY <2>1, <2>2, <2>4 DEF Served
  <1>16. QED
    BY <1>13, <1>14, <1>15 DEF TailInv
-----------------------------------------------------------------------------
LEMMA InitServes == TailInit => TailInv
  <1>1. SUFFICES ASSUME TailInit PROVE TailInv
    OBVIOUS
  <1>2. <<>> \in Seq(Frame)
    OBVIOUS
  <1>3. PICK r : r = [batch |-> 0, todo |-> {}, at |-> CHOOSE p \in TailProjects : TRUE, states |-> {}]
    OBVIOUS
  <1>4. ingest = [g \in Ingesters |-> r]
    BY <1>1, <1>3 DEF TailInit
  <1>5. ASSUME NEW c \in Conns PROVE Served(c)
    BY <1>1 DEF TailInit, Served
  <1>6. HandsEmpty
    BY <1>1 DEF TailInit, HandsEmpty
  <1>7. QED
    BY <1>1, <1>2, <1>3, <1>4, <1>5, <1>6, TailAssumption DEF TailInit, TailInv, SeqsOK, Idle

LEMMA NextServes == TailInv /\ [TailNext]_tailVars => TailInv'
  <1>1. SUFFICES ASSUME TailInv, [TailNext]_tailVars PROVE TailInv'
    OBVIOUS
  <1>2. CASE UNCHANGED tailVars
    <2>1. UNCHANGED <<connVars, ingest, owed, rooms, project, handler>>
      BY <1>2 DEF tailVars, hubVars
    <2>2. handler' = [c \in Conns |-> handler'[c]]
      BY <1>1, <2>1 DEF TailInv, SeqsOK
    <2>3. rooms' \in [TailProjects -> SUBSET Conns]
      BY <1>1, <2>1 DEF TailInv, SeqsOK
    <2>4. QED
      BY <1>1, <2>1, <2>2, <2>3, PipesUntouched
  <1>3. ASSUME NEW c \in Conns, Upgrade(c) \/ Handler(c) \/ Writer(c) \/ HangUp(c) \/ Stall(c) PROVE TailInv'
    BY <1>1, <1>3, HandlersOK, WritersOK
  <1>4. ASSUME NEW g \in Ingesters, Sending(g) PROVE TailInv'
    BY <1>1, <1>4, BroadcastOK, EnqueueOK DEF Sending
  <1>5. ASSUME NEW g \in Ingesters, NEW ps \in SUBSET TailProjects \ {{}}, BroadcastLogs(g, ps) PROVE TailInv'
    BY <1>1, <1>5, BroadcastLogsOK
  <1>6. QED
    BY <1>1, <1>2, <1>3, <1>4, <1>5 DEF TailNext

\* hub.go: a subscriber that is not stopped and whose queue was never full has
\* been written, or will be given, every frame broadcast while it was in the room.
THEOREM SubscribersMissNothing == TailSpec => []NothingLost
  <1>1. TailInv => NothingLost
    <2>1. SUFFICES ASSUME TailInv, NEW c \in Conns, ~done[c], ~saturated[c], NEW f \in owed[c]
                   PROVE  f \in ToSet(Pipeline(c)) \/ Coming(c, f)
      BY DEF NothingLost, Coming
    <2>2. Reaches(c, f)
      BY <2>1 DEF TailInv, Served
    <2>3. ToSet(Pipeline(c)) = Sent(written[c], held[c], queue[c])
      BY <2>1, PipelineIsSent DEF TailInv
    <2>4. QED
      BY <2>2, <2>3 DEF Reaches
  <1>2. QED
    BY <1>1, InitServes, NextServes, PTL DEF TailSpec
-----------------------------------------------------------------------------
(* LogQueries: pages of a table that changes. *)

RowLike(row) == row = [state |-> row.state, ts |-> row.ts, project |-> row.project]

LogsOK == /\ logs = [id \in LogIds |-> logs[id]]
          /\ \A id \in LogIds : RowLike(logs[id]) /\ logs[id].ts \in Int

\* The order of the pages, of some rows
NewerIn(ids) == {ab \in ids \X ids : Newer(ab[1], ab[2])}

LEMMA InNewer == ASSUME NEW ids, NEW a \in ids, NEW b \in ids
                 PROVE  <<a, b>> \in NewerIn(ids) <=> Newer(a, b)
  BY DEF NewerIn

LEMMA NewerTotal ==
  ASSUME LogsOK, NEW a \in LogIds, NEW b \in LogIds, NEW c \in LogIds
  PROVE  /\ ~Newer(a, a) /\ (Newer(a, b) => ~Newer(b, a)) /\ (a # b => Newer(a, b) \/ Newer(b, a))
         /\ Newer(a, b) /\ Newer(b, c) => Newer(a, c)
  <1>1. /\ a \in Nat /\ b \in Nat /\ c \in Nat
        /\ logs[a].ts \in Int /\ logs[b].ts \in Int /\ logs[c].ts \in Int
    BY LogQueriesAssumption DEF LogsOK
  <1>2. QED
    BY <1>1 DEF Newer

LEMMA NewerOrders ==
  ASSUME LogsOK, NEW ids \in SUBSET LogIds
  PROVE  Orders(NewerIn(ids), ids)
  <1>1. \A a \in ids : <<a, a>> \notin NewerIn(ids)
    BY InNewer, NewerTotal
  <1>2. ASSUME NEW a \in ids, NEW b \in ids, a # b
        PROVE  <<a, b>> \in NewerIn(ids) \/ <<b, a>> \in NewerIn(ids)
    <2>1. a \in LogIds /\ b \in LogIds
      OBVIOUS
    <2>2. Newer(a, b) \/ Newer(b, a)
      BY <1>2, <2>1, NewerTotal
    <2>3. QED
      BY <2>2, InNewer
  <1>3. ASSUME NEW a \in ids, NEW b \in ids, NEW c \in ids, <<a, b>> \in NewerIn(ids), <<b, c>> \in NewerIn(ids)
        PROVE  <<a, c>> \in NewerIn(ids)
    <2>1. Newer(a, b) /\ Newer(b, c)
      BY <1>3, InNewer
    <2>2. Newer(a, c)
      BY <2>1, NewerTotal
    <2>3. QED
      BY <2>2, InNewer
  <1>4. QED
    BY <1>1, <1>2, <1>3 DEF Orders

\* A page as it is returned
LEMMA SortedIs ==
  ASSUME LogsOK, NEW ids \in SUBSET LogIds
  PROVE  /\ IsFiniteSet(ids) /\ Cardinality(ids) \in Nat
         /\ Sorted(ids) \in [1 .. Cardinality(ids) -> ids]
         /\ \A i, j \in 1 .. Cardinality(ids) : i < j => Newer(Sorted(ids)[i], Sorted(ids)[j])
         /\ \A x \in ids : \E i \in 1 .. Cardinality(ids) : Sorted(ids)[i] = x
         /\ \A i, j \in 1 .. Cardinality(ids) : Sorted(ids)[i] = Sorted(ids)[j] => i = j
  <1>1. IsFiniteSet(ids) /\ Cardinality(ids) \in Nat
    BY LogQueriesAssumption, FS_Subset, FS_CardinalityType
  <1>2. PICK n \in Nat : n = Cardinality(ids)
    BY <1>1
  <1>3. PICK R : R = NewerIn(ids)
    OBVIOUS
  <1>4. Orders(R, ids)
    BY <1>3, NewerOrders
  <1>5. ASSUME NEW s \in [1 .. n -> ids]
        PROVE  InOrder(s, R) <=> \A i, j \in DOMAIN s : i < j => Newer(s[i], s[j])
    BY <1>3, InNewer DEF InOrder
  <1>6. PICK s \in [1 .. n -> ids] : InOrder(s, R)
    BY <1>1, <1>2, <1>4, OrderExists
  <1>7. \E x \in [1 .. n -> ids] : \A i, j \in DOMAIN x : i < j => Newer(x[i], x[j])
    BY <1>5, <1>6
  <1>8. PICK t : t = Sorted(ids)
    OBVIOUS
  <1>9. t \in [1 .. n -> ids] /\ \A i, j \in DOMAIN t : i < j => Newer(t[i], t[j])
    BY <1>2, <1>7, <1>8 DEF Sorted
  <1>10. InOrder(t, R)
    BY <1>5, <1>9
  <1>11. /\ \A x \in ids : \E i \in DOMAIN t : t[i] = x
         /\ \A i, j \in DOMAIN t : t[i] = t[j] => i = j
    BY <1>1, <1>2, <1>4, <1>9, <1>10, OrderIsAll
  <1>12. DOMAIN t = 1 .. n
    BY <1>9
  <1>13. QED
    BY <1>1, <1>2, <1>8, <1>9, <1>11, <1>12

\* The first of a sequence without repetition
FirstOf(s, k) == {s[j] : j \in 1 .. k}
Once(s, n) == \A i, j \in 1 .. n : s[i] = s[j] => i = j

LEMMA FirstCount ==
  ASSUME NEW S, NEW n \in Nat, NEW s \in [1 .. n -> S], Once(s, n), NEW k \in 0 .. n
  PROVE  IsFiniteSet(FirstOf(s, k)) /\ Cardinality(FirstOf(s, k)) = k
  <1>0. PICK T : T = {s[j] : j \in 1 .. k}
    OBVIOUS
  <1>1. PICK f : f = [j \in 1 .. k |-> s[j]]
    OBVIOUS
  <1>2. 1 .. k \subseteq 1 .. n
    OBVIOUS
  <1>3. f \in [1 .. k -> T]
    BY <1>0, <1>1
  <1>4. f \in Bijection(1 .. k, T)
    BY <1>0, <1>1, <1>2, <1>3 DEF Bijection, Injection, Surjection, IsInjective, Once
  <1>5. ExistsBijection(1 .. k, T)
    BY <1>4 DEF ExistsBijection
  <1>6. IsFiniteSet(1 .. k) /\ Cardinality(1 .. k) = k
    BY FS_Interval
  <1>7. QED
    BY <1>0, <1>5, <1>6, FS_Bijection DEF FirstOf

\* The newest n of some rows: whatever is left out is older than all of them, and there
\* are n of them then.
LEMMA NewestIs ==
  ASSUME LogsOK, NEW ids \in SUBSET LogIds, NEW n \in Nat
  PROVE  /\ Newest(ids, n) \in SUBSET ids /\ Cardinality(Newest(ids, n)) \in Nat
         /\ Cardinality(Newest(ids, n)) <= n
         /\ \A x \in ids : x \notin Newest(ids, n) =>
              /\ Cardinality(Newest(ids, n)) = n
              /\ \A y \in Newest(ids, n) : Newer(y, x)
  <1>1. PICK c \in Nat : c = Cardinality(ids)
    BY SortedIs
  <1>2. PICK s \in [1 .. c -> ids] :
          /\ \A i, j \in 1 .. c : i < j => Newer(s[i], s[j])
          /\ \A x \in ids : \E i \in 1 .. c : s[i] = x
          /\ \A i, j \in 1 .. c : s[i] = s[j] => i = j
    BY <1>1, SortedIs
  <1>o. Once(s, c)
    BY <1>2 DEF Once
  <1>3. ASSUME NEW i \in 1 .. c PROVE s[i] \in Newest(ids, n) <=> i <= n
    <2>1. PICK T : T = {b \in ids : Newer(b, s[i])}
      OBVIOUS
    <2>2. PICK k \in 0 .. c : k = i - 1
      OBVIOUS
    <2>3. ASSUME NEW j \in 1 .. c PROVE s[j] \in T <=> j \in 1 .. k
      <3>1. s[i] \in LogIds /\ s[j] \in LogIds
        BY <1>2
      <3>2. j < i \/ j = i \/ i < j
        OBVIOUS
      <3>3. Newer(s[j], s[i]) <=> j < i
        BY <1>2, <3>1, <3>2, NewerTotal
      <3>4. QED
        BY <1>2, <2>1, <2>2, <3>3
    <2>4. T = FirstOf(s, k)
      BY <1>2, <2>1, <2>2, <2>3 DEF FirstOf
    <2>5. Cardinality(T) = k
      BY <1>2, <1>o, <2>4, FirstCount
    <2>6. s[i] \in Newest(ids, n) <=> Cardinality(T) < n
      BY <1>2, <2>1 DEF Newest
    <2>7. QED
      BY <2>2, <2>5, <2>6
  <1>4. PICK N : N = Newest(ids, n)
    OBVIOUS
  <1>5. N \subseteq ids
    BY <1>4 DEF Newest
  <1>6. PICK k \in 0 .. c : k = IF n <= c THEN n ELSE c
    OBVIOUS
  <1>7. N = FirstOf(s, k)
    BY <1>2, <1>3, <1>4, <1>5, <1>6 DEF FirstOf
  <1>8. Cardinality(N) = k
    BY <1>2, <1>o, <1>7, FirstCount
  <1>9. ASSUME NEW x \in ids, x \notin N PROVE k = n /\ \A y \in N : Newer(y, x)
    <2>1. PICK i \in 1 .. c : s[i] = x
      BY <1>2
    <2>2. i > n
      BY <1>3, <1>4, <1>9, <2>1
    <2>3. k = n
      BY <1>6, <2>2
    <2>4. ASSUME NEW j \in 1 .. k PROVE Newer(s[j], x)
      BY <1>2, <2>1, <2>2, <2>3
    <2>5. QED
      BY <1>7, <2>3, <2>4 DEF FirstOf
  <1>10. QED
    BY <1>4, <1>5, <1>6, <1>8, <1>9

\* What is still to come of a query: the rows that match, past the cursor
Ahead(s, projects) == After(Matching(s, projects), s.cursor)

LEMMA AheadOf ==
  ASSUME NEW s, NEW projects
  PROVE  /\ Ahead(s, projects) \in SUBSET LogIds
         /\ \A x \in Ahead(s, projects) : logs[x].project \in projects /\ x \in Ahead(s, {logs[x].project})
         /\ \A p \in projects : Ahead(s, {p}) \subseteq Ahead(s, projects)
  BY DEF Ahead, After, Matching, Stored

\* Merging bounded scans of the projects gives the newest rows of all of them.
LEMMA PageIs ==
  ASSUME LogsOK, NEW s, NEW projects, NEW n \in Nat
  PROVE  /\ Page(s, projects, n) \in SUBSET Ahead(s, projects)
         /\ Page(s, projects, n) \in SUBSET LogIds
         /\ Cardinality(Page(s, projects, n)) \in Nat /\ Cardinality(Page(s, projects, n)) <= n
         /\ \A x \in Ahead(s, projects) : x \notin Page(s, projects, n) =>
              /\ Cardinality(Page(s, projects, n)) = n
              /\ \A y \in Page(s, projects, n) : Newer(y, x)
  <1>1. PICK U : U = UNION {Newest(Ahead(s, {p}), n) : p \in projects}
    OBVIOUS
  <1>2. PICK page : page = Page(s, projects, n) /\ page = Newest(U, n)
    BY <1>1 DEF Page, Ahead
  <1>3. ASSUME NEW p \in projects
        PROVE  /\ Newest(Ahead(s, {p}), n) \in SUBSET Ahead(s, {p})
               /\ Newest(Ahead(s, {p}), n) \subseteq Ahead(s, projects)
               /\ Cardinality(Newest(Ahead(s, {p}), n)) \in Nat
               /\ \A x \in Ahead(s, {p}) : x \notin Newest(Ahead(s, {p}), n) =>
                    /\ Cardinality(Newest(Ahead(s, {p}), n)) = n
                    /\ \A y \in Newest(Ahead(s, {p}), n) : Newer(y, x)
    <2>1. Ahead(s, {p}) \in SUBSET LogIds /\ Ahead(s, {p}) \subseteq Ahead(s, projects)
      BY AheadOf
    <2>2. QED
      BY <2>1, NewestIs
  <1>4. U \in SUBSET Ahead(s, projects) /\ U \in SUBSET LogIds
    <2>1. U \subseteq Ahead(s, projects)
      BY <1>1, <1>3
    <2>2. QED
      BY <2>1, AheadOf
  <1>5. /\ page \in SUBSET U /\ Cardinality(page) \in Nat /\ Cardinality(page) <= n
        /\ \A x \in U : x \notin page => Cardinality(page) = n /\ \A y \in page : Newer(y, x)
    BY <1>2, <1>4, NewestIs
  <1>6. ASSUME NEW x \in Ahead(s, projects), x \notin page
        PROVE  Cardinality(page) = n /\ \A y \in page : Newer(y, x)
    <2>1. CASE x \in U
      BY <1>5, <1>6, <2>1
    <2>2. CASE x \notin U
      <3>1. PICK p \in projects : x \in Ahead(s, {p})
        BY AheadOf
      <3>2. PICK V : V = Newest(Ahead(s, {p}), n)
        OBVIOUS
      <3>3. V \subseteq U /\ x \notin V
        BY <1>1, <2>2, <3>2
      <3>4. Cardinality(V) = n /\ \A y \in V : Newer(y, x)
        BY <1>3, <3>1, <3>2, <3>3
      <3>5. CASE V \subseteq page
        <4>1. IsFiniteSet(page)
          BY <1>4, <1>5, LogQueriesAssumption, FS_Subset
        <4>2. Cardinality(V) <= Cardinality(page) /\ (Cardinality(page) = Cardinality(V) => page = V)
          BY <3>5, <4>1, FS_Subset
        <4>3. QED
          BY <1>5, <3>4, <4>2
      <3>6. CASE ~(V \subseteq page)
        <4>1. PICK v \in V : v \notin page
          BY <3>6
        <4>2. v \in U /\ v \in LogIds /\ x \in LogIds
          BY <1>4, <3>3, AheadOf
        <4>3. Cardinality(page) = n /\ \A y \in page : Newer(y, v)
          BY <1>5, <4>1, <4>2
        <4>4. Newer(v, x)
          BY <3>4
        <4>5. \A y \in page : y \in LogIds
          BY <1>4, <1>5
        <4>6. QED
          BY <4>2, <4>3, <4>4, <4>5, NewerTotal
      <3>7. QED
        BY <3>5, <3>6
    <2>3. QED
      BY <2>1, <2>2
  <1>7. QED
    BY <1>2, <1>4, <1>5, <1>6

ScanLike(s) ==
    s = [pc |-> s.pc, reader |-> s.reader, mode |-> s.mode, asked |-> s.asked, scope |-> s.scope, tags |-> s.tags,
         from |-> s.from, to |-> s.to, cap |-> s.cap, cursor |-> s.cursor, out |-> s.out, kept |-> s.kept,
         begun |-> s.begun]

Born(id)    == logs[id].state # "unborn"
Obtained(s) == {s.out[i] : i \in DOMAIN s.out}
Falling(q)  == \A i, j \in DOMAIN q : i < j => Newer(q[i], q[j])

\* A reader is where its last row is, and what matched all along is in its hand or ahead.
ScanOK(s) ==
    /\ ScanLike(s)
    /\ s.out \in Seq(LogIds) /\ \A id \in Obtained(s) : Born(id)
    /\ s.kept \subseteq LogIds /\ \A id \in s.kept : Born(id)
    /\ s.cursor = IF s.out = <<>> THEN NoCursor ELSE s.out[Len(s.out)]
    /\ s.mode = "export" => s.cap \in Nat \ {0}
    /\ Falling(s.out)
    /\ \A id \in s.kept : id \in Obtained(s) \/ (s.cursor # NoCursor /\ Newer(s.cursor, id))
    /\ s.pc = "done" => s.kept \subseteq Obtained(s)

PagesInv == LogsOK /\ ScanOK(scan)

LEMMA RealCursor ==
  ASSUME NEW s, ScanOK(s)
  PROVE  /\ s.cursor = NoCursor <=> s.out = <<>>
         /\ s.cursor # NoCursor => s.cursor \in LogIds /\ s.cursor \in Obtained(s)
                                   /\ s.cursor = s.out[Len(s.out)] /\ Len(s.out) \in DOMAIN s.out
  <1>1. ASSUME s.out # <<>> PROVE Len(s.out) \in DOMAIN s.out
    BY <1>1 DEF ScanOK
  <1>2. ASSUME s.out # <<>> PROVE s.cursor = s.out[Len(s.out)] /\ s.cursor \in LogIds
    BY <1>1, <1>2 DEF ScanOK
  <1>3. \A id \in LogIds : id # NoCursor
    BY LogQueriesAssumption DEF NoCursor, None
  <1>4. s.out = <<>> => s.cursor = NoCursor
    BY DEF ScanOK
  <1>5. QED
    BY <1>1, <1>2, <1>3, <1>4 DEF Obtained

\* A page goes on where the reader is, in order and without a gap.
LEMMA TurnOK ==
  ASSUME LogsOK, NEW s, ScanOK(s), NEW projects, NEW n \in Nat \ {0}
  PROVE  ScanOK(Turn(s, projects, n, Page(s, projects, n))) /\ Turn(s, projects, n, Page(s, projects, n)).mode = s.mode
  <1>1. PICK page : page = Page(s, projects, n)
    OBVIOUS
  <1>2. PICK found : found = Matching(s, projects)
    OBVIOUS
  <1>3. PICK c \in Nat : c = Cardinality(page)
    BY <1>1, PageIs
  <1>4. PICK ids : ids = Sorted(page)
    OBVIOUS
  <1>5. /\ page \in SUBSET Ahead(s, projects) /\ page \in SUBSET LogIds /\ c <= n
        /\ \A x \in Ahead(s, projects) : x \notin page => c = n /\ \A y \in page : Newer(y, x)
    <2>1. n \in Nat
      OBVIOUS
    <2>2. QED
      BY <1>1, <1>3, <2>1, PageIs
  <1>6. /\ ids \in [1 .. c -> page]
        /\ \A i, j \in 1 .. c : i < j => Newer(ids[i], ids[j])
        /\ \A x \in page : \E i \in 1 .. c : ids[i] = x
    BY <1>3, <1>4, <1>5, SortedIs
  <1>7. ids \in Seq(LogIds) /\ Len(ids) = c /\ DOMAIN ids = 1 .. c
    <2>1. ids \in [1 .. c -> LogIds]
      BY <1>5, <1>6
    <2>2. QED
      BY <2>1
  <1>8. PICK t : t = Turn(s, projects, n, page)
    OBVIOUS
  <1>9. /\ ScanLike(t) /\ t.mode = s.mode /\ t.cap = s.cap /\ t.out = s.out \o ids
        /\ t.cursor = IF ids = <<>> THEN s.cursor ELSE ids[Len(ids)]
        /\ t.kept = IF s.cursor = NoCursor THEN found ELSE s.kept \cap found
        /\ t.pc = IF Len(ids) = n THEN "paging" ELSE "done"
    <2>1. PICK cursor : cursor = IF ids = <<>> THEN s.cursor ELSE ids[Len(ids)]
      OBVIOUS
    <2>2. PICK kept : kept = IF s.cursor = NoCursor THEN found ELSE s.kept \cap found
      OBVIOUS
    <2>3. PICK begun : begun = IF s.cursor = NoCursor THEN found ELSE s.begun
      OBVIOUS
    <2>4. PICK pc2 : pc2 = IF Len(ids) = n THEN "paging" ELSE "done"
      OBVIOUS
    <2>5. PICK out : out = s.out \o ids
      OBVIOUS
    <2>6. t = [s EXCEPT !.out = out, !.cursor = cursor, !.kept = kept, !.begun = begun, !.pc = pc2]
      BY <1>2, <1>4, <1>8, <2>1, <2>2, <2>3, <2>4, <2>5, Zenon DEF Turn
    <2>7. /\ ScanLike(t) /\ t.mode = s.mode /\ t.cap = s.cap /\ t.out = out /\ t.cursor = cursor
          /\ t.kept = kept /\ t.pc = pc2
      BY <2>6 DEF ScanOK, ScanLike
    <2>8. QED
      BY <2>1, <2>2, <2>4, <2>5, <2>7
  <1>10. PICK a, b : a = s.out /\ b = t.out
    OBVIOUS
  <1>11. /\ a \in Seq(LogIds) /\ Len(a) \in Nat /\ DOMAIN a = 1 .. Len(a)
         /\ b \in Seq(LogIds) /\ Len(b) = Len(a) + c /\ DOMAIN b = 1 .. Len(a) + c
         /\ \A i \in 1 .. Len(a) + c : b[i] = IF i <= Len(a) THEN a[i] ELSE ids[i - Len(a)]
    <2>1. a \in Seq(LogIds) /\ b = a \o ids
      BY <1>9, <1>10 DEF ScanOK
    <2>2. /\ Len(a) \in Nat /\ DOMAIN a = 1 .. Len(a) /\ b \in Seq(LogIds) /\ Len(b) = Len(a) + c
          /\ DOMAIN b = 1 .. Len(a) + c
      <3>1. Len(a) \in Nat /\ DOMAIN a = 1 .. Len(a)
        BY <2>1
      <3>2. a \o ids \in Seq(LogIds) /\ Len(a \o ids) = Len(a) + Len(ids)
        <4>1. a \in Seq(LogIds) /\ ids \in Seq(LogIds)
          BY <1>7, <2>1
        <4>2. QED
          BY <4>1, ConcatProperties
      <3>3. b \in Seq(LogIds) /\ Len(b) = Len(a) + c
        BY <1>7, <2>1, <3>2
      <3>4. DOMAIN b = 1 .. Len(b)
        BY <3>3
      <3>5. QED
        BY <3>1, <3>3, <3>4
    <2>3. \A i \in 1 .. Len(a) + c : b[i] = IF i <= Len(a) THEN a[i] ELSE ids[i - Len(a)]
      BY <1>7, <2>1, <2>2
    <2>4. QED
      BY <2>1, <2>2, <2>3
  <1>a. Falling(a) /\ Obtained(s) = {a[i] : i \in DOMAIN a} /\ Obtained(t) = {b[i] : i \in DOMAIN b}
    BY <1>10 DEF Obtained, ScanOK
  <1>12. Obtained(t) = Obtained(s) \cup page
    <2>1. ASSUME NEW i \in 1 .. Len(a) + c PROVE b[i] \in Obtained(s) \cup page
      <3>1. CASE i <= Len(a)
        <4>1. i \in DOMAIN a /\ b[i] = a[i]
          BY <1>11, <3>1
        <4>2. QED
          BY <1>a, <4>1
      <3>2. CASE i > Len(a)
        <4>1. i - Len(a) \in 1 .. c /\ b[i] = ids[i - Len(a)]
          BY <1>11, <3>2
        <4>2. ids[i - Len(a)] \in page
          BY <1>6, <4>1
        <4>3. QED
          BY <4>1, <4>2
      <3>3. QED
        BY <1>11, <3>1, <3>2
    <2>2. ASSUME NEW i \in DOMAIN a PROVE a[i] \in Obtained(t)
      <3>1. i \in 1 .. Len(a) + c /\ b[i] = a[i]
        BY <1>11
      <3>2. QED
        BY <1>10, <1>11, <3>1 DEF Obtained
    <2>3. ASSUME NEW x \in page PROVE x \in Obtained(t)
      <3>1. PICK k \in 1 .. c : ids[k] = x
        BY <1>6
      <3>2. k + Len(a) \in 1 .. Len(a) + c /\ b[k + Len(a)] = x
        BY <1>11, <3>1
      <3>3. QED
        BY <1>10, <1>11, <3>2 DEF Obtained
    <2>4. QED
      BY <1>10, <1>11, <2>1, <2>2, <2>3 DEF Obtained
  <1>13. ASSUME NEW x \in Ahead(s, projects) PROVE x \in found /\ (s.cursor # NoCursor => Newer(s.cursor, x))
    BY <1>2 DEF Ahead, After
  <1>14. \A x \in found : x \in LogIds /\ Born(x)
    BY <1>2 DEF Matching, Stored, Born
  <1>15. \A id \in Obtained(t) : Born(id)
    BY <1>5, <1>12, <1>13, <1>14 DEF ScanOK
  <1>16. t.kept \subseteq found /\ (s.cursor # NoCursor => t.kept \subseteq s.kept)
    BY <1>9
  <1>17. ASSUME NEW x \in t.kept
         PROVE  x \in Obtained(t) \/ (c = n /\ \A y \in page : Newer(y, x))
    <2>1. CASE x \in Ahead(s, projects)
      BY <1>5, <1>12, <2>1
    <2>2. CASE x \notin Ahead(s, projects)
      <3>1. s.cursor # NoCursor /\ ~Newer(s.cursor, x)
        BY <1>2, <1>16, <2>2 DEF Ahead, After
      <3>2. x \in Obtained(s)
        BY <1>16, <3>1 DEF ScanOK
      <3>3. QED
        BY <1>12, <3>2
    <2>3. QED
      BY <2>1, <2>2
  <1>18. Falling(t.out)
    <2>1. ASSUME NEW i \in 1 .. Len(a) + c, NEW j \in 1 .. Len(a) + c, i < j PROVE Newer(b[i], b[j])
      <3>1. CASE j <= Len(a)
        <4>1. i \in DOMAIN a /\ j \in DOMAIN a /\ b[i] = a[i] /\ b[j] = a[j]
          BY <1>11, <2>1, <3>1
        <4>2. QED
          BY <1>a, <2>1, <4>1 DEF Falling
      <3>2. CASE i > Len(a)
        <4>1. /\ i - Len(a) \in 1 .. c /\ j - Len(a) \in 1 .. c /\ i - Len(a) < j - Len(a)
              /\ b[i] = ids[i - Len(a)] /\ b[j] = ids[j - Len(a)]
          BY <1>11, <2>1, <3>2
        <4>2. QED
          BY <1>6, <4>1
      <3>3. CASE i <= Len(a) /\ j > Len(a)
        <4>1. i \in DOMAIN a /\ b[i] = a[i] /\ j - Len(a) \in 1 .. c /\ b[j] = ids[j - Len(a)]
          BY <1>11, <2>1, <3>3
        <4>2. b[j] \in page /\ b[j] \in LogIds /\ a[i] \in LogIds
          BY <1>5, <1>6, <1>11, <4>1
        <4>3. s.out # <<>>
          BY <1>10, <4>1
        <4>4. /\ s.cursor # NoCursor /\ s.cursor = a[Len(a)] /\ s.cursor \in LogIds /\ Len(a) \in DOMAIN a
          BY <1>10, <4>3, RealCursor
        <4>5. Newer(s.cursor, b[j])
          BY <1>5, <1>13, <4>2, <4>4
        <4>6. i = Len(a) \/ Newer(a[i], a[Len(a)])
          <5>1. i = Len(a) \/ i < Len(a)
            BY <1>11, <4>1
          <5>2. QED
            BY <1>a, <4>1, <4>4, <5>1 DEF Falling
        <4>7. Newer(a[i], b[j])
          BY <4>2, <4>4, <4>5, <4>6, NewerTotal
        <4>8. QED
          BY <4>1, <4>7
      <3>4. QED
        BY <1>11, <3>1, <3>2, <3>3
    <2>2. QED
      BY <1>10, <1>11, <2>1 DEF Falling
  <1>19. t.cursor = IF t.out = <<>> THEN NoCursor ELSE t.out[Len(t.out)]
    <2>1. CASE c = 0
      <3>1. ids = <<>> /\ b = a
        BY <1>7, <1>9, <1>10, <1>11, <2>1
      <3>2. QED
        BY <1>9, <1>10, <3>1 DEF ScanOK
    <2>2. CASE c > 0
      <3>1. ids # <<>> /\ b # <<>> /\ Len(b) = Len(a) + c /\ b[Len(a) + c] = ids[c]
        BY <1>7, <1>11, <2>2
      <3>2. QED
        BY <1>7, <1>9, <1>10, <3>1
    <2>3. QED
      BY <2>1, <2>2
  <1>20. ASSUME NEW x \in t.kept PROVE x \in Obtained(t) \/ (t.cursor # NoCursor /\ Newer(t.cursor, x))
    <2>1. CASE c = n /\ \A y \in page : Newer(y, x)
      <3>1. c \in 1 .. c /\ ids[c] \in page
        BY <1>6, <2>1
      <3>2. ids # <<>> /\ Len(ids) = c
        BY <1>7, <3>1
      <3>3. t.cursor = ids[c] /\ ids[c] \in LogIds
        BY <1>5, <1>9, <3>1, <3>2
      <3>4. t.cursor # NoCursor
        BY <3>3, LogQueriesAssumption DEF NoCursor, None
      <3>5. QED
        BY <2>1, <3>1, <3>3, <3>4
    <2>2. QED
      BY <1>17, <2>1
  <1>21. t.pc = "done" => t.kept \subseteq Obtained(t)
    BY <1>7, <1>9, <1>17
  <1>22. ScanOK(t)
    BY <1>9, <1>10, <1>11, <1>14, <1>15, <1>16, <1>18, <1>19, <1>20, <1>21 DEF ScanOK
  <1>23. QED
    BY <1>1, <1>8, <1>9, <1>22

\* An export stops at its cap, at the row it wrote last.
LEMMA CappedOK ==
  ASSUME LogsOK, NEW s, ScanOK(s), s.mode = "export"
  PROVE  ScanOK(Capped(s))
  <1>1. SUFFICES ASSUME Len(s.out) > s.cap PROVE ScanOK(Capped(s))
    BY DEF Capped, ScanOK
  <1>2. PICK k \in Nat \ {0} : k = s.cap /\ k < Len(s.out)
    BY <1>1 DEF ScanOK
  <1>3. PICK a, b : a = s.out /\ b = SubSeq(a, 1, k)
    OBVIOUS
  <1>4. /\ a \in Seq(LogIds) /\ Len(a) \in Nat /\ DOMAIN a = 1 .. Len(a) /\ k < Len(a) /\ a # <<>>
    BY <1>2, <1>3 DEF ScanOK
  <1>a. Falling(a) /\ Obtained(s) = {a[i] : i \in DOMAIN a}
    BY <1>3 DEF Obtained, ScanOK
  <1>5. /\ b \in Seq(LogIds) /\ Len(b) = k /\ DOMAIN b = 1 .. k /\ b # <<>>
        /\ \A i \in 1 .. k : b[i] = a[i]
    BY <1>3, <1>4
  <1>6. PICK t : t = Capped(s)
    OBVIOUS
  <1>7. t = [s EXCEPT !.out = b, !.cursor = a[k], !.pc = "capped"]
    BY <1>1, <1>2, <1>3, <1>6 DEF Capped
  <1>8. /\ ScanLike(t) /\ t.mode = s.mode /\ t.cap = s.cap /\ t.kept = s.kept
        /\ t.out = b /\ t.cursor = a[k] /\ t.pc = "capped"
    BY <1>7 DEF ScanOK, ScanLike
  <1>9. Obtained(t) \subseteq Obtained(s) /\ a[k] \in LogIds
    BY <1>3, <1>4, <1>5, <1>8 DEF Obtained
  <1>10. Falling(b)
    <2>1. ASSUME NEW i \in 1 .. k, NEW j \in 1 .. k, i < j PROVE Newer(b[i], b[j])
      <3>1. i \in DOMAIN a /\ j \in DOMAIN a /\ b[i] = a[i] /\ b[j] = a[j]
        BY <1>4, <1>5
      <3>2. QED
        BY <1>a, <2>1, <3>1 DEF Falling
    <2>2. QED
      BY <1>5, <2>1 DEF Falling
  <1>11. a[k] # NoCursor
    BY <1>9, LogQueriesAssumption DEF NoCursor, None
  <1>12. ASSUME NEW x \in s.kept PROVE x \in Obtained(t) \/ Newer(a[k], x)
    <2>1. Newer(a[k], a[Len(a)]) /\ a[Len(a)] \in LogIds /\ x \in LogIds
      <3>1. k \in DOMAIN a /\ Len(a) \in DOMAIN a /\ k < Len(a) /\ a[Len(a)] \in LogIds
        BY <1>4
      <3>2. QED
        BY <1>a, <3>1 DEF Falling, ScanOK
    <2>2. CASE x \in Obtained(s)
      <3>1. PICK i \in DOMAIN a : a[i] = x
        BY <1>3, <2>2 DEF Obtained
      <3>2. CASE i <= k
        <4>1. i \in DOMAIN b /\ b[i] = x
          BY <1>4, <1>5, <3>1, <3>2
        <4>2. QED
          BY <1>8, <4>1 DEF Obtained
      <3>3. CASE i > k
        <4>1. k \in DOMAIN a /\ i \in DOMAIN a /\ k < i
          BY <1>4, <3>1, <3>3
        <4>2. QED
          BY <1>a, <3>1, <4>1 DEF Falling
      <3>4. QED
        BY <1>4, <3>2, <3>3
    <2>3. CASE x \notin Obtained(s)
      <3>1. s.cursor = a[Len(a)] /\ Newer(s.cursor, x)
        BY <1>3, <1>4, <2>3 DEF ScanOK
      <3>2. QED
        BY <1>9, <2>1, <3>1, NewerTotal
    <2>4. QED
      BY <2>2, <2>3
  <1>13. ScanOK(t)
    BY <1>5, <1>8, <1>9, <1>10, <1>11, <1>12 DEF ScanOK
  <1>14. QED
    BY <1>6, <1>13

\* A step that leaves the table alone
LEMMA ScanMoves ==
  ASSUME LogsOK, NEW t, ScanOK(t), scan' = t, logs' = logs
  PROVE  PagesInv'
  <1>1. LogsOK'
    BY DEF LogsOK
  <1>2. PICK l : l = logs
    OBVIOUS
  <1>3. ScanOK(t)'
    BY DEF ScanOK, Born, Falling, Newer, Obtained
  <1>4. QED
    BY <1>1, <1>3 DEF PagesInv, ScanOK, Born, Falling, Newer, Obtained, ScanLike

\* A new query
Fresh(s) == /\ ScanLike(s) /\ s.out = <<>> /\ s.kept = {} /\ s.cursor = NoCursor /\ s.pc # "done"
            /\ s.mode = "export" => s.cap \in Nat \ {0}

LEMMA FreshOK == ASSUME NEW s, Fresh(s) PROVE ScanOK(s)
  <1>1. s.out \in Seq(LogIds) /\ DOMAIN s.out = {} /\ Obtained(s) = {}
    BY DEF Fresh, Obtained
  <1>2. QED
    BY <1>1 DEF Fresh, ScanOK, Falling

LEMMA FilterFresh ==
  ASSUME NEW f \in Filters
  PROVE  Fresh(f) /\ f.mode = "list"
  <1>1. PICK tags \in BOOLEAN, from \in {None, 0}, to \in {None, 0} : f = Filter(tags, from, to)
    BY DEF Filters
  <1>2. QED
    BY <1>1 DEF Filter, IdleScan, Fresh, ScanLike

LEMMA BeginOK ==
  ASSUME LogsOK, NEW f, Fresh(f), Begin(f)
  PROVE  PagesInv'
  <1>1. PICK t : t = [f EXCEPT !.pc = "paging"]
    OBVIOUS
  <1>2. Fresh(t)
    BY <1>1 DEF Fresh, ScanLike
  <1>3. scan' = t /\ logs' = logs
    BY <1>1 DEF Begin, ParseLogQuery
  <1>4. QED
    BY <1>2, <1>3, FreshOK, ScanMoves

LEMMA StartOK ==
  ASSUME LogsOK, Start
  PROVE  PagesInv'
  <1>1. ASSUME NEW f \in Filters, NEW asked, Begin([f EXCEPT !.asked = asked]) PROVE PagesInv'
    <2>1. PICK t : t = [f EXCEPT !.asked = asked]
      OBVIOUS
    <2>2. Fresh(f)
      BY FilterFresh
    <2>3. Fresh(t)
      BY <2>1, <2>2 DEF Fresh, ScanLike
    <2>4. QED
      BY <1>1, <2>1, <2>3, BeginOK
  <1>2. ASSUME NEW f \in Filters, NEW reader, NEW asked, Begin([f EXCEPT !.reader = reader, !.asked = asked])
        PROVE  PagesInv'
    <2>1. PICK t : t = [f EXCEPT !.reader = reader, !.asked = asked]
      OBVIOUS
    <2>2. Fresh(f)
      BY FilterFresh
    <2>3. Fresh(t)
      BY <2>1, <2>2 DEF Fresh, ScanLike
    <2>4. QED
      BY <1>2, <2>1, <2>3, BeginOK
  <1>3. ASSUME NEW f \in Filters, NEW reader, NEW asked, StreamExport(f, reader, asked) PROVE PagesInv'
    <2>1. PICK projects \in SelectProjects(asked, VisibleTo(reader)), cap \in RowCaps :
            Begin([f EXCEPT !.reader = reader, !.mode = "export", !.scope = projects, !.cap = cap])
      BY <1>3 DEF StreamExport
    <2>2. PICK t : t = [f EXCEPT !.reader = reader, !.mode = "export", !.scope = projects, !.cap = cap]
      OBVIOUS
    <2>3. Fresh(f) /\ cap \in Nat \ {0}
      BY FilterFresh, LogQueriesAssumption
    <2>4. Fresh(t)
      BY <2>2, <2>3 DEF Fresh, ScanLike
    <2>5. QED
      BY <2>1, <2>2, <2>4, BeginOK
  <1>4. CASE \E p \in LogProjects : Query(p) \/ ExportProject(p)
    BY <1>1, <1>3, <1>4 DEF Query, ExportProject
  <1>5. CASE QueryOrg \/ QueryAPILogs
    BY <1>1, <1>2, <1>5 DEF QueryOrg, QueryAPILogs
  <1>6. CASE ExportOrg \/ ExportAPILogs
    BY <1>3, <1>6 DEF ExportOrg, ExportAPILogs
  <1>7. QED
    BY <1>4, <1>5, <1>6 DEF Start

\* A change of the table that leaves the rows that exist where they are
LEMMA TableMoves ==
  ASSUME PagesInv, LogsOK', ScanLike(scan)', NEW kept, kept \subseteq scan.kept,
         scan'.out = scan.out, scan'.kept = kept, scan'.cursor = scan.cursor, scan'.mode = scan.mode,
         scan'.cap = scan.cap, scan'.pc = scan.pc,
         \A id \in LogIds : Born(id) => Born(id)' /\ logs'[id].ts = logs[id].ts
  PROVE  PagesInv'
  <1>1. PICK s, t, a : s = scan /\ t = scan' /\ a = s.out
    OBVIOUS
  <1>2. ScanOK(s) /\ ScanLike(t) /\ t.out = a /\ t.kept \subseteq s.kept /\ t.cursor = s.cursor /\ t.mode = s.mode
        /\ t.cap = s.cap /\ t.pc = s.pc
    <2>1. ScanLike(t)
      BY <1>1 DEF ScanLike
    <2>2. QED
      BY <1>1, <2>1 DEF PagesInv
  <1>3. Obtained(s) = {a[i] : i \in DOMAIN a} /\ Obtained(t) = Obtained(s) /\ Obtained(s) \subseteq LogIds
    BY <1>1, <1>2 DEF Obtained, ScanOK
  <1>4. ASSUME NEW x \in LogIds, NEW y \in LogIds, Born(x), Born(y), Newer(x, y) PROVE Newer(x, y)'
    BY <1>4 DEF Newer
  <1>5. \A id \in t.kept : id \in LogIds /\ Born(id)
    BY <1>2 DEF ScanOK
  <1>6. \A id \in Obtained(t) : id \in LogIds /\ Born(id)
    BY <1>2, <1>3 DEF ScanOK
  <1>7. Falling(a)'
    <2>1. Falling(a) /\ \A i \in DOMAIN a : a[i] \in LogIds /\ Born(a[i])
      BY <1>1, <1>2, <1>3 DEF ScanOK
    <2>2. QED
      BY <1>4, <2>1 DEF Falling
  <1>8. ASSUME NEW x \in t.kept PROVE x \in Obtained(t) \/ (t.cursor # NoCursor /\ Newer(t.cursor, x)')
    <2>1. x \in Obtained(s) \/ (s.cursor # NoCursor /\ Newer(s.cursor, x))
      BY <1>2 DEF ScanOK
    <2>2. s.cursor # NoCursor => s.cursor \in LogIds /\ Born(s.cursor)
      BY <1>2, <1>3, <1>6, RealCursor
    <2>3. QED
      BY <1>2, <1>3, <1>4, <1>5, <2>1, <2>2
  <1>9. t.pc = "done" => t.kept \subseteq Obtained(t)
    BY <1>2, <1>3 DEF ScanOK
  <1>10. /\ t.out \in Seq(LogIds) /\ t.cursor = IF t.out = <<>> THEN NoCursor ELSE t.out[Len(t.out)]
         /\ t.mode = "export" => t.cap \in Nat \ {0}
    BY <1>1, <1>2 DEF ScanOK
  <1>11. ScanOK(t)'
    <2>1. (\A id \in Obtained(t)' : Born(id)') /\ \A id \in t.kept : Born(id)'
      BY <1>5, <1>6 DEF Obtained
    <2>2. ScanLike(t)' /\ Falling(t.out)' /\ t.kept \subseteq LogIds /\ Obtained(t)' = Obtained(t)
      BY <1>2, <1>5, <1>7 DEF ScanLike, Falling, Obtained
    <2>3. QED
      BY <1>8, <1>9, <1>10, <2>1, <2>2 DEF ScanOK
  <1>12. QED
    BY <1>1, <1>11 DEF PagesInv, ScanOK, Born, Falling, Newer, Obtained, ScanLike

-----------------------------------------------------------------------------
LEMMA InitOK == LogQueriesInit => PagesInv
  <1>1. SUFFICES ASSUME LogQueriesInit PROVE PagesInv
    OBVIOUS
  <1>2. LogsOK
    BY <1>1 DEF LogQueriesInit, LogsOK, RowLike, Unborn
  <1>3. Fresh(scan)
    BY <1>1 DEF LogQueriesInit, IdleScan, Fresh, ScanLike
  <1>4. QED
    BY <1>2, <1>3, FreshOK DEF PagesInv

\* Reading a page, of a list or of an export, and leaving it
LEMMA ListOK ==
  ASSUME PagesInv, NEW n \in PageSizes, RunLogQuery(n)
  PROVE  PagesInv'
  <1>1. n \in Nat \ {0} /\ LogsOK /\ ScanOK(scan)
    BY LogQueriesAssumption DEF PagesInv
  <1>2. PICK projects \in SelectProjects(scan.asked, VisibleTo(scan.reader)) :
          scan' = Turn(scan, projects, n, Page(scan, projects, n))
    BY DEF RunLogQuery
  <1>3. PICK t : t = Turn(scan, projects, n, Page(scan, projects, n))
    OBVIOUS
  <1>4. ScanOK(t)
    BY <1>1, <1>3, TurnOK
  <1>5. scan' = t /\ logs' = logs
    BY <1>2, <1>3 DEF RunLogQuery
  <1>6. QED
    BY <1>1, <1>4, <1>5, ScanMoves

LEMMA ExportOK ==
  ASSUME PagesInv, WriteExport
  PROVE  PagesInv'
  <1>1. ExportPage \in Nat \ {0} /\ LogsOK /\ ScanOK(scan) /\ scan.mode = "export"
    BY LogQueriesAssumption DEF PagesInv, WriteExport
  <1>2. PICK t : t = Turn(scan, scan.scope, ExportPage, Page(scan, scan.scope, ExportPage))
    OBVIOUS
  <1>3. ScanOK(t) /\ t.mode = "export"
    BY <1>1, <1>2, TurnOK
  <1>4. PICK c : c = Capped(t)
    OBVIOUS
  <1>5. ScanOK(c)
    BY <1>1, <1>3, <1>4, CappedOK
  <1>6. scan' = c /\ logs' = logs
    BY <1>2, <1>4 DEF WriteExport
  <1>7. QED
    BY <1>1, <1>5, <1>6, ScanMoves

LEMMA CutOK ==
  ASSUME PagesInv, Cut
  PROVE  PagesInv'
  <1>1. PICK t : t = [IdleScan EXCEPT !.pc = "cut"]
    OBVIOUS
  <1>2. Fresh(t)
    BY <1>1 DEF IdleScan, Fresh, ScanLike
  <1>3. scan' = t /\ logs' = logs /\ LogsOK
    BY <1>1 DEF Cut, PagesInv
  <1>4. QED
    BY <1>2, <1>3, FreshOK, ScanMoves

\* The table changes under the reader: a row that is born is not in its hand, and a row
\* that dies is not waited for.
LEMMA IngestOK ==
  ASSUME PagesInv, NEW id \in LogIds, NEW ts \in Times, NEW p \in LogProjects, Ingest(id, ts, p)
  PROVE  PagesInv'
  <1>1. PICK row : row = [state |-> "stored", ts |-> ts, project |-> p]
    OBVIOUS
  <1>2. RowLike(row) /\ row.ts \in Int
    BY <1>1, LogQueriesAssumption DEF RowLike, Times
  <1>3. logs' = [logs EXCEPT ![id] = row] /\ logs = [x \in LogIds |-> logs[x]] /\ scan' = scan /\ ~Born(id)
    BY <1>1 DEF Ingest, PagesInv, LogsOK, Born
  <1>4. \A x \in LogIds : logs'[x] = IF x = id THEN row ELSE logs[x]
    BY <1>3
  <1>5. logs' = [x \in LogIds |-> logs'[x]]
    BY <1>3
  <1>6. LogsOK'
    BY <1>2, <1>4, <1>5 DEF PagesInv, LogsOK, RowLike
  <1>7. \A x \in LogIds : Born(x) => Born(x)' /\ logs'[x].ts = logs[x].ts
    BY <1>3, <1>4 DEF Born
  <1>8. PICK kept : kept = scan.kept
    OBVIOUS
  <1>9. ScanLike(scan)'
    BY <1>3 DEF PagesInv, ScanOK, ScanLike
  <1>10. /\ scan'.out = scan.out /\ scan'.kept = kept /\ scan'.cursor = scan.cursor /\ scan'.mode = scan.mode
         /\ scan'.cap = scan.cap /\ scan'.pc = scan.pc
    BY <1>3, <1>8
  <1>11. QED
    BY <1>6, <1>7, <1>8, <1>9, <1>10, TableMoves

LEMMA PurgeOK ==
  ASSUME PagesInv, NEW cutoff \in Times, Purge(cutoff)
  PROVE  PagesInv'
  <1>1. PICK old : old = {id \in Stored : logs[id].ts < cutoff}
    OBVIOUS
  <1>2. /\ logs' = [id \in LogIds |-> IF id \in old THEN [logs[id] EXCEPT !.state = "deleted"] ELSE logs[id]]
        /\ scan' = [scan EXCEPT !.kept = scan.kept \ old, !.begun = scan.begun \ old]
    BY <1>1 DEF Purge
  <1>3. ASSUME NEW id \in LogIds
        PROVE  RowLike(logs'[id]) /\ logs'[id].ts = logs[id].ts /\ (Born(id) => logs'[id].state # "unborn")
    <2>1. RowLike(logs[id]) /\ logs'[id] = IF id \in old THEN [logs[id] EXCEPT !.state = "deleted"] ELSE logs[id]
      BY <1>2 DEF PagesInv, LogsOK
    <2>2. QED
      BY <2>1 DEF RowLike, Born
  <1>4. logs' = [id \in LogIds |-> logs'[id]]
    BY <1>2
  <1>5. LogsOK'
    BY <1>3, <1>4 DEF PagesInv, LogsOK, RowLike
  <1>6. \A id \in LogIds : Born(id) => Born(id)' /\ logs'[id].ts = logs[id].ts
    BY <1>3 DEF Born
  <1>7. PICK kept : kept = scan.kept \ old
    OBVIOUS
  <1>8. ScanLike(scan)
    BY DEF PagesInv, ScanOK
  <1>9. /\ scan'.out = scan.out /\ scan'.kept = kept /\ scan'.cursor = scan.cursor /\ scan'.mode = scan.mode
        /\ scan'.cap = scan.cap /\ scan'.pc = scan.pc /\ ScanLike(scan)'
    BY <1>2, <1>7, <1>8 DEF ScanLike
  <1>10. QED
    BY <1>5, <1>6, <1>7, <1>9, TableMoves

LEMMA LeftAlone ==
  ASSUME PagesInv, logs' = logs, scan' = scan
  PROVE  PagesInv'
  <1>1. PICK t : t = scan
    OBVIOUS
  <1>2. LogsOK /\ ScanOK(t) /\ scan' = t
    BY <1>1 DEF PagesInv
  <1>3. QED
    BY <1>2, ScanMoves

LEMMA PagesNext ==
  ASSUME PagesInv, [LogQueriesNext]_logQueryVars
  PROVE  PagesInv'
  <1>1. CASE Start
    BY <1>1, StartOK DEF PagesInv
  <1>2. CASE (\E n \in PageSizes : RunLogQuery(n)) \/ WriteExport
    BY <1>2, ListOK, ExportOK
  <1>3. CASE Refused \/ StopEarly
    BY <1>3, CutOK DEF Refused, StopEarly
  <1>4. CASE \E id \in LogIds, ts \in Times, p \in LogProjects : Ingest(id, ts, p)
    BY <1>4, IngestOK
  <1>5. CASE \E t \in Times : Purge(t)
    BY <1>5, PurgeOK
  <1>6. CASE (\E p \in LogProjects : ChangeSight(p)) \/ Pass \/ UNCHANGED logQueryVars
    BY <1>6, LeftAlone DEF ChangeSight, Pass, logQueryVars
  <1>7. QED
    BY <1>1, <1>2, <1>3, <1>4, <1>5, <1>6 DEF LogQueriesNext, ReadPages, ChangeTable

\* Reading stored logs page by page misses nothing and repeats nothing: whatever is
\* ingested, deleted or hidden between two pages, what a list or an export has returned
\* is strictly newest first, every row that has matched all along is in it or past the
\* cursor, and after a last page none of them is missing.
THEOREM PagesHaveNoGaps == LogQueriesSpec => []PagesAreComplete
  <1>1. LogQueriesInit => PagesInv
    BY InitOK
  <1>2. PagesInv /\ [LogQueriesNext]_logQueryVars => PagesInv'
    BY PagesNext
  <1>3. PagesInv => PagesAreComplete
    BY DEF PagesInv, ScanOK, Falling, Obtained, PagesAreComplete, Returned
  <1>4. QED
    BY <1>1, <1>2, <1>3, PTL DEF LogQueriesSpec
-----------------------------------------------------------------------------
(* LogAnalytics: figures that account for every row. *)

TableOK ==
    /\ table = [id \in DOMAIN table |-> table[id]] /\ IsFiniteSet(DOMAIN table)
    /\ \A id \in DOMAIN table : table[id] \in Row

\* What the property says of a figure
SeriesFits(c) ==
    /\ SumFunction(c.counts) = Cardinality(c.read)
    /\ Aligned(c.range) => c.read = c.wanted
GroupsFit(c) ==
    LET counts == [i \in DOMAIN c.groups |-> c.groups[i].count]
    IN  /\ Len(counts) < c.limit => SumFunction(counts) = Cardinality(c.read)
        /\ \A i \in DOMAIN counts : \A g \in GroupsOf(c.read, c.by) :
             g.count > counts[i] => \E j \in DOMAIN counts : counts[j] >= g.count /\ counts[j] = g.count
        /\ Aligned(c.range) => c.read = c.wanted
TotalFits(c) ==
    IF c.exact THEN c.total = Cardinality(c.read) ELSE c.total = TotalCap /\ Cardinality(c.read) >= TotalCap

FigureFits(c) ==
    /\ c.kind = "series" => SeriesFits(c)
    /\ c.kind = "groups" => GroupsFit(c)
    /\ c.kind = "stats" => SumFunction(c.counts) = Cardinality(c.read)
    /\ c.kind = "total" => TotalFits(c)

ChartsInv == TableOK /\ FigureFits(chart)

LEMMA FitsMeans == ASSUME FigureFits(chart) PROVE ChartsAddUp
  <1>1. CASE chart.kind = "series"
    BY <1>1 DEF FigureFits, SeriesFits, ChartsAddUp
  <1>2. CASE chart.kind = "groups"
    BY <1>2 DEF FigureFits, GroupsFit, ChartsAddUp
  <1>3. CASE chart.kind = "stats"
    BY <1>3 DEF FigureFits, ChartsAddUp
  <1>4. CASE chart.kind = "total"
    BY <1>4 DEF FigureFits, TotalFits, ChartsAddUp
  <1>5. CASE chart.kind \notin {"series", "groups", "stats", "total"}
    BY <1>5 DEF ChartsAddUp
  <1>6. QED
    BY <1>1, <1>2, <1>3, <1>4, <1>5

LEMMA MinOfPair == ASSUME NEW a \in Int, NEW b \in Int PROVE Min({a, b}) = IF a <= b THEN a ELSE b
  BY DEF Min

LEMMA RowsFinite ==
  ASSUME TableOK
  PROVE  /\ \A p, w, level, rolled : RowsIn(p, w, level, rolled) \in SUBSET DOMAIN table
         /\ \A p : RowsOf(p) \in SUBSET DOMAIN table
         /\ \A ids \in SUBSET DOMAIN table : IsFiniteSet(ids) /\ Cardinality(ids) \in Nat
         /\ \A id \in DOMAIN table :
              /\ table[id].ts \in Int /\ table[id].level \in LevelNames /\ table[id].project \in ChartProjects
              /\ table[id].field \in {Missing, ""}
  <1>1. \A id \in DOMAIN table :
          /\ table[id].ts \in Int /\ table[id].level \in LevelNames /\ table[id].project \in ChartProjects
          /\ table[id].field \in {Missing, ""}
    <2>1. \A t \in Stamps : t \in Int
      BY DEF Stamps
    <2>2. QED
      BY <2>1 DEF TableOK, Row
  <1>2. \A ids \in SUBSET DOMAIN table : IsFiniteSet(ids) /\ Cardinality(ids) \in Nat
    BY FS_Subset, FS_CardinalityType DEF TableOK
  <1>3. QED
    BY <1>1, <1>2 DEF RowsIn, RowsOf

\* Rounding down: to a multiple, the largest up to the number
LEMMA FloorIs ==
  ASSUME NEW t \in Int, NEW step \in Nat \ {0}
  PROVE  /\ Floor(t, step) \in Int /\ Floor(t, step) <= t /\ Floor(t, step) % step = 0
         /\ \A m \in Int : m % step = 0 => (m <= t <=> m <= Floor(t, step))
         /\ \A u \in Int : u <= t => Floor(u, step) <= Floor(t, step)
  <1>1. PICK q \in Int : q = t \div step
    BY DivBounds
  <1>2. Floor(t, step) = q * step /\ q * step \in Int /\ q * step <= t
    BY <1>1, DivBounds, Multiples DEF Floor
  <1>3. (q * step) % step = 0
    <2>1. (q * step) \div step = q
      BY DivIs, Multiples
    <2>2. QED
      BY <1>2, <2>1
  <1>4. ASSUME NEW m \in Int, m % step = 0 PROVE m <= t <=> m <= q * step
    <2>1. PICK r \in Int : r = m \div step
      BY DivBounds
    <2>2. m = r * step
      BY <1>4, <2>1
    <2>3. q >= r <=> t >= r * step
      BY <1>1, DivIs
    <2>4. r <= q <=> r * step <= q * step
      BY Multiples
    <2>5. QED
      BY <2>2, <2>3, <2>4
  <1>5. ASSUME NEW u \in Int, u <= t PROVE Floor(u, step) <= q * step
    <2>1. PICK r \in Int : r = u \div step
      BY DivBounds
    <2>2. Floor(u, step) = r * step /\ r * step <= u /\ r * step \in Int
      BY <2>1, DivBounds, Multiples DEF Floor
    <2>3. r * step <= t
      BY <1>5, <2>2
    <2>4. q >= r
      BY <1>1, <2>3, DivIs
    <2>5. QED
      BY <2>2, <2>4, Multiples
  <1>6. QED
    BY <1>2, <1>3, <1>4, <1>5

\* A range between hours selects the same rows in the rollup.
LEMMA WholeHours ==
  ASSUME TableOK, NEW p, NEW w, w.from \in Int, w.to \in Int, NEW level, NEW rolled \in BOOLEAN, Aligned(w)
  PROVE  RowsIn(p, w, level, rolled) = RowsIn(p, w, level, FALSE)
  <1>1. ASSUME NEW id \in DOMAIN table
        PROVE  /\ StampOf(id, rolled) >= w.from <=> StampOf(id, FALSE) >= w.from
               /\ StampOf(id, rolled) < w.to <=> StampOf(id, FALSE) < w.to
    <2>1. PICK t \in Int : t = table[id].ts
      BY RowsFinite
    <2>2. PICK h \in Nat \ {0} : h = HourWidth
      BY LogAnalyticsAssumption
    <2>3. w.from % h = 0 /\ w.to % h = 0
      BY <2>2 DEF Aligned
    <2>4. PICK f \in Int : f = Floor(t, h)
      BY FloorIs
    <2>5. (w.from <= t <=> w.from <= f) /\ (w.to <= t <=> w.to <= f)
      BY <2>3, <2>4, FloorIs
    <2>6. PICK x : x = StampOf(id, rolled)
      OBVIOUS
    <2>7. (x = f \/ x = t) /\ StampOf(id, FALSE) = t
      BY <2>1, <2>2, <2>4, <2>6 DEF StampOf
    <2>8. PICK from \in Int, to \in Int : from = w.from /\ to = w.to
      OBVIOUS
    <2>9. (x >= from <=> t >= from) /\ (x < to <=> t < to)
      BY <2>5, <2>7, <2>8
    <2>10. QED
      BY <2>6, <2>7, <2>8, <2>9
  <1>2. QED
    BY <1>1 DEF RowsIn

\* A range as it is asked for
LEMMA WindowIs ==
  ASSUME NEW w \in Windows
  PROVE  w.from \in Int /\ w.to \in Int
  <1>1. PICK from \in Stamps \cup {Unset}, to \in Stamps \cup {Unset} : w = WindowOf(from, to)
    BY DEF Windows
  <1>2. from \in Int /\ to \in Int
    BY DEF Stamps, Unset
  <1>3. ChartNow \in Int /\ DefaultSpan \in Int
    BY LogAnalyticsAssumption
  <1>4. QED
    BY <1>1, <1>2, <1>3 DEF WindowOf

LEMMA LevelsFinite == IsFiniteSet(LevelNames)
  <1>1. IsFiniteSet({"ERROR"}) /\ IsFiniteSet({"INFO"})
    BY FS_Singleton
  <1>2. LevelNames = {"ERROR"} \cup {"INFO"}
    BY DEF LevelNames
  <1>3. QED
    BY <1>1, <1>2, FS_Union

\* Every row of the range is in a bucket of its own and of its level.
LEMMA SeriesCounts ==
  ASSUME TableOK, NEW p, NEW w, w.from \in Int, w.to \in Int, NEW step \in Nat \ {0}, NEW level, NEW rolled \in BOOLEAN,
         NEW ids, ids = RowsIn(p, w, level, rolled)
  PROVE  SumFunction(SeriesOf(ids, rolled, w, step)) = Cardinality(ids)
  <1>1. PICK B : B = Buckets(w, step)
    OBVIOUS
  <1>2. PICK C : C = B \X LevelNames
    OBVIOUS
  <1>3. IsFiniteSet(ids) /\ ids \subseteq DOMAIN table
    BY RowsFinite
  <1>4. IsFiniteSet(C)
    <2>0. PICK from \in Int, to \in Int : from = w.from /\ to = w.to
      OBVIOUS
    <2>a. Floor(from, step) \in Int
      BY FloorIs
    <2>1. PICK lo \in Int, hi \in Int : lo = Floor(w.from, step) /\ hi = w.to - 1
      BY <2>0, <2>a
    <2>2. IsFiniteSet(lo .. hi)
      BY FS_Interval
    <2>3. B \subseteq lo .. hi
      BY <1>1, <2>1 DEF Buckets
    <2>4. IsFiniteSet(B)
      BY <2>2, <2>3, FS_Subset
    <2>5. IsFiniteSet(LevelNames)
      BY LevelsFinite
    <2>6. QED
      BY <1>2, <2>4, <2>5, FS_Product
  <1>5. PICK s : s = [id \in ids |-> <<Floor(StampOf(id, rolled), step), table[id].level>>]
    OBVIOUS
  <1>6. ASSUME NEW id \in ids PROVE s[id] \in C
    <2>1. table[id].ts \in Int /\ table[id].level \in LevelNames
      BY <1>3, RowsFinite
    <2>2. PICK t : t = StampOf(id, rolled)
      OBVIOUS
    <2>3. t \in Int
      BY <2>1, <2>2, FloorIs, LogAnalyticsAssumption DEF StampOf
    <2>4. t >= w.from /\ t < w.to
      BY <2>2 DEF RowsIn
    <2>5. PICK f : f = Floor(t, step)
      OBVIOUS
    <2>6. f \in Int /\ f <= t /\ f % step = 0 /\ Floor(w.from, step) <= f /\ Floor(w.from, step) \in Int
      BY <2>3, <2>4, <2>5, FloorIs
    <2>7. f \in B
      BY <1>1, <2>3, <2>4, <2>6 DEF Buckets
    <2>8. QED
      BY <1>2, <1>5, <2>1, <2>2, <2>5, <2>7
  <1>7. s \in [ids -> C]
    BY <1>5, <1>6
  <1>8. PICK n : n = SeriesOf(ids, rolled, w, step)
    OBVIOUS
  <1>9. n = [b \in C |-> Cardinality({id \in ids : Floor(StampOf(id, rolled), step) = b[1] /\ table[id].level = b[2]})]
    BY <1>1, <1>2, <1>8 DEF SeriesOf
  <1>10. ASSUME NEW b \in C PROVE n[b] = Cardinality({id \in ids : s[id] = b}) /\ n[b] \in Int
    <2>1. \A id \in ids : s[id] = b <=> Floor(StampOf(id, rolled), step) = b[1] /\ table[id].level = b[2]
      BY <1>2, <1>5
    <2>2. PICK T : T = {id \in ids : s[id] = b}
      OBVIOUS
    <2>3. n[b] = Cardinality(T)
      BY <1>9, <2>1, <2>2
    <2>4. T \subseteq ids
      BY <2>2
    <2>5. Cardinality(T) \in Nat
      BY <1>3, <2>4, RowsFinite
    <2>6. QED
      BY <2>2, <2>3, <2>5
  <1>11. n \in [C -> Int]
    BY <1>9, <1>10
  <1>12. QED
    BY <1>3, <1>4, <1>7, <1>8, <1>10, <1>11, CountByClass

LEMMA StatsCount ==
  ASSUME TableOK, NEW ids \in SUBSET DOMAIN table
  PROVE  SumFunction(CountLevels(ids)) = Cardinality(ids)
  <1>1. IsFiniteSet(ids)
    BY RowsFinite
  <1>2. IsFiniteSet(LevelNames)
    BY LevelsFinite
  <1>3. PICK s : s = [id \in ids |-> table[id].level]
    OBVIOUS
  <1>4. s \in [ids -> LevelNames]
    BY <1>3, RowsFinite
  <1>5. PICK n : n = CountLevels(ids)
    OBVIOUS
  <1>6. n = [l \in LevelNames |-> Cardinality({id \in ids : table[id].level = l})]
    BY <1>5 DEF CountLevels
  <1>7. ASSUME NEW l \in LevelNames PROVE n[l] = Cardinality({id \in ids : s[id] = l}) /\ n[l] \in Int
    <2>1. PICK T : T = {id \in ids : table[id].level = l}
      OBVIOUS
    <2>2. {id \in ids : s[id] = l} = T /\ n[l] = Cardinality(T) /\ T \in SUBSET DOMAIN table
      BY <1>3, <1>6, <2>1
    <2>3. Cardinality(T) \in Nat
      BY <2>2, RowsFinite
    <2>4. QED
      BY <2>2, <2>3
  <1>8. n \in [LevelNames -> Int]
    BY <1>6, <1>7
  <1>9. QED
    BY <1>1, <1>2, <1>4, <1>5, <1>7, <1>8, CountByClass

\* A total is exact, or it has reached the cap.
LEMMA TotalCounts ==
  ASSUME TableOK, NEW projects \in SUBSET ChartProjects, NEW mode \in TotalModes,
         NEW ids, ids = UNION {RowsOf(p) : p \in projects}, NEW total, total = CountRows(mode, projects)
  PROVE  IF IsExact(mode, total) THEN total = Cardinality(ids) ELSE total = TotalCap /\ Cardinality(ids) >= TotalCap
  <1>1. PICK cap \in Nat \ {0} : cap = TotalCap
    BY LogAnalyticsAssumption
  <1>2. IsFiniteSet(projects)
    BY LogAnalyticsAssumption, FS_Subset
  <1>3. ids \subseteq DOMAIN table /\ IsFiniteSet(ids) /\ Cardinality(ids) \in Nat
    <2>1. ids \subseteq DOMAIN table
      BY DEF RowsOf
    <2>2. QED
      BY <2>1, RowsFinite
  <1>4. PICK n : n = [p \in projects |-> Cardinality(RowsOf(p))]
    OBVIOUS
  <1>5. n \in [projects -> Nat] /\ n \in [projects -> Int] /\ \A p \in projects : n[p] = Cardinality(RowsOf(p))
    <2>1. ASSUME NEW p \in projects PROVE Cardinality(RowsOf(p)) \in Nat
      BY RowsFinite
    <2>2. QED
      BY <1>4, <2>1
  <1>6. SumFunction(n) = Cardinality(ids)
    <2>1. PICK s : s = [id \in ids |-> table[id].project]
      OBVIOUS
    <2>2. s \in [ids -> projects]
      BY <2>1 DEF RowsOf
    <2>3. ASSUME NEW p \in projects PROVE RowsOf(p) = {id \in ids : s[id] = p}
      BY <1>3, <2>1 DEF RowsOf
    <2>4. \A p \in projects : n[p] = Cardinality({id \in ids : s[id] = p})
      BY <1>5, <2>3
    <2>5. QED
      BY <1>2, <1>3, <1>5, <2>2, <2>4, CountByClass
  <1>7. CASE mode = "exact"
    <2>1. total = SumFunction(n)
      BY <1>4, <1>7 DEF CountRows
    <2>2. QED
      BY <1>6, <1>7, <2>1 DEF IsExact
  <1>8. CASE mode = "bounded"
    <2>1. PICK m : m = [p \in projects |-> Min({n[p], cap})]
      OBVIOUS
    <2>2. m = [p \in projects |-> Min({Cardinality(RowsOf(p)), TotalCap})]
      BY <1>1, <1>5, <2>1
    <2>3. total = Min({SumFunction(m), cap})
      BY <1>1, <1>8, <2>2 DEF CountRows
    <2>4. ASSUME NEW p \in projects PROVE m[p] = (IF n[p] <= cap THEN n[p] ELSE cap) /\ m[p] \in Nat /\ m[p] <= n[p]
      <3>1. n[p] \in Nat /\ m[p] = Min({n[p], cap})
        BY <1>5, <2>1
      <3>2. QED
        BY <3>1, MinOfPair
    <2>5. m \in [projects -> Nat] /\ m \in [projects -> Int]
      BY <2>1, <2>4
    <2>6. SumFunction(m) \in Nat /\ SumFunction(m) <= SumFunction(n)
      BY <1>2, <1>5, <2>4, <2>5, SumNat, SumMore
    <2>7. total = IF SumFunction(m) <= cap THEN SumFunction(m) ELSE cap
      BY <2>3, <2>6, MinOfPair
    <2>8. ASSUME SumFunction(m) < cap PROVE SumFunction(m) = SumFunction(n)
      <3>1. ASSUME NEW p \in projects PROVE m[p] = n[p]
        <4>1. m[p] <= SumFunction(m) /\ n[p] \in Nat
          BY <1>2, <1>5, <2>5, SummandBelow
        <4>2. QED
          BY <2>4, <2>6, <2>8, <4>1
      <3>2. m = n
        BY <1>5, <2>5, <3>1
      <3>3. QED
        BY <3>2
    <2>9. IsExact(mode, total) <=> total < cap
      BY <1>1, <1>8 DEF IsExact
    <2>10. PICK a \in Nat, b \in Nat : a = SumFunction(m) /\ b = Cardinality(ids) /\ b = SumFunction(n)
      BY <1>3, <1>6, <2>6
    <2>11. CASE a < cap
      BY <2>7, <2>8, <2>9, <2>10, <2>11
    <2>12. CASE a >= cap
      BY <1>1, <2>6, <2>7, <2>9, <2>10, <2>12
    <2>13. QED
      BY <2>11, <2>12
  <1>9. QED
    BY <1>7, <1>8 DEF TotalModes

\* The groups, in the order of the answer
GroupLike(g) == g = [key |-> g.key, count |-> g.count] /\ g.count \in Nat
Keys         == {"", "ERROR", "INFO", Missing}
BeforeIn(groups) == {gh \in groups \X groups : Before(gh[1], gh[2])}

LEMMA InBefore == ASSUME NEW groups, NEW g \in groups, NEW h \in groups
                  PROVE  <<g, h>> \in BeforeIn(groups) <=> Before(g, h)
  BY DEF BeforeIn

\* The keys in their order
Rank(k) == IF k = "" THEN 1 ELSE IF k = "ERROR" THEN 2 ELSE IF k = "INFO" THEN 3 ELSE 4

LEMMA RankIs ==
  ASSUME NEW k \in Keys, NEW l \in Keys
  PROVE  /\ Rank(k) \in Nat /\ (Rank(k) = Rank(l) => k = l)
         /\ (\E i, j \in DOMAIN KeyOrder : i < j /\ KeyOrder[i] = k /\ KeyOrder[j] = l) <=> Rank(k) < Rank(l)
  <1>1. /\ DOMAIN KeyOrder = 1 .. 4 /\ KeyOrder[1] = "" /\ KeyOrder[2] = "ERROR" /\ KeyOrder[3] = "INFO"
        /\ KeyOrder[4] = Missing
    BY DEF KeyOrder
  <1>2. ASSUME NEW m \in Keys
        PROVE  /\ m = "" => Rank(m) = 1
               /\ m = "ERROR" => Rank(m) = 2
               /\ m = "INFO" => Rank(m) = 3
               /\ m = Missing => Rank(m) = 4
               /\ m = "" \/ m = "ERROR" \/ m = "INFO" \/ m = Missing
    BY DEF Keys, Rank, Missing
  <1>3. ASSUME NEW i \in 1 .. 4 PROVE Rank(KeyOrder[i]) = i
    <2>1. i = 1 \/ i = 2 \/ i = 3 \/ i = 4
      OBVIOUS
    <2>2. KeyOrder[i] \in Keys
      BY <1>1, <2>1 DEF Keys
    <2>3. PICK m \in Keys : m = KeyOrder[i]
      BY <2>2
    <2>4. QED
      BY <1>1, <1>2, <2>1, <2>3
  <1>4. ASSUME NEW m \in Keys PROVE \E i \in 1 .. 4 : i = Rank(m) /\ KeyOrder[i] = m
    <2>1. m = KeyOrder[1] \/ m = KeyOrder[2] \/ m = KeyOrder[3] \/ m = KeyOrder[4]
      BY <1>1 DEF Keys
    <2>2. 1 \in 1 .. 4 /\ 2 \in 1 .. 4 /\ 3 \in 1 .. 4 /\ 4 \in 1 .. 4
      OBVIOUS
    <2>3. PICK i \in 1 .. 4 : m = KeyOrder[i]
      BY <2>1, <2>2, Zenon
    <2>4. Rank(m) = i
      BY <1>3, <2>3
    <2>5. QED
      BY <2>3, <2>4
  <1>5. PICK a \in 1 .. 4, b \in 1 .. 4 : /\ a = Rank(k) /\ b = Rank(l) /\ KeyOrder[a] = k /\ KeyOrder[b] = l
    BY <1>4
  <1>6. ASSUME NEW i \in 1 .. 4, NEW j \in 1 .. 4, KeyOrder[i] = k, KeyOrder[j] = l PROVE i = a /\ j = b
    BY <1>3, <1>5, <1>6
  <1>7. (\E i, j \in 1 .. 4 : i < j /\ KeyOrder[i] = k /\ KeyOrder[j] = l) <=> a < b
    BY <1>5, <1>6
  <1>8. a = b => k = l
    BY <1>5
  <1>9. PICK D : D = DOMAIN KeyOrder /\ D = 1 .. 4
    BY <1>1
  <1>10. QED
    BY <1>5, <1>7, <1>8, <1>9

LEMMA BeforeIs ==
  ASSUME NEW g, GroupLike(g), g.key \in Keys, NEW h, GroupLike(h), h.key \in Keys
  PROVE  Before(g, h) <=> g.count > h.count \/ (g.count = h.count /\ Rank(g.key) < Rank(h.key))
  BY RankIs DEF Before

LEMMA GroupsAre ==
  ASSUME TableOK, NEW ids \in SUBSET DOMAIN table, NEW by, NEW groups, groups = GroupsOf(ids, by)
  PROVE  /\ \A g \in groups : /\ GroupLike(g) /\ g.key \in Keys
                              /\ g.count = Cardinality({id \in ids : KeyOf(id, by) = g.key})
         /\ \A g, h \in groups : g.key = h.key => g = h
         /\ \A id \in ids : \E g \in groups : g.key = KeyOf(id, by)
         /\ IsFiniteSet(groups) /\ Cardinality(groups) \in Nat
  <1>1. \A id \in ids : KeyOf(id, by) \in Keys
    BY RowsFinite DEF KeyOf, Keys, LevelNames
  <1>2. PICK n : n = [k \in Keys |-> Cardinality({id \in ids : KeyOf(id, by) = k})]
    OBVIOUS
  <1>3. ASSUME NEW k \in Keys PROVE n[k] \in Nat
    <2>1. PICK T : T = {id \in ids : KeyOf(id, by) = k}
      OBVIOUS
    <2>2. n[k] = Cardinality(T) /\ T \in SUBSET DOMAIN table
      BY <1>2, <2>1
    <2>3. QED
      BY <2>2, RowsFinite
  <1>4. PICK K : K = {KeyOf(id, by) : id \in ids}
    OBVIOUS
  <1>5. K \subseteq Keys
    BY <1>1, <1>4
  <1>6. groups = {[key |-> k, count |-> n[k]] : k \in K}
    BY <1>2, <1>4, <1>5 DEF GroupsOf
  <1>7. \A g \in groups : g.key \in K /\ g.count = n[g.key] /\ g = [key |-> g.key, count |-> g.count]
    BY <1>6
  <1>8. \A g \in groups : /\ GroupLike(g) /\ g.key \in Keys
                          /\ g.count = Cardinality({id \in ids : KeyOf(id, by) = g.key})
    BY <1>2, <1>3, <1>5, <1>7 DEF GroupLike
  <1>9. \A g, h \in groups : g.key = h.key => g = h
    BY <1>7
  <1>10. ASSUME NEW id \in ids PROVE \E g \in groups : g.key = KeyOf(id, by)
    <2>1. PICK k \in K : k = KeyOf(id, by)
      BY <1>4
    <2>2. [key |-> k, count |-> n[k]] \in groups
      BY <1>6
    <2>3. QED
      BY <2>1, <2>2
  <1>11. IsFiniteSet(groups) /\ Cardinality(groups) \in Nat
    <2>1. IsFiniteSet(K)
      <3>1. PICK s : s = [id \in ids |-> KeyOf(id, by)]
        OBVIOUS
      <3>2. s \in Surjection(ids, K)
        BY <1>4, <3>1 DEF Surjection
      <3>3. QED
        BY <3>2, RowsFinite, FS_Surjection
    <2>2. PICK f : f = [k \in K |-> [key |-> k, count |-> n[k]]]
      OBVIOUS
    <2>3. f \in Surjection(K, groups)
      BY <1>6, <2>2 DEF Surjection
    <2>4. QED
      BY <2>1, <2>3, FS_Surjection, FS_CardinalityType
  <1>12. QED
    BY <1>8, <1>9, <1>10, <1>11

LEMMA BeforeOrders ==
  ASSUME TableOK, NEW ids \in SUBSET DOMAIN table, NEW by, NEW groups, groups = GroupsOf(ids, by)
  PROVE  Orders(BeforeIn(groups), groups)
  <1>1. ASSUME NEW g \in groups PROVE GroupLike(g) /\ g.key \in Keys /\ g.count \in Nat /\ Rank(g.key) \in Nat
    <2>1. GroupLike(g) /\ g.key \in Keys
      BY GroupsAre
    <2>2. Rank(g.key) \in Nat
      BY <2>1, RankIs
    <2>3. QED
      BY <2>1, <2>2 DEF GroupLike
  <1>2. ASSUME NEW g \in groups, NEW h \in groups
        PROVE  /\ Before(g, h) <=> g.count > h.count \/ (g.count = h.count /\ Rank(g.key) < Rank(h.key))
               /\ g # h => Rank(g.key) # Rank(h.key)
    BY <1>1, BeforeIs, GroupsAre, RankIs
  <1>3. \A g \in groups : <<g, g>> \notin BeforeIn(groups)
    BY <1>1, <1>2, InBefore
  <1>4. ASSUME NEW g \in groups, NEW h \in groups, g # h
        PROVE  <<g, h>> \in BeforeIn(groups) \/ <<h, g>> \in BeforeIn(groups)
    <2>1. Before(g, h) \/ Before(h, g)
      BY <1>1, <1>2, <1>4
    <2>2. QED
      BY <2>1, InBefore
  <1>5. ASSUME NEW g \in groups, NEW h \in groups, NEW i \in groups,
               <<g, h>> \in BeforeIn(groups), <<h, i>> \in BeforeIn(groups)
        PROVE  <<g, i>> \in BeforeIn(groups)
    <2>1. Before(g, h) /\ Before(h, i)
      BY <1>5, InBefore
    <2>2. Before(g, i)
      BY <1>1, <1>2, <2>1
    <2>3. QED
      BY <2>2, InBefore
  <1>6. QED
    BY <1>3, <1>4, <1>5 DEF Orders

\* all lists the groups in order, n of them.
Lists(all, n, groups) ==
    /\ all \in [1 .. n -> groups]
    /\ \A i, j \in 1 .. n : i < j => Before(all[i], all[j])
    /\ \A g \in groups : \E i \in 1 .. n : all[i] = g
    /\ \A i, j \in 1 .. n : all[i] = all[j] => i = j

LEMMA OrderedIs ==
  ASSUME TableOK, NEW ids \in SUBSET DOMAIN table, NEW by, NEW groups, groups = GroupsOf(ids, by),
         NEW n \in Nat, n = Cardinality(groups)
  PROVE  Lists(Ordered(groups), n, groups)
  <1>1. PICK R : R = BeforeIn(groups)
    OBVIOUS
  <1>2. Orders(R, groups) /\ IsFiniteSet(groups)
    BY <1>1, BeforeOrders, GroupsAre
  <1>3. ASSUME NEW s \in [1 .. n -> groups]
        PROVE  InOrder(s, R) <=> \A i, j \in DOMAIN s : i < j => Before(s[i], s[j])
    BY <1>1, InBefore DEF InOrder
  <1>4. PICK s \in [1 .. n -> groups] : InOrder(s, R)
    BY <1>2, OrderExists
  <1>5. \E x \in [1 .. n -> groups] : \A i, j \in DOMAIN x : i < j => Before(x[i], x[j])
    BY <1>3, <1>4
  <1>6. PICK t : t = Ordered(groups)
    OBVIOUS
  <1>7. t \in [1 .. n -> groups] /\ \A i, j \in DOMAIN t : i < j => Before(t[i], t[j])
    BY <1>5, <1>6 DEF Ordered
  <1>8. InOrder(t, R)
    BY <1>3, <1>7
  <1>9. /\ \A x \in groups : \E i \in DOMAIN t : t[i] = x
        /\ \A i, j \in DOMAIN t : t[i] = t[j] => i = j
    BY <1>2, <1>7, <1>8, OrderIsAll
  <1>10. DOMAIN t = 1 .. n
    BY <1>7
  <1>11. QED
    BY <1>6, <1>7, <1>9, <1>10 DEF Lists

\* The groups that are shown are the largest, and with all of them the rows are.
LEMMA GroupsCount ==
  ASSUME TableOK, NEW ids \in SUBSET DOMAIN table, NEW by, NEW limit \in Nat, NEW shown,
         shown = ShownGroups(GroupsOf(ids, by), limit), NEW counts, counts = [i \in DOMAIN shown |-> shown[i].count]
  PROVE  /\ Len(counts) < limit => SumFunction(counts) = Cardinality(ids)
         /\ \A i \in DOMAIN counts : \A g \in GroupsOf(ids, by) :
              g.count > counts[i] => \E j \in DOMAIN counts : counts[j] >= g.count /\ counts[j] = g.count
  <1>1. PICK groups : groups = GroupsOf(ids, by)
    OBVIOUS
  <1>2. PICK n \in Nat : n = Cardinality(groups)
    BY <1>1, GroupsAre
  <1>3. PICK all \in [1 .. n -> groups] :
          /\ all = Ordered(groups)
          /\ \A i, j \in 1 .. n : i < j => Before(all[i], all[j])
          /\ \A g \in groups : \E i \in 1 .. n : all[i] = g
          /\ \A i, j \in 1 .. n : all[i] = all[j] => i = j
    <2>1. Lists(Ordered(groups), n, groups)
      BY <1>1, <1>2, OrderedIs
    <2>2. QED
      BY <2>1 DEF Lists
  <1>4. /\ \A g \in groups : /\ GroupLike(g) /\ g.key \in Keys /\ g.count \in Nat
                             /\ g.count = Cardinality({id \in ids : KeyOf(id, by) = g.key})
        /\ \A g, h \in groups : g.key = h.key => g = h
        /\ \A id \in ids : \E g \in groups : g.key = KeyOf(id, by)
    <2>1. \A g \in groups : GroupLike(g) /\ g.key \in Keys
      BY <1>1, GroupsAre
    <2>2. \A g \in groups : g.count = Cardinality({id \in ids : KeyOf(id, by) = g.key})
      BY <1>1, GroupsAre
    <2>3. /\ \A g, h \in groups : g.key = h.key => g = h
          /\ \A id \in ids : \E g \in groups : g.key = KeyOf(id, by)
      BY <1>1, GroupsAre
    <2>4. \A g \in groups : g.count \in Nat
      BY <2>1 DEF GroupLike
    <2>5. QED
      BY <2>1, <2>2, <2>3, <2>4
  <1>5. PICK m \in Nat : m = (IF limit <= n THEN limit ELSE n) /\ m <= n /\ m <= limit
    OBVIOUS
  <1>6. /\ shown = [i \in 1 .. m |-> [all[i] EXCEPT !.key = IF @ = Missing THEN "" ELSE @]]
    <2>1. Len(all) = n
      BY <1>3
    <2>2. m = Min({limit, Len(all)})
      BY <1>5, <2>1, MinOfPair
    <2>3. QED
      BY <1>1, <1>3, <2>2 DEF ShownGroups
  <1>7. DOMAIN shown = 1 .. m /\ DOMAIN counts = 1 .. m /\ counts = [i \in 1 .. m |-> counts[i]]
    BY <1>6
  <1>8. ASSUME NEW i \in 1 .. m PROVE i \in 1 .. n /\ all[i] \in groups /\ counts[i] = all[i].count /\ counts[i] \in Nat
    <2>1. i \in 1 .. n
      BY <1>5
    <2>2. all[i] \in groups /\ GroupLike(all[i]) /\ all[i].count \in Nat
      BY <1>3, <1>4, <2>1
    <2>3. shown[i] = [all[i] EXCEPT !.key = IF @ = Missing THEN "" ELSE @]
      BY <1>6
    <2>4. shown[i].count = all[i].count
      BY <2>2, <2>3 DEF GroupLike
    <2>5. QED
      BY <1>7, <2>1, <2>2, <2>4
  <1>9. counts \in [1 .. m -> Int] /\ Len(counts) = m
    <2>1. counts \in [1 .. m -> Int]
      BY <1>7, <1>8
    <2>2. QED
      BY <2>1
  <1>10. ASSUME m < limit PROVE SumFunction(counts) = Cardinality(ids)
    <2>1. m = n
      BY <1>5, <1>10
    <2>2. PICK s : s = [id \in ids |-> CHOOSE i \in 1 .. n : all[i].key = KeyOf(id, by)]
      OBVIOUS
    <2>3. ASSUME NEW id \in ids PROVE s[id] \in 1 .. n /\ all[s[id]].key = KeyOf(id, by)
      <3>1. \E i \in 1 .. n : all[i].key = KeyOf(id, by)
        BY <1>3, <1>4
      <3>2. QED
        BY <2>2, <3>1
    <2>4. s \in [ids -> 1 .. n]
      BY <2>2, <2>3
    <2>5. ASSUME NEW i \in 1 .. n PROVE counts[i] = Cardinality({id \in ids : s[id] = i})
      <3>1. ASSUME NEW id \in ids PROVE s[id] = i <=> KeyOf(id, by) = all[i].key
        <4>1. PICK j \in 1 .. n : j = s[id] /\ all[j].key = KeyOf(id, by)
          BY <2>3
        <4>2. all[j] \in groups /\ all[i] \in groups
          BY <1>3
        <4>3. all[i].key = all[j].key => i = j
          BY <1>3, <1>4, <4>2
        <4>4. QED
          BY <4>1, <4>3
      <3>2. {id \in ids : s[id] = i} = {id \in ids : KeyOf(id, by) = all[i].key}
        BY <3>1
      <3>3. all[i] \in groups /\ counts[i] = all[i].count
        BY <1>8, <2>1
      <3>4. QED
        BY <1>4, <3>2, <3>3
    <2>6. PICK C : C = 1 .. n
      OBVIOUS
    <2>7. IsFiniteSet(ids)
      BY RowsFinite
    <2>8. IsFiniteSet(C)
      BY <2>6, FS_Interval
    <2>9. s \in [ids -> C] /\ counts \in [C -> Int] /\ \A c \in C : counts[c] = Cardinality({id \in ids : s[id] = c})
      BY <1>9, <2>1, <2>4, <2>5, <2>6
    <2>10. QED
      BY <2>7, <2>8, <2>9, CountByClass
  <1>11. ASSUME NEW i \in 1 .. m, NEW g \in groups, g.count > counts[i]
         PROVE  \E j \in 1 .. m : counts[j] >= g.count /\ counts[j] = g.count
    <2>1. PICK k \in 1 .. n : all[k] = g
      BY <1>3
    <2>2. i \in 1 .. n /\ counts[i] = all[i].count /\ all[i] \in groups /\ counts[i] \in Nat /\ g.count \in Nat
      BY <1>4, <1>8
    <2>3. ASSUME i < k PROVE FALSE
      <3>1. Before(all[i], g)
        BY <1>3, <2>1, <2>2, <2>3
      <3>2. all[i].count >= g.count
        <4>1. PICK f : f = all[i] /\ f \in groups /\ Before(f, g)
          BY <2>2, <3>1
        <4>2. GroupLike(f) /\ f.key \in Keys /\ GroupLike(g) /\ g.key \in Keys /\ f.count \in Nat /\ g.count \in Nat
          BY <1>4, <4>1
        <4>3. f.count > g.count \/ f.count = g.count
          BY <4>1, <4>2, BeforeIs
        <4>4. QED
          BY <4>1, <4>2, <4>3
      <3>3. QED
        BY <1>11, <2>2, <3>2
    <2>4. k \in 1 .. m
      BY <2>2, <2>3
    <2>5. counts[k] = g.count
      BY <1>8, <2>1, <2>4
    <2>6. QED
      BY <2>2, <2>4, <2>5
  <1>12. QED
    BY <1>1, <1>7, <1>9, <1>10, <1>11

\* GroupsOf over a table
GroupsIn(rows, ids, by) ==
    {[key |-> k, count |-> Cardinality({id \in ids : (IF by = "level" THEN rows[id].level ELSE rows[id].field) = k})] :
        k \in {IF by = "level" THEN rows[id].level ELSE rows[id].field : id \in ids}}

\* A figure over the same table
LEMMA ShowOK ==
  ASSUME TableOK, NEW c, FigureFits(c), chart' = c, table' = table
  PROVE  ChartsInv'
  <1>1. TableOK'
    BY DEF TableOK
  <1>2. PICK G : G = GroupsOf(c.read, c.by) /\ G = GroupsOf(chart.read, chart.by)'
    <2>1. PICK G : G = GroupsOf(c.read, c.by)
      OBVIOUS
    <2>2. GroupsOf(c.read, c.by) = GroupsIn(table, c.read, c.by)
      BY Zenon DEF GroupsOf, KeyOf, GroupsIn
    <2>3. GroupsOf(chart.read, chart.by)' = GroupsIn(table', chart'.read, chart'.by)
      BY Zenon DEF GroupsOf, KeyOf, GroupsIn
    <2>4. GroupsIn(table', chart'.read, chart'.by) = GroupsIn(table, c.read, c.by)
      OBVIOUS
    <2>5. QED
      BY <2>1, <2>2, <2>3, <2>4
  <1>3. SeriesFits(c) => SeriesFits(chart)'
    BY DEF SeriesFits, Aligned
  <1>4. GroupsFit(c) => GroupsFit(chart)'
    BY <1>2 DEF GroupsFit, Aligned
  <1>5. TotalFits(c) => TotalFits(chart)'
    BY DEF TotalFits
  <1>6. FigureFits(chart)'
    BY <1>3, <1>4, <1>5 DEF FigureFits
  <1>7. QED
    BY <1>1, <1>6 DEF ChartsInv

LEMMA SeriesOK ==
  ASSUME ChartsInv, NEW p, NEW w \in Windows, NEW step \in Intervals, NEW level, Timeseries(p, w, step, level)
  PROVE  ChartsInv'
  <1>1. PICK rolled \in BOOLEAN : rolled = FromRollup(step)
    <2>1. FromRollup(step) \in BOOLEAN
      BY DEF FromRollup
    <2>2. QED
      BY <2>1, Zenon
  <1>2. PICK ids, wanted, counts : /\ ids = RowsIn(p, w, level, rolled) /\ wanted = RowsIn(p, w, level, FALSE)
                                   /\ counts = SeriesOf(ids, rolled, w, step)
    OBVIOUS
  <1>3. PICK c : c = [kind |-> "series", read |-> ids, wanted |-> wanted, range |-> w, counts |-> counts]
    OBVIOUS
  <1>4. TableOK /\ w.from \in Int /\ w.to \in Int /\ step \in Nat \ {0}
    BY WindowIs, LogAnalyticsAssumption DEF ChartsInv
  <1>5. SumFunction(counts) = Cardinality(ids)
    BY <1>2, <1>4, SeriesCounts
  <1>6. Aligned(w) => ids = wanted
    BY <1>2, <1>4, WholeHours
  <1>7. FigureFits(c)
    BY <1>3, <1>5, <1>6 DEF FigureFits, SeriesFits
  <1>8. chart' = c /\ table' = table
    BY <1>1, <1>2, <1>3 DEF Timeseries, Show
  <1>9. QED
    BY <1>4, <1>7, <1>8, ShowOK

LEMMA GroupsOK ==
  ASSUME ChartsInv, NEW p, NEW w \in Windows, NEW by, NEW n \in {Unset} \cup 1 .. LimitCap + 1, NEW level,
         Aggregate(p, w, by, n, level)
  PROVE  ChartsInv'
  <1>1. PICK rolled \in BOOLEAN : rolled = InRollup(by)
    BY DEF InRollup
  <1>2. PICK limit : limit = ClampLimit(n)
    OBVIOUS
  <1>3. limit \in Nat
    <2>1. DefaultLimit \in Nat /\ LimitCap \in Nat
      BY LogAnalyticsAssumption
    <2>2. n = Unset \/ n \in Nat
      BY <2>1
    <2>3. CASE n = Unset
      BY <1>2, <2>1, <2>3 DEF ClampLimit
    <2>4. CASE n # Unset
      <3>1. n \in Nat
        BY <2>2, <2>4
      <3>2. limit = Min({n, LimitCap})
        BY <1>2, <2>4 DEF ClampLimit
      <3>3. QED
        BY <2>1, <3>1, <3>2, MinOfPair
    <2>5. QED
      BY <2>3, <2>4
  <1>4. PICK ids, wanted, groups : /\ ids = RowsIn(p, w, level, rolled) /\ wanted = RowsIn(p, w, level, FALSE)
                                   /\ groups = ShownGroups(GroupsOf(ids, by), limit)
    OBVIOUS
  <1>5. PICK c : c = [kind |-> "groups", read |-> ids, wanted |-> wanted, range |-> w,
                      by |-> by, limit |-> limit, groups |-> groups]
    OBVIOUS
  <1>6. TableOK /\ w.from \in Int /\ w.to \in Int /\ ids \in SUBSET DOMAIN table
    BY <1>4, WindowIs, RowsFinite DEF ChartsInv
  <1>7. PICK counts : counts = [i \in DOMAIN groups |-> groups[i].count]
    OBVIOUS
  <1>8. /\ Len(counts) < limit => SumFunction(counts) = Cardinality(ids)
        /\ \A i \in DOMAIN counts : \A g \in GroupsOf(ids, by) :
             g.count > counts[i] => \E j \in DOMAIN counts : counts[j] >= g.count /\ counts[j] = g.count
    BY <1>3, <1>4, <1>6, <1>7, GroupsCount
  <1>9. Aligned(w) => ids = wanted
    BY <1>4, <1>6, WholeHours
  <1>10. GroupsFit(c)
    <2>1. /\ c.groups = groups /\ c.limit = limit /\ c.read = ids /\ c.wanted = wanted /\ c.by = by /\ c.range = w
      BY <1>5
    <2>2. QED
      BY <1>7, <1>8, <1>9, <2>1 DEF GroupsFit
  <1>11. FigureFits(c)
    BY <1>5, <1>10 DEF FigureFits
  <1>12. chart' = c /\ table' = table
    BY <1>1, <1>2, <1>4, <1>5 DEF Aggregate, Show
  <1>13. QED
    BY <1>6, <1>11, <1>12, ShowOK

LEMMA StatsOK ==
  ASSUME ChartsInv, NEW p, Stats(p)
  PROVE  ChartsInv'
  <1>1. PICK ids : ids = RowsOf(p)
    OBVIOUS
  <1>2. TableOK /\ ids \in SUBSET DOMAIN table
    BY <1>1, RowsFinite DEF ChartsInv
  <1>3. PICK counts : counts = CountLevels(ids) /\ SumFunction(counts) = Cardinality(ids)
    BY <1>2, StatsCount
  <1>4. PICK c : c = [kind |-> "stats", read |-> ids, counts |-> counts]
    OBVIOUS
  <1>5. FigureFits(c)
    BY <1>3, <1>4 DEF FigureFits
  <1>6. chart' = c /\ table' = table
    BY <1>1, <1>3, <1>4 DEF Stats, Show
  <1>7. QED
    BY <1>2, <1>5, <1>6, ShowOK

LEMMA TotalOK ==
  ASSUME ChartsInv, NEW projects \in SUBSET ChartProjects, NEW mode \in TotalModes, Total(projects, mode)
  PROVE  ChartsInv'
  <1>1. PICK ids, total, exact : /\ ids = UNION {RowsOf(p) : p \in projects} /\ total = CountRows(mode, projects)
                                 /\ exact = IsExact(mode, total)
    OBVIOUS
  <1>2. TableOK
    BY DEF ChartsInv
  <1>3. PICK c : c = [kind |-> "total", read |-> ids, total |-> total, exact |-> exact]
    OBVIOUS
  <1>4. IF IsExact(mode, total) THEN total = Cardinality(ids) ELSE total = TotalCap /\ Cardinality(ids) >= TotalCap
    BY <1>1, <1>2, TotalCounts
  <1>5. FigureFits(c)
    BY <1>1, <1>3, <1>4 DEF FigureFits, TotalFits
  <1>6. chart' = c /\ table' = table
    BY <1>1, <1>3 DEF Total, Show
  <1>7. QED
    BY <1>2, <1>5, <1>6, ShowOK

LEMMA LogOK ==
  ASSUME ChartsInv, NEW scope, NEW id, ShowLog(scope, id)
  PROVE  ChartsInv'
  <1>1. PICK found : found = {i \in Find(id) : table[i].project \in scope}
    OBVIOUS
  <1>2. PICK c : c = [kind |-> "log", read |-> found]
    OBVIOUS
  <1>3. FigureFits(c)
    BY <1>2 DEF FigureFits
  <1>4. TableOK /\ chart' = c /\ table' = table
    BY <1>1, <1>2 DEF ChartsInv, ShowLog, Show
  <1>5. QED
    BY <1>3, <1>4, ShowOK

\* What is shown is forgotten with a change of the table.
LEMMA NoFigureFits == ASSUME TableOK', chart' = NoFigure PROVE ChartsInv'
  BY DEF ChartsInv, FigureFits, NoFigure

LEMMA InsertOK ==
  ASSUME ChartsInv, NEW id, NEW row \in Row, InsertRow(id, row)
  PROVE  ChartsInv'
  <1>1. PICK D : D = DOMAIN table \cup {id}
    OBVIOUS
  <1>2. IsFiniteSet(D)
    BY <1>1, FS_AddElement DEF ChartsInv, TableOK
  <1>3. table' = [i \in D |-> IF i = id THEN row ELSE table[i]] /\ chart' = NoFigure
    BY <1>1 DEF InsertRow
  <1>4. DOMAIN table' = D /\ \A i \in D : table'[i] \in Row
    BY <1>1, <1>3 DEF ChartsInv, TableOK
  <1>5. table' = [i \in DOMAIN table' |-> table'[i]]
    BY <1>3
  <1>6. TableOK'
    BY <1>2, <1>4, <1>5 DEF TableOK
  <1>7. QED
    BY <1>3, <1>6, NoFigureFits

LEMMA ExpireOK ==
  ASSUME ChartsInv, NEW cutoff, Expire(cutoff)
  PROVE  ChartsInv'
  <1>1. PICK D : D = {i \in DOMAIN table : table[i].ts >= cutoff}
    OBVIOUS
  <1>2. table' = [i \in D |-> table[i]] /\ chart' = NoFigure
    BY <1>1 DEF Expire, RestrictValues, Restrict
  <1>3. IsFiniteSet(D) /\ \A i \in D : table[i] \in Row
    BY <1>1, FS_Subset DEF ChartsInv, TableOK
  <1>4. DOMAIN table' = D /\ table' = [i \in DOMAIN table' |-> table'[i]] /\ \A i \in D : table'[i] = table[i]
    BY <1>2
  <1>5. TableOK'
    BY <1>3, <1>4 DEF TableOK
  <1>6. QED
    BY <1>2, <1>5, NoFigureFits

LEMMA ChartsInitOK == LogAnalyticsInit => ChartsInv
  <1>1. SUFFICES ASSUME LogAnalyticsInit PROVE ChartsInv
    OBVIOUS
  <1>2. table = [id \in {} |-> 0] /\ chart = NoFigure
    BY <1>1 DEF LogAnalyticsInit
  <1>3. DOMAIN table = {} /\ table = [id \in DOMAIN table |-> table[id]] /\ IsFiniteSet(DOMAIN table)
    BY <1>2, FS_EmptySet
  <1>4. QED
    BY <1>2, <1>3 DEF ChartsInv, TableOK, FigureFits, NoFigure

LEMMA ChartsNextOK ==
  ASSUME ChartsInv, [LogAnalyticsNext]_analyticsVars
  PROVE  ChartsInv'
  <1>1. ASSUME NEW p \in ChartProjects, NEW w \in Windows, NEW level \in LevelNames \cup {"any"},
               \/ \E step \in Intervals : Timeseries(p, w, step, level)
               \/ \E by \in GroupBys, n \in {Unset} \cup 1 .. LimitCap + 1 : Aggregate(p, w, by, n, level)
        PROVE  ChartsInv'
    BY <1>1, SeriesOK, GroupsOK
  <1>2. ASSUME NEW p \in ChartProjects, Stats(p) \/ \E id \in RowIds : QueryByID(p, id)
        PROVE  ChartsInv'
    BY <1>2, StatsOK, LogOK DEF QueryByID
  <1>3. ASSUME NEW scope \in SUBSET ChartProjects,
               \/ \E asked \in SUBSET ChartProjects : QueryAPIStats(scope, asked)
               \/ \E mode \in TotalModes : Total(scope, mode)
               \/ \E id \in RowIds : QueryAPILogByID(scope, id)
        PROVE  ChartsInv'
    BY <1>3, StatsOK, TotalOK, LogOK DEF QueryAPIStats, QueryAPILogByID
  <1>4. CASE (\E id \in RowIds, row \in Row : InsertRow(id, row)) \/ \E cutoff \in Stamps : Expire(cutoff)
    BY <1>4, InsertOK, ExpireOK
  <1>5. CASE UNCHANGED analyticsVars
    <2>1. PICK c : c = chart
      OBVIOUS
    <2>2. TableOK /\ FigureFits(c) /\ chart' = c /\ table' = table
      BY <1>5, <2>1 DEF ChartsInv, analyticsVars
    <2>3. QED
      BY <2>2, ShowOK
  <1>6. CASE LogAnalyticsNext
    BY <1>1, <1>2, <1>3, <1>4, <1>6, Zenon DEF LogAnalyticsNext
  <1>7. QED
    BY <1>5, <1>6

\* The figures account for the rows: a time series, the levels of a project and a list of
\* groups that left none out add up to what was read, the groups that are shown are the
\* largest, a total that claims to be exact is, and one that does not has reached the cap,
\* also over several projects; over whole hours the rollup reads the same rows.
THEOREM FiguresAccountForRows == LogAnalyticsSpec => []ChartsAddUp
  <1>1. LogAnalyticsInit => ChartsInv
    BY ChartsInitOK
  <1>2. ChartsInv /\ [LogAnalyticsNext]_analyticsVars => ChartsInv'
    BY ChartsNextOK
  <1>3. ChartsInv => ChartsAddUp
    BY FitsMeans DEF ChartsInv
  <1>4. QED
    BY <1>1, <1>2, <1>3, PTL DEF LogAnalyticsSpec
=============================================================================

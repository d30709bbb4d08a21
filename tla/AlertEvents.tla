---------------------------- MODULE AlertEvents ----------------------------
(***************************************************************************)
(* The alerting domain (business/domain/integrationbus): the rows of       *)
(* alert_events and every writer of them.                                  *)
(*                                                                         *)
(*   - Dispatchers are the goroutines that call FireAlerts: the logalert   *)
(*     worker, the client error grouping worker and the spike ticker.      *)
(*   - Evaluators are the tickers that call EvaluateThresholds.            *)
(*   - Operators acknowledge and resolve alerts, edit and delete rules,    *)
(*     switch connections on and off, and schedule maintenance windows.    *)
(*                                                                         *)
(* raise() is not atomic: it reads the open event, upserts the firing,     *)
(* sends and marks in four statements, and every other actor may run       *)
(* between two of them.  A statement that only reads what no other step    *)
(* between it and its neighbour can change is merged with that neighbour.  *)
(***************************************************************************)
EXTENDS Integers, Sequences, FiniteSets, Functions

CONSTANTS
    Rules,               \* ids of alert_rules rows
    Conns,               \* ids of integrations rows (delivery connections)
    Projects,
    ProjectOf,           \* the project of a rule (immutable column)
    AllProjects,         \* a maintenance window's NULL project_id
    Levels,              \* severities, which are also the dedup keys
    Dispatchers,
    Evaluators,
    DedupSettings,       \* the dedup_window_seconds an operator may set
    DefaultDedupWindow,
    MaxClock,            \* bound on the wall clock
    MaxEvents,           \* bound on alert_events rows
    MaxMatch,            \* bound on the matches of one firing
    MaxFired,            \* bound on the matches recorded per rule and key
    MaxPages,            \* bound on deliveries
    MaxEdits             \* bound on operators' changes of the configuration

ASSUME ConstantsAssumption ==
    /\ ProjectOf \in [Rules -> Projects]
    /\ AllProjects \notin Projects
    /\ "threshold" \notin Levels
    /\ Levels # {} /\ Rules # {} /\ Conns # {}
    /\ DedupSettings \subseteq Int /\ DedupSettings # {}
    /\ DefaultDedupWindow \in Nat \ {0}
    /\ MaxClock \in Nat /\ MaxEvents \in Nat /\ MaxEdits \in Nat
    /\ MaxMatch \in Nat \ {0} /\ MaxPages \in Nat /\ MaxFired \in Nat
    /\ Dispatchers \cap Evaluators = {}

Workers == Dispatchers \cup Evaluators
Time    == 0 .. MaxClock
NoTime  == -1                              \* a nil *time.Time
OptTime == Time \cup {NoTime}
Keys    == Levels \cup {"threshold"}

VARIABLES
    clock,     \* time.Now()
    rules,     \* alert_rules
    enabled,   \* integrations.enabled
    maint,     \* alert_maintenance_windows
    events,    \* alert_events; the index of a row is its id
    pc,        \* where each worker is
    job,       \* the local variables of FireAlerts/EvaluateThresholds/raise
    pages,     \* history: deliveries a provider accepted, in order
    fired,     \* history: matches recorded per rule and dedup key
    excused,   \* history: <<event, worker>>, a raise in flight when another actor
               \* acknowledged the event or marked it as notified
    edits      \* history: number of configuration changes so far

vars == <<clock, rules, enabled, maint, events, pc, job, pages, fired, excused, edits>>
config == <<rules, enabled, maint, edits>>

RuleRow == [live: BOOLEAN, active: BOOLEAN, snooze: OptTime, dedup: DedupSettings,
            conn: Conns, kind: {"level", "match", "threshold"}]
Window  == [project: Projects \cup {AllProjects}, start: Time, end: Time]
States  == {"firing", "acknowledged", "resolved", "deleted"}
Event   == [rule: Rules, key: Keys, state: States, count: Nat, last: Time, notified: OptTime]
Prior   == [state: States \cup {"none"}, notified: OptTime]
Page    == [event: Nat, by: Workers, at: Time, dedup: Nat]
Job     == [now: Time, rows: [Rules -> RuleRow], todo: SUBSET Rules, windows: SUBSET Window,
            loaded: BOOLEAN, rule: Rules, key: Keys, matched: Nat, prior: Prior, event: Nat]
PCs     == {"idle", "scan", "record", "send", "mark", "resolve"}

NoPrior == [state |-> "none", notified |-> NoTime]
----------------------------------------------------------------------------
(* Pure decisions. *)

\* Condition.DedupKey
DedupKey(row, level) == IF row.kind = "threshold" THEN "threshold" ELSE level

\* MaintenanceWindow.Covers: half-open
Covers(w, project, at) ==
    /\ w.project \in {AllProjects, project}
    /\ w.start <= at /\ at < w.end

\* QueryActiveMaintenance: the windows covering an instant
ActiveMaintenance(at) == {w \in maint : w.start <= at /\ w.end > at}

\* rule.DedupWindow() with the fallback of ShouldNotify
DedupWindow(row) == IF row.dedup <= 0 THEN DefaultDedupWindow ELSE row.dedup

\* Bugs: an owner does not silence the alert; the dedup window is not consulted.
NotifyOwned(row, project, prior, windows, now) ==
    /\ row.active
    /\ ~(now < row.snooze)
    /\ \A w \in windows : ~Covers(w, project, now)
    /\ \/ prior.state \in {"none", "resolved"}
       \/ prior.notified = NoTime
       \/ now - prior.notified >= DedupWindow(row)

NotifyAlways(row, project, prior, windows, now) ==
    /\ row.active
    /\ ~(now < row.snooze)
    /\ \A w \in windows : ~Covers(w, project, now)
    /\ prior.state # "acknowledged"

\* ShouldNotify; the reason for staying silent is only logged
ShouldNotify(row, project, prior, windows, now) ==
    /\ row.active
    /\ ~(now < row.snooze)
    /\ \A w \in windows : ~Covers(w, project, now)
    /\ \/ prior.state \in {"none", "resolved"}
       \/ /\ prior.state # "acknowledged"
          /\ \/ prior.notified = NoTime
             \/ now - prior.notified >= DedupWindow(row)

Open(e) == events[e].state \in {"firing", "acknowledged"}

\* The rows QueryOpenEvent selects
OpenEvents(r, k) == {e \in DOMAIN events : events[e].rule = r /\ events[e].key = k /\ Open(e)}

PriorOf(r, k) ==
    IF OpenEvents(r, k) = {} THEN NoPrior
    ELSE LET e == CHOOSE e \in OpenEvents(r, k) : TRUE
         IN  [state |-> events[e].state, notified |-> events[e].notified]
----------------------------------------------------------------------------
AnyRow == [live |-> TRUE, active |-> TRUE, snooze |-> NoTime,
           dedup |-> CHOOSE d \in DedupSettings : TRUE,
           conn |-> CHOOSE c \in Conns : TRUE, kind |-> "level"]

NoJob == [now |-> 0, rows |-> [r \in Rules |-> AnyRow], todo |-> {}, windows |-> {},
          loaded |-> FALSE, rule |-> CHOOSE r \in Rules : TRUE, key |-> "threshold",
          matched |-> 0, prior |-> NoPrior, event |-> 0]

\* Live, active rules routed anywhere; both rule kinds the callers tell apart.
Init ==
    /\ clock = 0
    /\ rules \in [Rules -> {row \in RuleRow :
                     /\ row.live /\ row.active /\ row.snooze = NoTime
                     /\ row.kind \in {"level", "threshold"}}]
    /\ enabled = [c \in Conns |-> TRUE]
    /\ maint = {}
    /\ events = <<>>
    /\ pc = [w \in Workers |-> "idle"]
    /\ job = [w \in Workers |-> NoJob]
    /\ pages = <<>>
    /\ fired = [r \in Rules |-> [k \in Keys |-> 0]]
    /\ excused = {}
    /\ edits = 0

\* In raise() with the open event already read, not yet past the send.
InRaise(w, r, k) == pc[w] \in {"record", "send"} /\ job[w].rule = r /\ job[w].key = k

\* The raises that have read event e as it was
InFlight(e) == {<<e, w>> : w \in {v \in Workers : InRaise(v, events[e].rule, events[e].key)}}

\* raise() is over for this rule: on to the next, or the call returns.
Return(w, fresh) ==
    /\ IF job[w].todo = {}
       THEN /\ pc'  = [pc EXCEPT ![w] = "idle"]
            /\ job' = [job EXCEPT ![w] = NoJob]
       ELSE /\ pc'  = [pc EXCEPT ![w] = "scan"]
            /\ job' = [job EXCEPT ![w] = [job[w] EXCEPT !.rule = NoJob.rule, !.key = NoJob.key,
                           !.matched = 0, !.prior = NoPrior, !.event = 0]]
    /\ excused' = {x \in excused \cup fresh : x[2] # w}
----------------------------------------------------------------------------
(* FireAlerts and EvaluateThresholds. *)

\* FireAlerts up to its loop: the project's active rules, the time and the
\* windows.  A failed maintenance lookup is logged and leaves no windows.
QueryActiveRules(w) ==
    /\ w \in Dispatchers /\ pc[w] = "idle"
    /\ \E p \in Projects, windows \in {ActiveMaintenance(clock), {}} :
         LET todo == {r \in Rules : /\ rules[r].live /\ rules[r].active
                                    /\ ProjectOf[r] = p /\ rules[r].kind # "threshold"}
         IN  /\ todo # {}
             /\ job' = [job EXCEPT ![w] = [NoJob EXCEPT !.now = clock, !.rows = rules,
                          !.todo = todo, !.windows = windows, !.loaded = TRUE]]
    /\ pc' = [pc EXCEPT ![w] = "scan"]
    /\ UNCHANGED <<clock, config, events, pages, fired, excused>>

\* EvaluateThresholds up to its loop: the active threshold rules of every project.
QueryThresholdRules(w) ==
    /\ w \in Evaluators /\ pc[w] = "idle"
    /\ LET todo == {r \in Rules : rules[r].live /\ rules[r].active /\ rules[r].kind = "threshold"}
       IN  /\ todo # {}
           /\ job' = [job EXCEPT ![w] = [NoJob EXCEPT !.now = clock, !.rows = rules, !.todo = todo]]
    /\ pc' = [pc EXCEPT ![w] = "scan"]
    /\ UNCHANGED <<clock, config, events, pages, fired, excused>>

\* No match, a failed count, or a failed or empty read of the open event.
SkipRule(w, r) ==
    /\ pc[w] = "scan" /\ r \in job[w].todo
    /\ LET left == job[w].todo \ {r} IN
         /\ pc'  = [pc EXCEPT ![w] = IF left = {} THEN "idle" ELSE "scan"]
         /\ job' = [job EXCEPT ![w] = IF left = {} THEN NoJob ELSE [job[w] EXCEPT !.todo = left]]
    /\ UNCHANGED <<clock, config, events, pages, fired, excused>>

\* A match (or a satisfied threshold) enters raise(), which reads the open event.
\* The evaluator loads the maintenance windows at its first satisfied rule.
QueryOpenEvent(w, r) ==
    /\ pc[w] = "scan" /\ r \in job[w].todo
    /\ \E level \in Levels, n \in 1 .. MaxMatch,
          windows \in IF job[w].loaded THEN {job[w].windows}
                      ELSE {{x \in maint : x.start <= job[w].now /\ x.end > job[w].now}, {}} :
         LET key == DedupKey(job[w].rows[r], level)
         IN  job' = [job EXCEPT ![w] = [job[w] EXCEPT
                       !.todo = job[w].todo \ {r}, !.rule = r, !.key = key,
                       !.matched = n, !.prior = PriorOf(r, key),
                       !.windows = windows, !.loaded = TRUE]]
    /\ pc' = [pc EXCEPT ![w] = "record"]
    /\ UNCHANGED <<clock, config, events, pages, fired, excused>>

\* resolveOpen's read: back under the threshold with an alert still open.
QueryOpenToResolve(w, r) ==
    /\ w \in Evaluators /\ pc[w] = "scan" /\ r \in job[w].todo
    /\ \E e \in OpenEvents(r, "threshold") :
         job' = [job EXCEPT ![w] = [job[w] EXCEPT !.todo = job[w].todo \ {r},
                                                  !.rule = r, !.event = e]]
    /\ pc' = [pc EXCEPT ![w] = "resolve"]
    /\ UNCHANGED <<clock, config, events, pages, fired, excused>>

\* resolveOpen's write: ResolveEvent by id, wherever that row is by now.
ResolveOpen(w) ==
    /\ pc[w] = "resolve"
    /\ LET e == job[w].event
       IN  events' = IF Open(e) THEN [events EXCEPT ![e].state = "resolved"] ELSE events
    /\ Return(w, {})
    /\ UNCHANGED <<clock, config, pages, fired>>
----------------------------------------------------------------------------
(* raise. *)

\* A bug: the insert-or-update choice taken from the event read earlier.
ConflictReadEarlier(j) == IF j.prior.state = "none" THEN {} ELSE OpenEvents(j.rule, j.key)

\* ON CONFLICT (rule_id, dedup_key) WHERE state <> 'resolved'
Conflict(j) == OpenEvents(j.rule, j.key)

\* Bugs: the repeat's count replaces the sum; the repeat reopens an owned alert.
FoldOverwrites(ev, j) == [ev EXCEPT !.count = j.matched, !.last = j.now]
FoldReopens(ev, j) == [ev EXCEPT !.count = ev.count + j.matched, !.last = j.now, !.state = "firing"]

\* DO UPDATE SET
Fold(ev, j) == [ev EXCEPT !.count = ev.count + j.matched, !.last = j.now]

\* VALUES
NewEvent(j) == [rule |-> j.rule, key |-> j.key, state |-> "firing",
                count |-> j.matched, last |-> j.now, notified |-> NoTime]

\* The upsert on the partial unique index, then the suppression decision, which
\* uses the event read before the upsert.  The rule's foreign key must hold.
RecordFiring(w) ==
    LET j  == job[w]
        id == IF Conflict(j) = {} THEN Len(events) + 1 ELSE CHOOSE e \in Conflict(j) : TRUE
        notify == ShouldNotify(j.rows[j.rule], ProjectOf[j.rule], j.prior, j.windows, j.now)
    IN  /\ pc[w] = "record" /\ rules[j.rule].live
        /\ fired[j.rule][j.key] + j.matched <= MaxFired
        /\ \/ /\ Conflict(j) = {} /\ Len(events) < MaxEvents
              /\ events' = Append(events, NewEvent(j))
           \/ /\ Conflict(j) # {}
              /\ events' = [events EXCEPT ![id] = Fold(events[id], j)]
        /\ fired' = [fired EXCEPT ![j.rule][j.key] = @ + j.matched]
        /\ \/ /\ notify
              /\ pc'  = [pc EXCEPT ![w] = "send"]
              /\ job' = [job EXCEPT ![w].event = id]
              /\ UNCHANGED excused
           \/ ~notify /\ Return(w, {})
        /\ UNCHANGED <<clock, config, pages>>

\* SendAlert: an enabled connection delivers; a disabled one returns nil with
\* nothing sent.  The rule's connection is the one loaded with the batch.
SendAlert(w) ==
    LET j == job[w]
        row == j.rows[j.rule]
    IN  /\ pc[w] = "send"
        /\ IF enabled[row.conn]
           THEN /\ Len(pages) < MaxPages
                /\ pages' = Append(pages, [event |-> j.event, by |-> w, at |-> j.now,
                                           dedup |-> DedupWindow(row)])
           ELSE UNCHANGED pages
        /\ pc' = [pc EXCEPT ![w] = "mark"]
        /\ UNCHANGED <<clock, config, events, job, fired, excused>>

\* MarkNotified: an update by id; a row deleted with its rule is no longer there.
MarkNotified(w) ==
    /\ pc[w] = "mark"
    /\ LET e == job[w].event
       IN  events' = IF events[e].state = "deleted" THEN events
                     ELSE [events EXCEPT ![e].notified = job[w].now]
    /\ Return(w, InFlight(job[w].event))
    /\ UNCHANGED <<clock, config, pages, fired>>

\* Any statement of raise or resolveOpen returns an error: the rule is abandoned.
RaiseFails(w) ==
    /\ pc[w] \in {"record", "send", "mark", "resolve"}
    /\ Return(w, {})
    /\ UNCHANGED <<clock, config, events, pages, fired>>

\* The process stops, or the dispatch timeout cancels the rest of the batch.
Abandon(w) ==
    /\ pc[w] # "idle"
    /\ pc'  = [pc EXCEPT ![w] = "idle"]
    /\ job' = [job EXCEPT ![w] = NoJob]
    /\ excused' = {x \in excused : x[2] # w}
    /\ UNCHANGED <<clock, config, events, pages, fired>>
----------------------------------------------------------------------------
(* Operators. *)

AcknowledgeEvent(e) ==
    /\ events[e].state = "firing"
    /\ events' = [events EXCEPT ![e].state = "acknowledged"]
    /\ excused' = excused \cup InFlight(e)
    /\ UNCHANGED <<clock, config, pc, job, pages, fired>>

ResolveEvent(e) ==
    /\ Open(e)
    /\ events' = [events EXCEPT ![e].state = "resolved"]
    /\ UNCHANGED <<clock, config, pc, job, pages, fired, excused>>

\* UpdateRule and toggleRule write the whole row from an earlier read, so the new
\* row is any row.
UpdateRule(r) ==
    /\ edits < MaxEdits /\ rules[r].live
    /\ \E row \in RuleRow : row.live /\ rules' = [rules EXCEPT ![r] = row]
    /\ edits' = edits + 1
    /\ UNCHANGED <<clock, enabled, maint, events, pc, job, pages, fired, excused>>

\* DeleteRule; alert_events_rule_fk cascades.
DeleteRule(r) ==
    /\ edits < MaxEdits /\ rules[r].live
    /\ rules'  = [rules EXCEPT ![r].live = FALSE]
    /\ events' = [e \in DOMAIN events |->
                    IF events[e].rule = r THEN [events[e] EXCEPT !.state = "deleted"] ELSE events[e]]
    /\ fired'  = [fired EXCEPT ![r] = [k \in Keys |-> 0]]
    /\ edits'  = edits + 1
    /\ UNCHANGED <<clock, enabled, maint, pc, job, pages, excused>>

\* Update with Enabled set, and the first statement of Disable.
UpdateIntegration(c) ==
    /\ edits < MaxEdits
    /\ \E on \in BOOLEAN : enabled' = [enabled EXCEPT ![c] = on]
    /\ edits' = edits + 1
    /\ UNCHANGED <<clock, rules, maint, events, pc, job, pages, fired, excused>>

\* Disable's second statement.
DisableRulesByConnection(c) ==
    /\ edits < MaxEdits
    /\ rules' = [r \in Rules |-> IF rules[r].conn = c THEN [rules[r] EXCEPT !.active = FALSE]
                                 ELSE rules[r]]
    /\ edits' = edits + 1
    /\ UNCHANGED <<clock, enabled, maint, events, pc, job, pages, fired, excused>>

CreateMaintenanceWindow(w) ==
    /\ edits < MaxEdits /\ w.end > w.start
    /\ maint' = maint \cup {w}
    /\ edits' = edits + 1
    /\ UNCHANGED <<clock, rules, enabled, events, pc, job, pages, fired, excused>>

\* Bounded by the windows created.
DeleteMaintenanceWindow(w) ==
    /\ w \in maint
    /\ maint' = maint \ {w}
    /\ UNCHANGED <<clock, rules, enabled, edits, events, pc, job, pages, fired, excused>>

Tick ==
    /\ clock < MaxClock
    /\ clock' = clock + 1
    /\ UNCHANGED <<config, events, pc, job, pages, fired, excused>>
----------------------------------------------------------------------------
WorkerStep(w) ==
    \/ QueryActiveRules(w)
    \/ QueryThresholdRules(w)
    \/ \E r \in Rules : SkipRule(w, r) \/ QueryOpenEvent(w, r) \/ QueryOpenToResolve(w, r)
    \/ ResolveOpen(w)
    \/ RecordFiring(w)
    \/ SendAlert(w)
    \/ MarkNotified(w)

WorkerFault(w) == RaiseFails(w) \/ Abandon(w)

Operator ==
    \/ \E e \in DOMAIN events : AcknowledgeEvent(e) \/ ResolveEvent(e)
    \/ \E r \in Rules : UpdateRule(r) \/ DeleteRule(r)
    \/ \E c \in Conns : UpdateIntegration(c) \/ DisableRulesByConnection(c)
    \/ \E w \in Window : CreateMaintenanceWindow(w) \/ DeleteMaintenanceWindow(w)

Next ==
    \/ \E w \in Workers : WorkerStep(w) \/ WorkerFault(w)
    \/ Operator
    \/ Tick

Spec == Init /\ [][Next]_vars
----------------------------------------------------------------------------
(* Properties. *)

\* Every variable has its type.
TypeOK ==
    /\ clock \in Time
    /\ rules \in [Rules -> RuleRow]
    /\ enabled \in [Conns -> BOOLEAN]
    /\ maint \in SUBSET Window
    /\ events \in Seq(Event)
    /\ pc \in [Workers -> PCs]
    /\ job \in [Workers -> Job]
    /\ pages \in Seq(Page)
    /\ fired \in [Rules -> [Keys -> Nat]]
    /\ excused \subseteq (Nat \X Workers)
    /\ edits \in 0 .. MaxEdits

\* QueryOpenEvent relies on it and RecordFiring promises it: however many ingest
\* batches, evaluators and operators race, a rule and dedup key never have two
\* unresolved events.
AtMostOneOpen ==
    \A e, f \in DOMAIN events :
        (Open(e) /\ Open(f) /\ events[e].rule = events[f].rule /\ events[e].key = events[f].key)
            => e = f

\* The rows of a rule for a key that were not deleted with it
Counted(r, k) == {e \in DOMAIN events : /\ events[e].rule = r /\ events[e].key = k
                                        /\ events[e].state # "deleted"}

\* No firing is lost or counted twice when batches fold into the same event: the
\* match counts of a rule's events for a key add up to the matches recorded.
MatchCountConserved ==
    \A r \in Rules, k \in Keys :
        SumFunction([e \in Counted(r, k) |-> events[e].count]) = fired[r][k]

\* The step delivers a page, the last one of pages'.
Paged == Len(pages') = Len(pages) + 1

\* "Acknowledged means somebody owns it": after AcknowledgeEvent the only pages
\* for that event come from raises that had read it before.
AckSilences ==
    [][Paged => LET p == pages'[Len(pages')]
                IN  events[p.event].state = "acknowledged" => <<p.event, p.by>> \in excused]_vars

\* "After notifying, an alert stays quiet this long even while it keeps matching":
\* a page is at least the dedup window later than what the event row records as
\* its last notification at the moment of the send, unless that was recorded
\* after the raise had read the event.
DedupWindowQuiet ==
    [][Paged => LET p == pages'[Len(pages')]
                    n == events[p.event].notified
                IN  n = NoTime \/ p.at - n >= p.dedup \/ <<p.event, p.by>> \in excused]_vars

\* What readers of the alerting API are promised: one alert per rule and key.
AlertOf(r, k) ==
    IF OpenEvents(r, k) = {} THEN [state |-> "clear", count |-> 0]
    ELSE LET e == CHOOSE e \in OpenEvents(r, k) : TRUE
         IN  [state |-> events[e].state, count |-> events[e].count]

Lifecycle == INSTANCE AlertLifecycle
    WITH alert <- [r \in Rules |-> [k \in Keys |-> AlertOf(r, k)]]

\* The interleaved raises, evaluators and operators implement the atomic alert
\* lifecycle of AlertLifecycle.
ImplementsLifecycle == Lifecycle!Spec
----------------------------------------------------------------------------
(* What comments and documents say and the code does not do (README, section 4). *)

\* "MarkNotified records that an alert was delivered".
NotifiedMeansDelivered ==
    \A e \in DOMAIN events :
        events[e].notified # NoTime => \E i \in DOMAIN pages : pages[i].event = e

\* The rule, not the alert, keeps the firing that w is recording silent.
RuleSilenced(w) ==
    LET j == job[w]
    IN  ~ShouldNotify(j.rows[j.rule], ProjectOf[j.rule], NoPrior, j.windows, j.now)

\* "No open alert: this is a new one, so it always notifies": the raise that
\* inserts a new event goes on to send it, unless its rule is silenced.
NewAlertNotifies ==
    [][\A w \in Workers :
         (pc[w] = "record" /\ pc'[w] # "record" /\ Len(events') = Len(events) + 1)
            => (pc'[w] = "send" \/ RuleSilenced(w))]_vars

\* "A repeat advances last_seen_at".
LastSeenAdvances == [][\A e \in DOMAIN events : events'[e].last >= events[e].last]_vars
============================================================================

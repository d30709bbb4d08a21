--------------------------- MODULE IngestPipeline ---------------------------
(***************************************************************************)
(* The infrastructure-log pipeline (app/domain/ingestapp, the limiter of   *)
(* business/sdk/ingest, business/domain/usagebus, business/domain/         *)
(* rejectbus), from an authenticated request to its counters.              *)
(*                                                                         *)
(* Requests run concurrently.  Each takes the time once, is charged to its *)
(* source's token bucket, checked against the daily quota of the           *)
(* organization, persisted, and leaves up to three goroutines behind: the  *)
(* usage counters, the refused records, the source's last_seen_at.         *)
(*                                                                         *)
(* The clock counts seconds.  All sources are of one organization.  Of a   *)
(* batch only the number of ERROR records, of others and of refused ones   *)
(* is kept.                                                                *)
(***************************************************************************)
EXTENDS Integers, FiniteSets, FiniteSetsExt, Functions

CONSTANTS
    Sources,
    Slots,         \* requests with their goroutines, at most so many at a time
    Rate, Burst,   \* RateLimitPerSec, RateLimitBurst
    Quota,         \* infra_daily_event_quota, -1 for none
    HourlyCap,     \* of stored refused records
    TouchInterval,
    HourLen, DayLen,
    Sampling,      \* whether SampleDebugInfo is below 1
    Failing,       \* whether statements may fail
    Batches,       \* the batches agents send
    MaxRecords,    \* of a batch
    MaxRejects,    \* bound on the refused records of a batch
    MaxClock,      \* bound on the clock
    MaxArrivals    \* bound on the requests

Batch  == [errors: 0 .. MaxRecords, others: 0 .. MaxRecords, rejects: 0 .. MaxRejects]

ASSUME ConstantsAssumption ==
    /\ IsFiniteSet(Sources) /\ IsFiniteSet(Slots)
    /\ Rate \in Nat /\ Burst \in Nat /\ Quota \in Int
    /\ HourlyCap \in Nat \ {0} /\ TouchInterval \in Nat
    /\ HourLen \in Nat \ {0} /\ DayLen \in Nat \ {0} /\ DayLen % HourLen = 0
    /\ {Sampling, Failing} \subseteq BOOLEAN
    /\ MaxRecords \in Nat /\ MaxRejects \in Nat /\ MaxClock \in Nat
    /\ MaxArrivals \in Nat /\ Batches \subseteq Batch

Time == 0 .. MaxClock
None == -1
Hour(t) == t \div HourLen
Day(t)  == t \div DayLen
Hours == 0 .. Hour(MaxClock)
Days  == 0 .. Day(MaxClock)

NoBatch == [errors |-> 0, others |-> 0, rejects |-> 0]
Counter == [events: Nat, errors: Nat, dropped: Nat, rejects: Nat]
Zero == [events |-> 0, errors |-> 0, dropped |-> 0, rejects |-> 0]

VARIABLES
    clock,
    \* the limiter
    tokens, last,  \* per source; last = None before the first call
    since,         \* history: records admitted at limiter time t or later
    \* requests
    pc,            \* "idle", "arrived", "limited", "checked" or "spawned"
    src, now, batch,
    usage,         \* the counters goroutine: the delta it will add, or Zero
    rejecting,     \* the refused-records goroutine: "none", "count" or "store"
    room,          \* what CountSince left it
    touching,      \* whether the last_seen_at goroutine is pending
    \* the database and the process
    logs,          \* history: events persisted per source and day
    daily,         \* ingest_usage.event_count
    hourly,        \* ingest_stats_hourly
    stored,        \* ingest_rejects by hour of receipt
    lastTouch,     \* app.lastTouch
    lastSeen,      \* sources.last_seen_at
    \* history
    arrivals,      \* requests so far
    presented,     \* sources whose key was presented and accepted
    lost,          \* events whose counters were lost, per day
    blind,         \* records let through with the quota unread, per day
    promise,       \* the Retry-After a source holds: [need, due]
    refused        \* promised retries that were refused: [need, late]

limiter  == <<tokens, last, since, promise, refused>>
request  == <<src, now, batch>>
database == <<logs, daily, hourly, stored, lastTouch, lastSeen>>
routines == <<usage, rejecting, room, touching>>
vars == <<clock, limiter, pc, request, routines, database, arrivals, presented, lost, blind>>

NoPromise == [need |-> 0, due |-> 0]

Init ==
    /\ clock = 0
    /\ tokens = [s \in Sources |-> 0] /\ last = [s \in Sources |-> None]
    /\ since = [s \in Sources |-> [t \in Time |-> 0]]
    /\ pc = [q \in Slots |-> "idle"]
    /\ src \in [Slots -> Sources] /\ now = [q \in Slots |-> 0]
    /\ batch = [q \in Slots |-> NoBatch]
    /\ usage = [q \in Slots |-> Zero]
    /\ rejecting = [q \in Slots |-> "none"] /\ room = [q \in Slots |-> 0]
    /\ touching = [q \in Slots |-> FALSE]
    /\ logs = [s \in Sources |-> [d \in Days |-> 0]]
    /\ daily = logs
    /\ hourly = [s \in Sources |-> [h \in Hours |-> Zero]]
    /\ stored = [s \in Sources |-> [h \in Hours |-> 0]]
    /\ lastTouch = [s \in Sources |-> None] /\ lastSeen = [s \in Sources |-> None]
    /\ arrivals = 0 /\ presented = {}
    /\ lost = [d \in Days |-> 0] /\ blind = [d \in Days |-> 0]
    /\ promise = [s \in Sources |-> NoPromise]
    /\ refused = {}
----------------------------------------------------------------------------
Size(b) == b.errors + b.others

\* bulk and otlp, past authentication: a body with no record at all, or with more
\* than maxRecords good ones, is refused before it is charged.
Arrive(q, s, b) ==
    /\ pc[q] = "idle" /\ arrivals < MaxArrivals
    /\ arrivals' = arrivals + 1
    /\ Size(b) + b.rejects > 0 /\ Size(b) <= MaxRecords
    /\ pc' = [pc EXCEPT ![q] = "arrived"]
    /\ src' = [src EXCEPT ![q] = s] /\ now' = [now EXCEPT ![q] = clock]
    /\ batch' = [batch EXCEPT ![q] = b]
    /\ presented' = presented \cup {s}
    /\ UNCHANGED <<clock, limiter, routines, database, lost, blind>>

\* The request is answered and nothing of it is left.
Respond(q) ==
    /\ pc' = [pc EXCEPT ![q] = "idle"]
    /\ batch' = [batch EXCEPT ![q] = NoBatch]
    /\ UNCHANGED <<src, now>>
----------------------------------------------------------------------------
(* The limiter. *)

Unlimited == Rate = 0 \/ Burst = 0

\* A bug: last follows the request's time even when that is older.
ClockAfterLatest(s, t) == t

\* b.last after a call at time t: a call that took the time earlier does not move it
ClockAfter(s, t) == IF t > last[s] THEN t ELSE last[s]

\* b.tokens before it is charged
Refilled(s, t) ==
    IF last[s] = None THEN Burst
    ELSE IF t > last[s] THEN Min({Burst, tokens[s] + (t - last[s]) * Rate})
    ELSE tokens[s]

\* The Retry-After header: whole seconds, rounded down, at least one
RetryAfter(deficit) == Max({deficit \div Rate, 1})

\* AllowN lets the batch through.
Admit(q) ==
    LET s == src[q]
        n == Size(batch[q])
        t == ClockAfter(s, now[q])
    IN  /\ pc[q] = "arrived"
        /\ Unlimited \/ Refilled(s, now[q]) >= n
        /\ pc' = [pc EXCEPT ![q] = "limited"]
        /\ IF Unlimited THEN UNCHANGED <<tokens, last, since>>
           ELSE /\ tokens' = [tokens EXCEPT ![s] = Refilled(s, now[q]) - n]
                /\ last' = [last EXCEPT ![s] = t]
                /\ since' = [since EXCEPT ![s] =
                               [a \in Time |-> IF a <= t THEN since[s][a] + n ELSE since[s][a]]]
        /\ promise' = IF n > 0 THEN [promise EXCEPT ![s] = NoPromise] ELSE promise
        /\ UNCHANGED <<clock, request, routines, database, arrivals, presented, lost, blind, refused>>

\* AllowN refuses: 429 with a Retry-After counted from the answer.
Throttle(q) ==
    LET s == src[q]
        n == Size(batch[q])
        have == Refilled(s, now[q])
        p == promise[s]
    IN  /\ pc[q] = "arrived"
        /\ ~Unlimited /\ have < n
        /\ tokens' = [tokens EXCEPT ![s] = have]
        /\ last' = [last EXCEPT ![s] = ClockAfter(s, now[q])]
        /\ refused' = IF p.need = n /\ now[q] >= p.due
                      THEN refused \cup {[need |-> n, late |-> now[q] - p.due]} ELSE refused
        /\ promise' = [promise EXCEPT ![s] =
                         [need |-> n, due |-> clock + RetryAfter(n - have)]]
        /\ Respond(q)
        /\ UNCHANGED <<clock, since, routines, database, arrivals, presented, lost, blind>>
----------------------------------------------------------------------------
(* Quota, persistence. *)

\* UsedToday: the organization's events of the day
UsedToday(d) == SumFunction([s \in Sources |-> daily[s][d]])

\* A bug: the quota is exceeded only when it is surpassed.
ExceededStrictly(d) == Quota >= 0 /\ UsedToday(d) > Quota

Exceeded(d) == Quota >= 0 /\ UsedToday(d) >= Quota

\* A quota that cannot be read lets the batch through.
CheckQuota(q) ==
    LET d == Day(now[q])
    IN  /\ pc[q] = "limited"
        /\ \/ /\ ~Exceeded(d)
              /\ pc' = [pc EXCEPT ![q] = "checked"]
              /\ UNCHANGED <<request, blind>>
           \/ /\ Failing
              /\ pc' = [pc EXCEPT ![q] = "checked"]
              /\ blind' = [blind EXCEPT ![d] = blind[d] + Size(batch[q])]
              /\ UNCHANGED request
           \/ Exceeded(d) /\ Respond(q) /\ UNCHANGED blind
        /\ UNCHANGED <<clock, limiter, routines, database, arrivals, presented, lost>>

\* A bug: the counters are those of what was submitted.
DeltaSubmitted(b, dropped) ==
    [events |-> Size(b), errors |-> b.errors, dropped |-> dropped, rejects |-> b.rejects]

\* recordUsage, from what was persisted
Delta(b, dropped) ==
    [events |-> Size(b) - dropped, errors |-> b.errors, dropped |-> dropped, rejects |-> b.rejects]

\* touchLastSeen: whether a goroutine is started
Touches(s, t) == lastTouch[s] = None \/ t - lastTouch[s] >= TouchInterval

\* Sampling drops some of the records below WARN; the rest is persisted in one
\* transaction, and the goroutines are started.
Persist(q) ==
    LET s == src[q]
        b == batch[q]
        d == Day(now[q])
    IN  /\ pc[q] = "checked"
        /\ \E dropped \in 0 .. b.others :
             /\ dropped > 0 => Sampling
             /\ logs' = [logs EXCEPT ![s][d] = logs[s][d] + (Size(b) - dropped)]
             /\ usage' = [usage EXCEPT ![q] = Delta(b, dropped)]
        /\ rejecting' = [rejecting EXCEPT ![q] = IF b.rejects > 0 THEN "count" ELSE "none"]
        /\ touching' = [touching EXCEPT ![q] = Touches(s, now[q])]
        /\ lastTouch' = IF Touches(s, now[q]) THEN [lastTouch EXCEPT ![s] = now[q]] ELSE lastTouch
        /\ pc' = [pc EXCEPT ![q] = "spawned"]
        /\ UNCHANGED <<clock, limiter, request, room, daily, hourly, stored, lastSeen,
                       arrivals, presented, lost, blind>>

\* BulkCreate fails: the request is refused, after it was charged.
PersistFails(q) ==
    /\ Failing /\ pc[q] = "checked" /\ Size(batch[q]) > 0
    /\ Respond(q)
    /\ UNCHANGED <<clock, limiter, routines, database, arrivals, presented, lost, blind>>
----------------------------------------------------------------------------
(* The goroutines. *)

Add(c, u) == [events |-> c.events + u.events, errors |-> c.errors + u.errors,
              dropped |-> c.dropped + u.dropped, rejects |-> c.rejects + u.rejects]

\* usagedb.Record takes hour and day from the request's time.
HourOf(q) == Hour(now[q])

\* usagedb.Record: both tables in one transaction.
RecordUsage(q) ==
    LET s == src[q]
        d == Day(now[q])
    IN  /\ pc[q] = "spawned" /\ usage[q] # Zero
        /\ daily' = [daily EXCEPT ![s][d] = daily[s][d] + usage[q].events]
        /\ hourly' = [hourly EXCEPT ![s][HourOf(q)] = Add(hourly[s][HourOf(q)], usage[q])]
        /\ usage' = [usage EXCEPT ![q] = Zero]
        /\ UNCHANGED <<clock, limiter, pc, request, rejecting, room, touching, logs, stored,
                       lastTouch, lastSeen, arrivals, presented, lost, blind>>

\* Record fails or times out; "best-effort".
UsageLost(q) ==
    LET d == Day(now[q])
    IN  /\ Failing /\ pc[q] = "spawned" /\ usage[q] # Zero
        /\ lost' = [lost EXCEPT ![d] = lost[d] + usage[q].events]
        /\ usage' = [usage EXCEPT ![q] = Zero]
        /\ UNCHANGED <<clock, limiter, pc, request, rejecting, room, touching, database, arrivals, presented, blind>>

\* CountSince the hour began, against the cap
RoomLeft(s) == HourlyCap - stored[s][Hour(clock)]

\* rejectbus.Store up to CountSince
CountRejects(q) ==
    LET left == RoomLeft(src[q])
    IN  /\ pc[q] = "spawned" /\ rejecting[q] = "count"
        /\ rejecting' = [rejecting EXCEPT ![q] = IF left > 0 THEN "store" ELSE "none"]
        /\ room' = [room EXCEPT ![q] = IF left > 0 THEN left ELSE 0]
        /\ UNCHANGED <<clock, limiter, pc, request, usage, touching, database, arrivals, presented, lost, blind>>

\* The insert of what fits
StoreRejects(q) ==
    LET s == src[q]
        h == Hour(clock)
    IN  /\ pc[q] = "spawned" /\ rejecting[q] = "store"
        /\ stored' = [stored EXCEPT ![s][h] = stored[s][h] + Min({batch[q].rejects, room[q]})]
        /\ rejecting' = [rejecting EXCEPT ![q] = "none"]
        /\ room' = [room EXCEPT ![q] = 0]
        /\ UNCHANGED <<clock, limiter, pc, request, usage, touching, logs, daily, hourly,
                       lastTouch, lastSeen, arrivals, presented, lost, blind>>

\* sourcedb.TouchLastSeen
TouchLastSeen(q) ==
    /\ pc[q] = "spawned" /\ touching[q]
    /\ lastSeen' = [lastSeen EXCEPT ![src[q]] = now[q]]
    /\ touching' = [touching EXCEPT ![q] = FALSE]
    /\ UNCHANGED <<clock, limiter, pc, request, usage, rejecting, room, logs, daily, hourly,
                   stored, lastTouch, arrivals, presented, lost, blind>>

\* A goroutine other than the counters' fails, times out or is cut off.
RoutineFails(q) ==
    /\ Failing /\ pc[q] = "spawned"
    /\ \/ /\ rejecting[q] # "none"
          /\ rejecting' = [rejecting EXCEPT ![q] = "none"] /\ room' = [room EXCEPT ![q] = 0]
          /\ UNCHANGED touching
       \/ /\ touching[q]
          /\ touching' = [touching EXCEPT ![q] = FALSE]
          /\ UNCHANGED <<rejecting, room>>
    /\ UNCHANGED <<clock, limiter, pc, request, usage, database, arrivals, presented, lost, blind>>

\* All goroutines of the request have ended.
Done(q) ==
    /\ pc[q] = "spawned" /\ usage[q] = Zero /\ rejecting[q] = "none" /\ ~touching[q]
    /\ Respond(q)
    /\ UNCHANGED <<clock, limiter, routines, database, arrivals, presented, lost, blind>>
----------------------------------------------------------------------------
Tick ==
    /\ clock < MaxClock
    /\ clock' = clock + 1
    /\ UNCHANGED <<limiter, pc, request, routines, database, arrivals, presented, lost, blind>>

Next ==
    \/ \E q \in Slots :
         \/ \E s \in Sources, b \in Batches : Arrive(q, s, b)
         \/ Admit(q) \/ Throttle(q)
         \/ CheckQuota(q)
         \/ Persist(q) \/ PersistFails(q)
         \/ RecordUsage(q) \/ UsageLost(q)
         \/ CountRejects(q) \/ StoreRejects(q)
         \/ TouchLastSeen(q) \/ RoutineFails(q)
         \/ Done(q)
    \/ Tick

Spec == Init /\ [][Next]_vars
----------------------------------------------------------------------------
(* Properties. *)

\* Every variable has its type; a bucket holds between nothing and its burst.
TypeOK ==
    /\ clock \in Time
    /\ tokens \in [Sources -> 0 .. Burst] /\ last \in [Sources -> Time \cup {None}]
    /\ since \in [Sources -> [Time -> Nat]]
    /\ pc \in [Slots -> {"idle", "arrived", "limited", "checked", "spawned"}]
    /\ src \in [Slots -> Sources] /\ now \in [Slots -> Time] /\ batch \in [Slots -> Batch]
    /\ usage \in [Slots -> Counter]
    /\ rejecting \in [Slots -> {"none", "count", "store"}] /\ room \in [Slots -> Nat]
    /\ touching \in [Slots -> BOOLEAN]
    /\ logs \in [Sources -> [Days -> Nat]] /\ daily \in [Sources -> [Days -> Nat]]
    /\ hourly \in [Sources -> [Hours -> Counter]] /\ stored \in [Sources -> [Hours -> Nat]]
    /\ lastTouch \in [Sources -> Time \cup {None}] /\ lastSeen \in [Sources -> Time \cup {None}]
    /\ arrivals \in 0 .. MaxArrivals /\ presented \subseteq Sources
    /\ lost \in [Days -> Nat] /\ blind \in [Days -> Nat]
    /\ promise \in [Sources -> [need: Nat, due: Nat]]

\* "a source's configured limits are honored": in any stretch of the limiter's
\* time, a .. last, no more is admitted than the burst and what the rate has
\* brought since, whatever order concurrent requests reach the limiter in.
RateBound ==
    \A s \in Sources, a \in Time :
        (~Unlimited /\ a <= last[s]) => since[s][a] <= Burst + Rate * (last[s] - a)

\* The organization's events of day d
Persisted(d) == SumFunction([s \in Sources |-> logs[s][d]])

\* The events of source s and day d that a goroutine is still about to count
Uncounted(s, d) ==
    SumFunction([q \in Slots |-> IF pc[q] = "spawned" /\ src[q] = s /\ Day(now[q]) = d
                                 THEN usage[q].events ELSE 0])

\* Quota is enforced from what was persisted: over the organization, events of a
\* day are the counted ones, those about to be counted and those whose counters
\* were lost.
UsageConserved ==
    \A d \in Days :
        Persisted(d) = UsedToday(d) + lost[d] + SumFunction([s \in Sources |-> Uncounted(s, d)])

\* The quota is checked against counters that trail the writes, so it can be
\* overshot, by no more than the batches that were under way, those whose
\* counters were lost and those let through unread.
QuotaOvershootBounded ==
    \A d \in Days : Quota > 0 =>
        Persisted(d) <= Quota - 1 + Cardinality(Slots) * MaxRecords + lost[d] + blind[d]
----------------------------------------------------------------------------
(* What comments and documents say and the code does not do (README, section 4). *)

\* AllowN "returns the duration the caller should wait before retrying": the
\* retry of a lone sender that waited so long is admitted.
RetryAfterSuffices == refused = {}

\* "DefaultHourlyCap is how many rejects are kept per source per hour."
RejectsCapped == \A s \in Sources, h \in Hours : stored[s][h] <= HourlyCap

\* "HealthNeverConnected means no collector has ever presented this key."
NeverConnectedIsTrue ==
    \A s \in Sources :
        (s \in presented /\ \A q \in Slots : src[q] = s => pc[q] = "idle") => lastSeen[s] # None
============================================================================

# TLA+ models of logingestor

logingestor is a multi-tenant log platform: an HTTP API in Go over PostgreSQL that
ingests application and infrastructure logs, rolls them up and expires them, raises
alerts, groups browser errors into issues, streams new logs to dashboards, and
exports its audit trail. This directory models the parts of it whose correctness
depends on interleaving, failure or time, model-checks them with TLC on small
instances, and proves some of their properties with TLAPS for every instance.

`PROJECT.json` gives, for every definition, the source lines it stands for.

## 1. The system

All of it is one process per instance (`api/services/ingestor/main.go`): HTTP
handlers, each in its own goroutine; goroutines that outlive their request (usage
counters, refused records, alert dispatch); tickers (thresholds, spikes, grouping
worker, retention, audit export); and one PostgreSQL database at READ COMMITTED. A
second service (`api/services/auth`) authenticates, with a user cache of its own.
Several instances may share the database; in-memory state (limiter buckets, stream
tickets, live-tail rooms, source-map and user caches, sign-on states) is per process.

| Component | State | Operations | What makes it correct |
|---|---|---|---|
| Alerting (`integrationbus`, `logalert`) | `alert_events`, rules, connections, maintenance windows | dispatch of a batch, threshold evaluation, acknowledge, resolve, edit rules and connections | one open event per rule and key; matches are not lost; acknowledged alerts are silent; the dedup window; alerts stay in their project; thresholds count right |
| Client errors (`clienterrorbus`, `clienterrorapp`) | limiter, events, issues, source maps, map cache | report, identify, claim, resolve, group, re-group, triage, purge, spikes | a told wait suffices; reports stay with their team; one issue per crash; counts; triage not undone; the queue drains |
| Log storage and retention (`logdb`, `retention`) | logs, `log_stats_hourly` | bulk insert, delete in batches, watermark and repair | the rollup agrees with the rows; a backlog drains |
| Audit export (`auditbus`, `auditexport`) | audit rows, persisted cursor | store, read a batch, post, advance, purge | at-least-once delivery; the cursor passes nothing it has not delivered |
| Sources (`sourcebus`, `authenticatesource.go`) | rows with key hash, flag, expiry | create, rotate, disconnect, authenticate | a replaced key is refused |
| Infra-log ingest (`ingestapp`, `ingest`, `usagebus`, `rejectbus`) | token buckets, quota, counters, refused records, `last_seen_at` | limit, check, persist, count | the limits; counters agree with what was stored |
| App-log ingest (`logapp.ingest`, `usagebus`) | `app_usage` | look up, authorize and meter each project of a batch, insert, count | entries only where the caller may write; counters agree |
| Live tail (`logapp/hub.go`) | rooms, send queues, writer goroutines | subscribe, broadcast, write, unsubscribe | no backpressure; nothing lost below the limit; nothing leaks |
| Stream tickets (`logapp/streamticket.go`) | in-memory tickets | issue, consume, token fallback | single use, right project, right user |
| Organizations, projects, access (`orgbus`, `projectbus`, `mid`) | organizations, members, projects, grants | create, change, remove, delete, the predicates | the owner stays an admin; the predicates agree |
| Invitations, SCIM (`invitationbus`, `scimbus`) | invitations, tokens | create, accept, revoke, expire; provision | an accepted invitation is complete |
| Billing (`billingapp`, `orgbus`) | subscriptions, retention overrides | checkout, portal, cancel, five webhook events | a paid organization keeps its link to Stripe |
| Accounts (`userbus`, `usercache`, `auth`) | users, verification tokens, two caches | register, verify, update, delete, authenticate | bounded staleness |
| API keys (`apikeybus`, `ratelimit`) | keys, buckets | mint, revoke, authenticate, charge, sweep | the sweep changes no budget |
| Single sign-on (`ssobus`, `ssoapp`) | configuration, states, session codes | start, callback, provision, redeem | a session is of the login it was started by |
| Views, permalinks, annotations (`viewbus`, `annotationbus`) | records with visibility and pin | all routes | a record reaches whom it may reach |
| Log queries, export, analytics, public API (`logapp`, `logbus`) | (reads) | pages, streaming, series, groups, totals | pages are complete; figures account for every row |

How they interact: both doors write logs (rows and rollup deltas in one transaction),
then hand the batch to the live tail, and the infra door to the alert dispatcher;
client-error grouping hands new, regressed and spiking issues to a dispatcher of the same
kind; retention deletes what the rollup, the audit export, the issue list and the exports
read; every administrative request stores an audit record. Where one module needs another
component it keeps only the fact it uses: a match is an input of `AlertEvents`, access is a
relation in `StreamTickets`, `AppIngest`, `SavedRecords` and `LogQueries` (`Tenancy` says
what it is made of), retention of audit rows is an action of `AuditExport`.

What is hard here: chains of autocommit statements with no transaction around them
(`raise`, `group`, `PurgeExpired`, accepting an invitation, a batch over several projects),
whole-row writes from rows loaded earlier, the time taken once and used several statements
later, cursors and watermarks over rows that commit out of order, caches another process
does not invalidate, events of a third party that come late and twice, and goroutines that
race the next request.

## 2. Modules

| Module | Models | Extends |
|---|---|---|
| `AlertEvents` | every statement of `FireAlerts`, `EvaluateThresholds`, `raise`, `resolveOpen`, and the operators | |
| `AlertLifecycle` | abstract: one atomic lifecycle per rule and key | |
| `AlertRules` | connections and rules under edit, conditions, dispatch and threshold counting over logs | |
| `ClientErrors` | worker, resolver cache, triage, purge, statement by statement | |
| `ClientIntake` | the limiter, the reporter's identity, fingerprints, spikes | |
| `LogRollup` | bulk insert, the retention run, the rollup repair | |
| `AuditExport` | audit rows, the exporter, the audit purge | |
| `SourceKeys`, `ApiKeys`, `Accounts`, `SignOn` | the four families of credentials | |
| `IngestPipeline`, `AppIngest` | the two doors for logs, with their goroutines | |
| `LiveTail` | hub, handlers, writers, broadcasters, peers | |
| `StreamTickets` | tickets and the handshake | |
| `Tenancy` | organizations, members, projects, access | |
| `Invitations` | invitations and SCIM against the membership changes of the application | `Tenancy` |
| `Billing` | subscriptions against Stripe's events | |
| `SavedRecords` | views, dashboards, permalinks, annotations | |
| `LogQueries` | lists and exports, page by page, over a changing table | |
| `LogAnalytics` | time series, group-by, counts per level, totals, single reads | |
| `MC...` | instances; where components do not share state, a behaviour has one `scene` | the components |
| `AlertEventsProofs` | proofs about `AlertEvents` and `AlertRules` | both, `SumLemmas` |
| `ClientErrorsProofs` | about `ClientErrors` and `ClientIntake` | both, `SumLemmas` |
| `IngestPipelineProofs` | about `IngestPipeline` and `AppIngest` | both, `SumLemmas` |
| `LogRollupProofs` | about `LogRollup` | `LogRollup` |
| `MembershipProofs` | about `Tenancy` with `Invitations`, `Billing`, `AuditExport` | the three |
| `SourceKeysProofs` | about `SourceKeys`, `ApiKeys`, `Accounts`, `SignOn` | the four |
| `StreamTicketsProofs` | about `StreamTickets`, `SavedRecords`, `LiveTail`, `LogQueries`, `LogAnalytics` | the five, `SumLemmas` |
| `SumLemmas` | sums of a function over a finite set, finite sets in order, multiples | the library |

Conventions. A step is what runs between two points where another actor can run: a
statement, a transaction, or a section under a mutex. A transaction is atomic; two
statements are two actions, and everything may come between them, except that a read
of something nobody else changes is merged with its neighbour. `now` taken at the
start of a request is kept in the request and may be older than the clock. Failures
of statements, lost answers, crashes and cancellation are actions. Definitions
introduced by "A bug:" are mutants: plausible mistakes in the definition that follows
them, each of which breaks a property. Variables marked "history" are not in the
program; properties use them and no guard does.

A component that is only ever checked next to others has its own names (`TenancyInit`,
`BillingNext`, `ssoVars`), and a `...Spec` that says what it is on its own.

### Alerting

A worker is a dispatcher or an evaluator, with the rule rows it read at the start of
the batch (`scan`), then per match: the open event it found (`prior`), the upsert
(`RecordFiring`, which relies on the partial unique index over unresolved events),
the delivery, and the mark. An acknowledgement, a resolution, a rule edit or
another worker may come between any two of these. `AlertLifecycle` is what the whole
promises: an event opens, folds recurrences, is acknowledged, is resolved, and never
comes back; `ImplementsLifecycle` is the refinement. `AlertRules` has what comes before: an
editor loads a connection or a rule, checks it, and writes it whole; dispatch and the
evaluator read logs, the one with the Go predicate, the other with the SQL one, its cap and
its window.

### Client errors

`ClientErrors`: each worker claims a batch by bumping attempts, resolves the stack through
the per-process cache of maps, upserts the issue, attaches the event, and notifies.
Uploading a map forgets the cache and marks the release for re-grouping. Triage loads
an issue, decides, and writes the columns back. `ClientIntake`: a report is charged to its
address, its organization and project are taken from the session or believed from its
hints, it is filed under a fingerprint (message template, kind and endpoint, in-app frames
without columns), and the spike evaluator compares whole windows with their baseline.

### Rollup and retention

A series is one project and source type. A purge deletes oldest first within the row
and time budget, then reads the oldest remaining row and repairs the rollup below and
in that hour in a second transaction. Inserts may be late by `MaxLag`.

### Audit export

A request stamps its record and inserts it later, so keys (timestamp, id) commit out of
order. The exporter reads after the cursor, posts, advances. A post may be refused, or
accepted with the answer lost; a run may die before the cursor is written.

### Credentials

`SourceKeys`: `loadOrgSource` and `Update` are separate statements and `Update` writes the
loaded copy; `Accepts` is what the middleware answers for a key. `ApiKeys`: a request is
charged to the key's bucket; a sweep, run by whichever request is due, drops idle buckets;
`allowance` is what the policy would have left. `Accounts`: a handler reads through its
service's cache, writes the row, then the cache; the other service keeps its entry until it
expires. `SignOn`: a login leaves a state, the callback takes it, exchanges the code,
finds or makes the account and the membership, and leaves a session code to redeem once.

### Ingest

`IngestPipeline`: a request takes the time, is charged to the bucket (under its mutex),
checks the quota from the counters, persists, and leaves goroutines that count usage, store
refused records and touch the source. `since` records what the bucket has admitted.
`AppIngest`: a batch may name several projects of several organizations; `todo` is what the
current stage (lookup, access, quota, counting) has left. `entitled` records what the caller
could reach at any time since the request arrived.

### Live tail and tickets

In `LiveTail` the handler, the writer and the broadcaster are three goroutines per the
code; `enqueue` and the writer's loop are Go `select`s and take any ready case; the peer
may hang up, or stall, in which case a write may still be buffered by the kernel or hit
the deadline. `StreamTickets` has the requests that issue and the handshakes that redeem;
the clock is read outside the lock.

### Tenancy, invitations, billing

A request of `Tenancy` is a handler between two of its statements (`req`), with the rows it
loaded; the audit extension records a change in a statement of its own. `Invitations` adds
two more doors to the same tables: accepting (membership, grants, the mark, in that order)
and provisioning. `Billing` has Stripe as environment: it keeps the truth (`stripeSubs`) and
sends events, which arrive in any order and more than once.

### Reading

A visit of `SavedRecords` reads a record, judges it, and answers or writes it back whole;
roles, access and projects change in between. A `scan` of `LogQueries` goes from page to page
by the cursor (timestamp, id), an export does so inside one request. In `LogAnalytics` an
answer is one statement; `chart` keeps it with the rows it was computed from (`read`) and the
rows of the range that was asked for (`wanted`).

## 3. Runs that pass

| Run | Checks | Instance |
|---|---|---|
| `Alerts` | `AtMostOneOpen`, `MatchCountConserved`, `AckSilences`, `DedupWindowQuiet`, `ImplementsLifecycle`, `AlertsStayInProject`, `ThresholdsFire` | scenes: two dispatchers over one rule, two events, three firings and two deliveries; a dispatcher, the evaluator and operators over two rules; two editors over two connections and a rule; one threshold rule and two logs around its window |
| `IssueRaces` | `OneIssuePerFingerprint`, `TriageConsistent`, `AskedWaitSuffices`, `ReportsStayInTeam`, `SameCrashSameIssue`, `SpikesStandOut` | scenes: two server processes, two events, an upload or two stale edits, failing statements; bursts of one address; hints of two organizations against lost membership; sightings of four crashes; repeats over two windows |
| `IssueQueue` | `CountCoversEvents`, `EventuallyDone` | one process that fails and crashes, retention, an upload or two edits |
| `RollupRetention` | `NeverOverReports`, `NeverUnderReports`, `ExpiredDeleted` | two source types, a budget of three rows in batches of two, one early stop or cancellation |
| `AuditDelivery` | `PassedMeansDelivered`, `EventuallyDelivered` | three records, batches of two, a failed run |
| `LiveTail` | `NothingLost`, `BroadcastFinishes`, `ClosedIsCleanedUp` | one subscriber, two ingest requests with two batches each over two projects, a queue of two |
| `Membership` | `OwnerStaysAdmin`, `VisibilityAgrees`, `AcceptedIsComplete`, `PaidKeepsLink` | an organization with a founder, an admin and a viewer, three requests, two at a time; scenes: organizations, invitations, provisioning, and two subscriptions with two events under way |
| `Credentials` | `ReplacedKeyRefused`, `BucketIsExact`, `StalenessBounded`, `SessionMatchesLogin` | scenes: two sources and two operators; two API keys over four minutes; one account, two handlers, two caches; two logins of two people at two organizations |
| `Reading` | `SingleUse`, `RecordsReachTheirReaders`, `PagesAreComplete`, `ChartsAddUp` | scenes: three stream requests, one asking for the ticket and two opening a stream; a record of each kind and two visits; three rows in pages of one or two; every figure over every table of three rows, with caps of one or two |
| `IngestLimits` | `RateBound`, `UsageConserved`, `QuotaOvershootBounded`, `AppUsageAgrees`, `WrittenWhereAllowed` | scenes: three infra batches, two at a time, the last a lone error after a tick, across the end of an hour and of a day, sampling, failing statements, quota 1, cap 1; two app batches of a member and a platform administrator over two organizations, one perhaps suspended, across midnight |

Type invariants of modules that have a proof module are part of their theorems.

The bounds. Every race above is between two actors on one row, so two of each kind of
actor reach it; a third actor of the same kind adds no new order of two writes to one row.
Clocks run far enough for a window, a ticket, a cache entry or a retention period to pass and
something to happen afterwards. Queues and budgets are smaller than what is offered, so the
limit is hit. Counters are bounded by named constants (`Max...`, `Last...`, `Budget`) in
guards: `MaxFired` and `MaxPages` firings and pages, `MaxEdits` and `MaxWrites` edits of alert
configuration, `MaxChanges` the uploads of a map (which count double, as they leave two steps)
and triage decisions together, `MaxIssues` the issue rows ever created, `MaxStops` the retention
runs that a deadline, a failing statement or a shutdown ends, `MaxFailures` the failed export
runs, `MaxArrivals` and `MaxCalls` the ingest requests, `MaxBatches` the batches broadcast,
`Budget` the requests started. The runs that end in `CHECK_DEADLOCK FALSE` stop at those bounds.
A scene restricts what starts, never how what has started goes on; it is fixed in a behaviour,
and components put in different scenes share no state. Symmetry is used where
requests are told apart by nothing but what they do: the request slots of `IngestLimits`, the
requests and the Stripe subscriptions of `Membership`.

## 4. Where code and documentation disagree

Two disagreements are kept as runs.

* `AuditSkipped` checks `NothingSkipped`, what the audit export promises, and TLC shows a record
  that is committed behind the cursor, by a request that took its timestamp before another one
  that committed first: it is never exported.
* `ThresholdCap` checks `AcceptedThresholdsFire`: `condition.go` accepts thresholds of up to
  1 000 000 matches, `alerting.go:21` counts up to 250 000, so a rule accepted above the cap
  never fires. `ThresholdsFire`, the same below the cap, passes.

The others are stated at the end of their module and belong to no run. Adding one to the
run named here (without its `SYMMETRY` line, and at the constants given, if any) makes TLC
print the behaviour.

| Property | The text | What the code does | Run |
|---|---|---|---|
| `NewAlertNotifies` | `suppress.go:128` "this is a new one, so it always notifies" | the open event is resolved between the read and the upsert: the new event is treated as a repeat and not sent | `Alerts` |
| `LastSeenAdvances` | `alertevents.go:144` "A repeat advances last_seen_at" | a batch with an older `now` folds later and moves it back | `Alerts` |
| `NotifiedMeansDelivered` | `alertevents.go:187` "records that an alert was delivered" | a disabled connection sends nothing and the event is marked | `Alerts` |
| `PredicateShared` | `condition.go:47` "the predicate shared by match and threshold conditions" | blanks, padding and the case of a source are read in two ways | `Alerts`, without `Plain(cond.query)` in `Thresholds` of `MCAlerts` |
| `DisconnectedStaysOff`, `SuspendedWithConnection` | `integrationapp.go:157` "suspend the rules bound to it" | an update from an older copy switches the connection on again; a rule is created on, or moved to, one that is off | `Alerts` |
| `CountExact` | `migrate.sql:1123` "Totals stay honest without storing every occurrence" | a sampled report that opens an issue counts as one | `IssueRaces` |
| `CountExact` | `clienterrorbus.go:160` "It is safe to run concurrently: the claim skips rows another worker holds" | the claim commits at once; a second process claims the same event and both count it | `IssueRaces`, `Heavy = {}`, `Faults = FALSE`, `MaxChanges = 0` |
| `CountExact` | `clienterrorbus.go:186` "the same crash keyed better" | an upload re-counts events whose fingerprint does not change | `IssueRaces`, one worker, `Heavy = {}`, `Faults = FALSE`, with `PurgeOrg` disabled (a purge while an event is being grouped is a shorter counterexample) |
| `RegressedOncePerRevival` | `clienterrordb.go:238` "reports whether the event revived a resolved issue" | every event after a regression reports it again | `IssueRaces` |
| `OnlyResolvingClearsRegressed` | `clienterrorbus.go:358` "Resolving clears the regressed flag" | an unrelated edit, from a copy loaded earlier, clears it too | `IssueRaces` |
| `NoShadowedMap` | `resolve.go:220` "picked up rather than shadowed by a remembered miss" | a miss read before the upload is cached after the cache was cleared | `IssueRaces` |
| `SpikesAreOldNews` | `clienterrordb.go:749` "a new issue already alerts as new, and a spike alert for it would be the same news twice" | a report with an old timestamp makes an issue opened in the window look older | `IssueRaces` |
| `RollupExact` | `logdb.go:55` "can never drift from the rows it counts" | a row committed between the watermark and the repair is lost from the rollup | `RollupRetention` |
| `DisabledStaysDisabled` | `sourcebus.go:124` "soft-disables a source so new writes are rejected" | a rotation from an older copy writes the flag back | `Credentials` |
| `RotationRevives` | `authenticatesource.go:71` "rotate it to continue" | rotation keeps the expiry, so the new key is expired as well | `Credentials` |
| `SustainedRateHolds` | `ratelimit.go:19` "PerMinute is the sustained rate" | a bucket that takes longer than the idle time to refill is swept and comes back full | `Credentials`, `KeyRates = {1}`, `KeyBursts = {3}` |
| `TokenConsumedOnce` | `userbus.go:234` "consumed exactly once" | two requests read the token before either marks it | `Credentials` |
| `VerifiedIsEnabled` | `userapp.go:257` "On success it marks used_at = now()" | a failure after the mark leaves the account disabled, its token used | `Credentials` |
| `DeletedNotServed`, `DisableSticks` | `usercache.go:77` "Delete removes a user" | an update that loaded the row earlier puts the entry, or the flag, back | `Credentials` |
| `NewUserEnabled` | `ssoapp.go:331` "enable it or the new user cannot authenticate" | a failure between creation and enabling leaves it disabled, also for the next login | `Credentials` |
| `AdminRemains` | `orgapp.go:324` "blocks membership edits that would orphan an organization" | two requests that each see two admins leave none | `Membership` |
| `OwnedWithinCap` | `orgbus.go:157` "Enforce the per-user ownership cap authoritatively" | two creations count before either inserts | `Membership`, `Orgs = {org, org2, org3}`, `Budget = 2` |
| `RevokedStaysOut` | `invitationapp.go:154` "to confirm it hasn't been revoked" | a revocation between the load and the join succeeds, and so does the join | `Membership`, `Budget = 4` |
| `PastDueRecorded` | `orgdb.go:602` "updates a subscription row identified by its Stripe subscription ID" | an update that names no plan changes nothing | `Membership` |
| `CheckoutUpgrades`, `EndedIsFree` | the handlers of `billingapp.go:224` | a checkout is never recorded as paid; a cancellation writes its old copy after the deletion | `Membership` |
| `RetentionWithinPlan` | `projectapp.go:129` "Retention may not exceed what the org's plan allows" | an override stays when the plan shrinks | `Membership` |
| `PrivateStaysPrivate` | `viewbus.go:100` "A private view is the creator's alone" | an update from a copy read while it was shared shares it again | `Reading` |
| `SeriesIsOfItsRange` | `logbus.go:200` "level counts bucketed by interval over the requested range" | from the rollup the hour `from` is in is left out (its bucket is there, empty) and the hour `to` is in is counted whole | `Reading` |
| `ExportKeepsItsWindow` | `export.go:26` "one long-running query" | with a tag filter and no `from`, each page's window starts later than the one before | `Reading` |
| `RetryAfterSuffices` | `limiter.go:31` "the duration the caller should wait before retrying" | the handler cuts it to whole seconds (`ingestapp.go:184`), and a batch above the burst is refused however long it waits | `IngestLimits`, `Rate = 2`, `Burst = 3`, `MaxRecords = 3`, batches of three errors |
| `RejectsCapped` | `rejectbus.go:39` "how many rejects are kept per source per hour" | two goroutines count before either stores | `IngestLimits` |
| `NeverConnectedIsTrue` | `health.go:33` "no collector has ever presented this key" | a source whose batches are all throttled never sets `last_seen_at` | `IngestLimits` |

Several properties that pass are the strongest statement that survives such a disagreement:

* `DedupWindowQuiet` (`suppress.go:17`, "stays quiet this long") excuses pages of two workers
  that were both past the read: each pages once within the window.
* `NeverOverReports` (`retention.go:443`, "The repair runs on every path that deleted
  anything") excuses, until its next repair, a series whose purge was cancelled after
  deleting: the repair then runs under the cancelled context and fails.
* It also needs inserts that are not expired already, which `MaxLag` ensures: the three
  regions of `retention.go:553` are exact only if nothing is inserted below the watermark
  afterwards.
* `NeverUnderReports` excepts inserts that race the watermark, `PassedMeansDelivered` records
  committed late; `QuotaOvershootBounded` says by how much concurrent requests may overshoot.
* `OwnerStaysAdmin` is about the owner, whom the guard protects by name, where `AdminRemains`
  is about the number of admins; `StalenessBounded` bounds what `DisableSticks` forbids by the
  lifetime of a cache entry.
* `WrittenWhereAllowed` allows access that was revoked while the request was under way.

## 5. Fairness

* `ClientErrors!FairSpec`: weak fairness of each grouping worker and of the upload's second
  half. The worker is a ticker loop that goes on after an error or a restart; the upload
  handler runs on. A claimed event is retried only while it has attempts left, so
  `EventuallyDone` allows an event that was abandoned on its last one.
* `LogRollup!FairSpec`: weak fairness of the retention run, a ticker loop. Early stops are
  bounded by `MaxStops`, since a run that always times out never drains anything.
* `AuditExport!FairSpec`: weak fairness of reading, posting and advancing; failed runs are
  bounded by `MaxFailures`, since a destination that never answers is never reached.
* `LiveTail!TailSpec`: weak fairness of the ingest goroutine only. That is the point of
  `BroadcastFinishes`: no other goroutine need run. `ClosedIsCleanedUp`
  is stated under `ConnsScheduled`, weak fairness of the handlers and the writers: the Go
  scheduler runs every runnable goroutine, and the write deadline ends a write. Nothing is
  assumed of the peer.

The other runs check safety and assume no fairness.

## 6. Theorems

What a theorem of a component needs besides its property is in the last column: the
property alone is not inductive, and what is missing is what the handlers carry from one
statement to the next.

| Theorem | Property | Inductive invariant |
|---|---|---|
| `AlertEventsProofs!OneOpenEvent` | types, `AtMostOneOpen` | adds `HeldEventsExist`: a worker past the upsert holds the id of an existing row, so marks and resolutions change a row rather than create one |
| `...!OwnedAlertsAreSilent`, `...!PagesKeepTheirDistance` | `AckSilences`, `DedupWindowQuiet` | `RaisesInv`: what a worker read of the open event is what the row still says, or the row was taken, marked or closed since (and the property excuses it) |
| `...!FiringsAddUp` | `MatchCountConserved` | `CountsInv` adds the sum itself: the upsert moves one summand by what it records, everything else leaves the sum alone |
| `...!RacesImplementLifecycle` | `ImplementsLifecycle` | under `RaisesInv`, each action is shown to be a step of `AlertLifecycle` for one rule and key, or a stutter of it |
| `...!AlertsKeepToTheirProject` | `AlertsStayInProject` | `RoutesInv`: the connection of a stored rule, of an editor's copy, of a batch in hand and of a delivery is one of its own project |
| `...!ThresholdsCountTheirWindow` | `ThresholdsFire` | `CondsInv` adds that a threshold stored, loaded or in an editor's hand was validated; the predicate in SQL and the one that fired selects the same logs, and a count cut off at the cap decides like the full one |
| `ClientErrorsProofs!IssuesTyped`, `...!FingerprintsHaveOneIssue`, `...!TriageStaysConsistent` | `TypeOK`, `OneIssuePerFingerprint`, `TriageConsistent` | `IssuesInv` adds that a worker past the lookup has an issue, and that the copy of a triage request is itself consistent |
| `...!CountsCoverTheirEvents` | `CountCoversEvents` | `CoverInv`: at every step an issue's count is at least the number of events attached to it or on their way to or from it, according to the worker that carries them |
| `...!ReportsReachOneTeam` | `ReportsStayInTeam` | `TeamInv`: the organization and project of a report, an issue, a post and a page are of the reporter's, from the hint to the delivery |
| `...!RefusedAreServedWhenTold` | `AskedWaitSuffices` | `WaitInv`: a bucket holds, at the time the refused caller was told, what it asked for, whoever sweeps in between |
| `...!CrashesHaveOneIssue` | `SameCrashSameIssue` | `CrashInv` adds to `TeamInv`: a filed report has its issue's fingerprint, the issue is live and was first seen no later; some report was seen when it was; live issues of one place differ in fingerprint |
| `...!PassesFindWhatStandsOut` | `SpikesStandOut` | `CrashInv`: with it, "first seen before the window" is "has a report before the window"; the sums over times are sums over windows, and the scaled rates compare like plain ones |
| `LogRollupProofs!RepairsKeepCounts` | `NeverUnderReports` | `RunInv` adds `RunKnows`: whatever is below the watermark was inserted after it was read |
| `...!RepairsForgetTheDeleted` | `NeverOverReports` | `OverOK`: an hour that counts too much is an hour of an expired row that is gone, and its repair is under way or due |
| `MembershipProofs!OwnersAdminister` | `OwnerStaysAdmin` | `MemberInv`: which rows a request between its statements holds, and what its guard established about them; two requests never insert the same id |
| `...!AcceptedInvitationsAreComplete` | `AcceptedIsComplete` | `GrantInv` adds what an acceptance has granted so far |
| `...!QueriesAgreeOnVisibility` | `VisibilityAgrees` | `MemberInv`: the four queries differ only in states it excludes |
| `...!PaidStaysLinked` | `PaidKeepsLink` | `BillingInv`: the copies that cancellations loaded are linked too |
| `...!ExportCoversCursor` | types, `PassedMeansDelivered` | adds `ReadCovers` (everything up to the last key of the batch in hand is in it, delivered, or late) and `PostedBatch` (at `advance` the batch is delivered); the argument is totality and transitivity of the key order |
| `SourceKeysProofs!RotationInvalidates` | types, `ReplacedKeyRefused` | no key is ahead of the mint; a key belongs to one source in rows and copies; the key of an enabled source is not among the replaced |
| `...!LoginsKeepTheirSessions` | `SessionMatchesLogin` | `SignOnInv`: a login is in one place at a time (state, callback, session code, collected), and what it carries there is of who signed in for it |
| `...!LazyBucketsAreExact` | `BucketIsExact` | `KeysInv`: a stored bucket, refilled to now, is the allowance, and one that was swept was full |
| `...!DisabledAreOutSoon` | `StalenessBounded` | `AccountsInv`: the age of a row is bounded at each hop, from the table to a handler, to a cache, to another handler |
| `StreamTicketsProofs!TicketsSingleUse` | types, `SingleUse`, and the invariants `StreamsAuthorized`, `LiveTicketsKept` | spent tickets are out of the store; tickets are carried only towards redemption; whoever is given one passed the check; no time read is ahead of the clock |
| `...!RecordsStayWithReaders` | `RecordsReachTheirReaders` | `SavedInv`: the copy of a visit is of a record its caller was let see when it was judged |
| `...!SubscribersMissNothing` | `NothingLost` | `TailInv`: what was broadcast since a subscriber joined is, in one of the four places a frame can be, written, in the writer's hand, queued, or in the broadcaster's |
| `...!PagesHaveNoGaps` | `PagesAreComplete` | `PagesInv`: the cursor is the last row in hand; rows in hand, and rows that have matched all along, are or were in the table. Merging each project's newest n gives the newest n of all: a row left out of its project's scan has n newer ones there, and a page that misses one of those is full |
| `...!FiguresAccountForRows` | `ChartsAddUp` | `ChartsInv`: the table is finite and typed. Each figure is a count by classes: a row's bucket and level, its place in the ordered groups, its project; rounding down keeps the order, which puts a row of the range in a generated bucket and lets whole hours be compared by their rollup |
| `IngestPipelineProofs!LimitHonored` | `RateBound` | tokens and past share one budget: `since[a] + tokens <= Burst + Rate * (last - a)`; `RateBound` alone forgets what is left in the bucket |
| `...!EveryEventIsAccountedFor`, `...!QuotaOvershootIsBounded` | `UsageConserved`, `QuotaOvershootBounded` | `UsageInv`: the day's balance over all sources, and the quota with what every slot under way may still add |
| `...!BatchesStayWithinAccess` | `WrittenWhereAllowed` | `AppInv` adds `Vouched`: the projects a request's stages have cleared are of no suspended organization, and those it has authorized are among what its caller could reach; `Reach`: what a caller can reach now is part of that. `WrittenWhereAllowed` looks only at the insert, several statements after the checks it depends on |
| `...!EveryEntryIsAccountedFor` | `AppUsageAgrees` | `AppBooks` balances each project with what each request owes it |

They hold for every value of the constants that satisfies the named `ASSUME`s of the
component modules: sets of any size, bounds that are natural numbers. The assumptions say
what the code gives: null values are not members (`NoUser`, `NoOrg`, `NoSub`, `"none"`), a
free plan keeps logs for less long than a paid one, the requests, events, sources, logs and projects of an
instance are finitely many (in the modules that add up over them or write them down in order), a report names at least one record and
fits the burst, its times and sampling weights are integers, the organizations of a live tail have a project, the passes of the retention are
over the series there are. The types that a theorem needs are in its invariant.

Four theorems have hypotheses of their own.

* `RepairsForgetTheDeleted` assumes `LagWithinRetention`, that nothing is ingested that is past
  its own retention: an insert below the watermark is the one thing besides the run that
  can undercut it. The instance of `RollupRetention` has that property.
* `CountsCoverTheirEvents` assumes one grouping process and reports of weight one, as
  `IssueQueue` does. Neither can be dropped: an issue is opened with count 1 whatever its
  first report weighs, and two processes that claimed the same event may both detach it
  (`CountExact`, section 4).
* `CrashesHaveOneIssue` assumes `CrashesTold`: two sightings are of one crash exactly when
  `Fingerprint` gives them one value. What `Fingerprint` makes of a sighting is a matter of
  data, which TLC checks on the sightings of `IssueRaces`; the theorem is about everything that
  happens to the reports afterwards.
* `PassesFindWhatStandsOut` assumes `WholeWindows`: the window is positive and the baseline a
  multiple of it, as with the defaults of the code (10 minutes in an hour). For another baseline
  "the windows before" are not what the query adds up.

The library has no induction over finite sets that the provers can use, since its theorem
takes an operator; `SumLemmas` obtains what the sums need from the least-number principle
(the smallest set that fails), and states sums as a function on subsets that any element may be
taken from last. The same principle gives that a finite set can be written down in order, and that
such a list has each element once; the pages and groups of a query are chosen as that list.

Only model-checked: liveness (`EventuallyDone`, `ExpiredDeleted`, `EventuallyDelivered`,
`BroadcastFinishes`, `ClosedIsCleanedUp`), which is out of the prover's reach, and the two properties
that fail (section 4). Every other invariant and action property of the runs is a theorem.

## 7. What the models leave out

Wording, JSON, SQL text, logging, metrics; validation of request bodies where it only refuses.
READ COMMITTED is modelled statement by statement; a statement sees the latest committed rows.
Random strings (keys, tickets, ids) are fresh. PostgreSQL, the SIEM, the alert providers,
Stripe, the identity provider and the WebSocket peer are environment: they answer, fail, or
lose an answer. A live-tail peer that vanishes without closing and is sent nothing stays in its
room: the code says so and sets no read deadline.

Not modelled, because they keep no state between two statements and carry no protocol:
normalization, severity and redaction of records, scrubbing of reports (string rewriting); audit
queries and usage reports (one statement each); the AI analysis,
contact and health handlers; the web framework, routing and error encoding; database wrappers
and migrations (transactions appear as atomic steps); keystore, logger, tracing, email; start-up
of the services and the tooling. `dbarray` is vendored code.

## 8. Plan

Models to deepen: several processes that share the database in `AppIngest` and
`IngestPipeline` (their limiters and caches are per process already, in one copy); the
composition of `AppIngest` and `IngestPipeline` with `LiveTail`, for the order of frames of two
doors.
